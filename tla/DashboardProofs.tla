------------------------------- MODULE DashboardProofs -------------------------------
(***************************************************************************)
(* The dashboard page, for any number of polls that are under way at once  *)
(* and for any splits and keys of the drag race: its types, that what a    *)
(* poll shows is no older than the poll, and that a run is whole.          *)
(***************************************************************************)
EXTENDS MCDashboard, TLAPS

(* While waitForDaemon still asks it has not used up its tries.            *)
Asking == /\ ~ ready => tries < Retries
          /\ phase[Boot] = "status" => ~ ready

(* The values a poll holds, in the answer or kept for the time it asks for *)
(* the status, are from a poll of the ECU at or after its beginning.       *)
Fresh == \A s \in Polls :
           /\ began[s] <= time
           /\ phase[s] = "values" /\ http[s] = "ok" => sent[s] >= began[s]
           /\ phase[s] = "status" => got[s] >= began[s]

Inv == TypeOK /\ Asking /\ Fresh

(* No step takes the invariant away.                                       *)
LEMMA Initial == Init => Inv
<1> SUFFICES ASSUME Init PROVE Inv
  OBVIOUS
<1> USE SlotAssumption, BridgeBounds DEF Init, Slots
<1>1. /\ http \in [Slots -> {"none", "asked", "calling", "ok", "500"}]
      /\ phase \in [Slots -> {"idle", "values", "status"}]
  OBVIOUS
<1>2. sent \in [Slots -> 0 .. MaxTime] /\ got \in [Slots -> 0 .. MaxTime]
      /\ began \in [Slots -> 0 .. MaxTime]
  OBVIOUS
<1>3. TypeOK
  <2>1. daemon \in {"up", "down", "stuck"} /\ time \in 0 .. MaxTime /\ shown \in 0 .. MaxTime
    OBVIOUS
  <2>2. linked \in BOOLEAN /\ ready \in BOOLEAN /\ connected \in BOOLEAN
    BY Zenon
  <2>3. tries \in 0 .. Retries
    OBVIOUS
  <2> QED
    BY <1>1, <1>2, <2>1, <2>2, <2>3 DEF TypeOK
<1>4. Asking
  BY DEF Asking
<1>5. Fresh
  BY DEF Fresh
<1> QED
  BY <1>3, <1>4, <1>5 DEF Inv

LEMMA ServerKeeps == ASSUME Inv, NEW s \in Slots, Server(s) PROVE Inv'
<1>1. CASE Serve(s)
  BY <1>1, SlotAssumption DEF Serve, Inv, TypeOK, Asking, Fresh, Slots, ecu, screen
<1>2. CASE Answer(s)
  BY <1>2, SlotAssumption DEF Answer, Inv, TypeOK, Asking, Fresh, Slots, ecu, screen
<1>3. CASE CallFails(s)
  BY <1>3, SlotAssumption, Zenon DEF CallFails, Inv, TypeOK, Asking, Fresh, Slots, ecu, screen
<1> QED
  BY <1>1, <1>2, <1>3 DEF Server

LEMMA BootingKeeps == ASSUME Inv, Booting PROVE Inv'
<1>1. CASE WaitForDaemon
  <2> USE SlotAssumption, BridgeBounds
  <2>1. TypeOK'
    BY <1>1 DEF WaitForDaemon, Ask, Inv, TypeOK, Slots, ecu, screen
  <2>2. Asking'
    BY <1>1 DEF WaitForDaemon, Ask, Inv, TypeOK, Asking, Slots, screen
  <2>3. Fresh'
    BY <1>1 DEF WaitForDaemon, Ask, Inv, TypeOK, Fresh, Slots, ecu, screen
  <2> QED
    BY <2>1, <2>2, <2>3 DEF Inv
<1>2. CASE WaitEnds
  <2> USE SlotAssumption, BridgeBounds
  <2>0. ~ ready /\ tries < Retries /\ tries \in 0 .. Retries /\ phase'[Boot] = "idle"
    BY <1>2 DEF WaitEnds, Done, Inv, TypeOK, Asking, Slots
  <2>1. TypeOK'
    <3>1. tries' \in 0 .. Retries
      BY <1>2, <2>0 DEF WaitEnds
    <3>2. ready' \in BOOLEAN /\ connected' \in BOOLEAN
      BY <1>2, Zenon DEF WaitEnds, Inv, TypeOK
    <3> QED
      BY <1>2, <3>1, <3>2 DEF WaitEnds, Done, Inv, TypeOK, Slots, ecu
  <2>2. Asking'
    <3>1. ASSUME ~ ready' PROVE tries' < Retries
      <4>1. tries' = tries + 1 /\ tries' # Retries
        BY <1>2, <3>1, Zenon DEF WaitEnds
      <4> QED
        BY <2>0, <4>1
    <3> QED
      BY <2>0, <3>1 DEF Asking
  <2>3. Fresh'
    BY <1>2 DEF WaitEnds, Done, Inv, TypeOK, Fresh, Slots, ecu
  <2> QED
    BY <2>1, <2>2, <2>3 DEF Inv
<1> QED
  BY <1>1, <1>2 DEF Booting

LEMMA PollingKeeps == ASSUME Inv, NEW s \in Polls, Polling(s) PROVE Inv'
<1> USE SlotAssumption DEF Inv, TypeOK, Asking, Fresh, Slots, ecu
<1>1. CASE Poll(s)
  BY <1>1 DEF Poll, Ask, screen
<1>2. CASE Show(s)
  BY <1>2 DEF Show, Done
<1>3. CASE AskStatus(s)
  BY <1>3 DEF AskStatus, Ask, screen
<1>4. CASE ShowAfterStatus(s)
  BY <1>4 DEF ShowAfterStatus, Done
<1>5. CASE Fail(s)
  BY <1>5, Zenon DEF Fail, Done
<1> QED
  BY <1>1, <1>2, <1>3, <1>4, <1>5 DEF Polling

LEMMA Step == Inv /\ [Next]_vars => Inv'
<1> SUFFICES ASSUME Inv, [Next]_vars PROVE Inv'
  OBVIOUS
<1>1. CASE \E s \in Slots : Server(s)
  BY <1>1, ServerKeeps
<1>2. CASE Booting
  BY <1>2, BootingKeeps
<1>3. CASE \E s \in Polls : Polling(s)
  BY <1>3, PollingKeeps
<1>4. CASE PollEcu
  BY <1>4, BridgeBounds
     DEF PollEcu, Inv, TypeOK, Asking, Fresh, Slots, server, screen
<1>5. CASE Change
  BY <1>5 DEF Change, Inv, TypeOK, Asking, Fresh, Slots, server, screen
<1>6. CASE UNCHANGED vars
  BY <1>6 DEF vars, ecu, server, screen, Inv, TypeOK, Asking, Fresh, Slots
<1> QED
  BY <1>1, <1>2, <1>3, <1>4, <1>5, <1>6 DEF Next

------------------------------------------------------------------------------
(* The drag race.  While the car is staged the quarter mile is not among   *)
(* its splits: staging empties them, and the step that adds the quarter    *)
(* mile ends the staging.  A launch does not empty them, so that a second  *)
(* chain that launches again does not rely on it.                          *)
RaceInv == Race!TypeOK /\ Race!RunningIsStaged /\ (staged => Race!Quarter \notin splits)

(* The first split is there, and a time.                                   *)
LEMMA QuarterIsTimed == Race!Quarter \in Race!Splits /\ SplitTimes[Race!Quarter] \in Nat
  BY RaceAssumption DEF Race!Quarter, Race!Splits

(* Nothing is staged or runs at first.                                     *)
LEMMA RaceInitial == Race!Init => RaceInv
<1> SUFFICES ASSUME Race!Init PROVE RaceInv
  OBVIOUS
<1>1. elapsed \in 0 .. SplitTimes[Race!Quarter]
  BY QuarterIsTimed DEF Race!Init
<1>2. stages \in 0 .. MaxStages /\ resets \in 0 .. MaxResets /\ saved \in Nat
  BY RaceAssumption DEF Race!Init
<1>3. {staged, running, floored} \subseteq BOOLEAN /\ splits = {} /\ lights = {}
      /\ ~ staged /\ ~ running
  BY Zenon DEF Race!Init
<1>4. /\ chain \in [Race!Chains -> Race!Timed \cup {"none", "watch", "track"}]
      /\ left \in [Race!Chains -> 0 .. 2]
  BY DEF Race!Init
<1> QED
  BY <1>1, <1>2, <1>3, <1>4 DEF RaceInv, Race!TypeOK, Race!RunningIsStaged

(* The types of the parts, by themselves.                                  *)
LEMMA RaceTypes ==
  ASSUME RaceInv
  PROVE  /\ staged \in BOOLEAN /\ running \in BOOLEAN /\ floored \in BOOLEAN
         /\ splits \subseteq Race!Splits /\ elapsed \in 0 .. SplitTimes[Race!Quarter]
         /\ lights \subseteq Race!Ambers \cup {"green", "red"}
         /\ chain \in [Race!Chains -> Race!Timed \cup {"none", "watch", "track"}]
         /\ left \in [Race!Chains -> 0 .. 2]
         /\ stages \in 0 .. MaxStages /\ resets \in 0 .. MaxResets /\ saved \in Nat
         /\ running => staged
         /\ staged => Race!Quarter \notin splits
<1>1. {staged, running, floored} \subseteq BOOLEAN
  BY DEF RaceInv, Race!TypeOK
<1>2. staged \in BOOLEAN /\ running \in BOOLEAN /\ floored \in BOOLEAN
  BY <1>1, Zenon
<1> QED
  BY <1>2 DEF RaceInv, Race!TypeOK, Race!RunningIsStaged

(* And what is to be shown after a step.                                   *)
LEMMA RaceNow ==
  ASSUME staged' \in BOOLEAN, running' \in BOOLEAN, floored' \in BOOLEAN,
         splits' \subseteq Race!Splits, elapsed' \in 0 .. SplitTimes[Race!Quarter],
         lights' \subseteq Race!Ambers \cup {"green", "red"},
         chain' \in [Race!Chains -> Race!Timed \cup {"none", "watch", "track"}],
         left' \in [Race!Chains -> 0 .. 2],
         stages' \in 0 .. MaxStages, resets' \in 0 .. MaxResets, saved' \in Nat,
         running' => staged',
         staged' => Race!Quarter \notin splits'
  PROVE  RaceInv'
<1>1. {staged', running', floored'} \subseteq BOOLEAN
  BY Zenon
<1>2. Race!TypeOK'
  BY <1>1 DEF Race!TypeOK, Race!Quarter, Race!Splits, Race!Chains, Race!Timed, Race!Ambers
<1> QED
  BY <1>2 DEF RaceInv, Race!RunningIsStaged, Race!Quarter

(* The keys.                                                               *)
LEMMA KeysKeep == ASSUME RaceInv, Race!Stage \/ Race!Reset PROVE RaceInv'
<1> USE RaceTypes, RaceAssumption
<1>1. CASE Race!Stage
  <2>1. stages + 1 \in Race!Chains /\ stages' = stages + 1 /\ stages + 1 \in 0 .. MaxStages
    BY <1>1, SMTT(60) DEF Race!Stage, Race!Chains
  <2>2. /\ chain' = [chain EXCEPT ![stages + 1] = "countdown"]
        /\ left' = [left EXCEPT ![stages + 1] = 2]
    BY <1>1, <2>1 DEF Race!Stage
  <2>3. /\ chain' \in [Race!Chains -> Race!Timed \cup {"none", "watch", "track"}]
        /\ left' \in [Race!Chains -> 0 .. 2]
    BY <2>1, <2>2, SMTT(60) DEF Race!Timed
  <2>4. staged' = TRUE /\ running' = FALSE /\ splits' = {}
    BY <1>1 DEF Race!Stage
  <2> QED
    BY <1>1, <2>1, <2>3, <2>4, RaceNow, Zenon DEF Race!Stage
<1>2. CASE Race!Reset
  <2>1. resets' \in 0 .. MaxResets
    BY <1>2 DEF Race!Reset
  <2>2. staged' = FALSE /\ running' = FALSE /\ lights' = {}
    BY <1>2 DEF Race!Reset
  <2> QED
    BY <1>2, <2>1, <2>2, RaceNow, Zenon DEF Race!Reset
<1> QED
  BY <1>1, <1>2

(* The timers: only the launch changes what the race is, and it asks for a *)
(* staged car.                                                             *)
LEMMA TimersKeep == ASSUME RaceInv, NEW k \in Race!Chains,
                           Race!Countdown(k) \/ Race!Amber(k) \/ Race!Green(k)
                    PROVE  RaceInv'
<1> USE RaceTypes
<1>1. CASE Race!Countdown(k)
  <2>1. UNCHANGED <<staged, running, splits, elapsed, floored, stages, resets, saved>>
    BY <1>1 DEF Race!Countdown, Race!race, Race!keys
  <2>2. /\ chain' \in [Race!Chains -> Race!Timed \cup {"none", "watch", "track"}]
        /\ left' \in [Race!Chains -> 0 .. 2]
        /\ lights' \subseteq Race!Ambers \cup {"green", "red"}
    BY <1>1 DEF Race!Countdown, Race!Timed, Race!Ambers
  <2> QED
    BY <2>1, <2>2, RaceNow
<1>2. CASE Race!Amber(k)
  <2>1. UNCHANGED <<staged, running, splits, elapsed, floored, stages, resets, saved>>
    BY <1>2 DEF Race!Amber, Race!race, Race!keys
  <2>2. /\ chain' \in [Race!Chains -> Race!Timed \cup {"none", "watch", "track"}]
        /\ left' \in [Race!Chains -> 0 .. 2]
        /\ lights' \subseteq Race!Ambers \cup {"green", "red"}
    BY <1>2 DEF Race!Amber, Race!Timed, Race!Ambers
  <2> QED
    BY <2>1, <2>2, RaceNow
<1>3. CASE Race!Green(k)
  <2>1. UNCHANGED <<staged, splits, left, floored, stages, resets, saved>>
    BY <1>3 DEF Race!Green, Race!keys
  <2>2. /\ chain' \in [Race!Chains -> Race!Timed \cup {"none", "watch", "track"}]
        /\ lights' \subseteq Race!Ambers \cup {"green", "red"}
    BY <1>3 DEF Race!Green, Race!Timed, Race!Ambers
  <2>3. \/ running' = running /\ elapsed' = elapsed
        \/ running' = TRUE /\ elapsed' = 0 /\ staged
    BY <1>3 DEF Race!Green, Race!Start
  <2>4. elapsed' \in 0 .. SplitTimes[Race!Quarter]
    BY <2>3, QuarterIsTimed
  <2>5. running' \in BOOLEAN /\ (running' => staged')
    <3>1. staged' = staged
      BY <2>1
    <3>2. CASE running' = running
      BY <3>1, <3>2
    <3>3. CASE running' = TRUE /\ staged
      BY <3>1, <3>3
    <3> QED
      BY <2>3, <3>2, <3>3, Zenon
  <2> QED
    BY <2>1, <2>2, <2>4, <2>5, RaceNow
<1> QED
  BY <1>1, <1>2, <1>3

(* The frames: what is reached in a run that goes on is not the quarter    *)
(* mile.                                                                   *)
LEMMA FramesKeep == ASSUME RaceInv, Race!Frame PROVE RaceInv'
<1> USE RaceTypes
<1>0. ASSUME NEW ks, NEW what \in {"none", "track"}, Race!Turn(ks, what)
      PROVE  chain' \in [Race!Chains -> Race!Timed \cup {"none", "watch", "track"}]
  BY <1>0 DEF Race!Turn
<1>00. Race!Reached \subseteq Race!Splits
  BY DEF Race!Reached
<1>1. CASE Race!WatchFrame
  <2>1. UNCHANGED <<staged, splits, lights, left, floored, stages, resets, saved>>
    BY <1>1 DEF Race!WatchFrame, Race!keys
  <2>2. \/ running' = running /\ elapsed' = elapsed
        \/ running' = TRUE /\ elapsed' = 0 /\ staged
    BY <1>1 DEF Race!WatchFrame, Race!Start
  <2>3. chain' \in [Race!Chains -> Race!Timed \cup {"none", "watch", "track"}]
    BY <1>0, <1>1 DEF Race!WatchFrame
  <2>4. elapsed' \in 0 .. SplitTimes[Race!Quarter]
    BY <2>2, QuarterIsTimed
  <2>5. running' \in BOOLEAN /\ (running' => staged')
    <3>1. staged' = staged
      BY <2>1
    <3>2. CASE running' = running
      BY <3>1, <3>2
    <3>3. CASE running' = TRUE /\ staged
      BY <3>1, <3>3
    <3> QED
      BY <2>2, <3>2, <3>3, Zenon
  <2> QED
    BY <2>1, <2>3, <2>4, <2>5, RaceNow
<1>2. CASE Race!Finish
  <2>1. /\ UNCHANGED <<elapsed, lights, left, floored, stages, resets>>
        /\ running' = FALSE /\ staged' = FALSE /\ saved' = saved + 1 /\ splits' = Race!Reached
    BY <1>2 DEF Race!Finish, Race!keys
  <2>2. chain' \in [Race!Chains -> Race!Timed \cup {"none", "watch", "track"}]
    BY <1>0, <1>2 DEF Race!Finish
  <2>3. saved' \in Nat
    BY <2>1
  <2> QED
    BY <2>1, <2>2, <2>3, <1>00, RaceNow, Zenon
<1>3. CASE Race!Track
  BY <1>3, <1>00, RaceNow DEF Race!Track, Race!keys
<1>4. CASE Race!StopTracking
  <2>1. UNCHANGED <<staged, running, splits, elapsed, lights, left, floored, stages, resets, saved>>
    BY <1>4 DEF Race!StopTracking, Race!race, Race!keys
  <2>2. chain' \in [Race!Chains -> Race!Timed \cup {"none", "watch", "track"}]
    BY <1>0, <1>4 DEF Race!StopTracking
  <2> QED
    BY <2>1, <2>2, RaceNow
<1> QED
  BY <1>1, <1>2, <1>3, <1>4 DEF Race!Frame, Race!TrackFrame

(* Time, and the driver.                                                   *)
LEMMA TimeKeeps == ASSUME RaceInv, Race!Tick \/ Race!Drive PROVE RaceInv'
<1> USE RaceTypes
<1>1. CASE Race!Tick
  <2>1. UNCHANGED <<staged, running, splits, lights, chain, floored, stages, resets, saved>>
    BY <1>1 DEF Race!Tick, Race!keys
  <2>2. left' \in [Race!Chains -> 0 .. 2]
    BY <1>1 DEF Race!Tick
  <2>3. elapsed' \in 0 .. SplitTimes[Race!Quarter]
    BY <1>1, QuarterIsTimed DEF Race!Tick
  <2> QED
    BY <2>1, <2>2, <2>3, RaceNow
<1>2. CASE Race!Drive
  <2>1. /\ UNCHANGED <<staged, running, splits, elapsed, lights, chain, left, stages, resets, saved>>
        /\ floored' = ~ floored
    BY <1>2 DEF Race!Drive, Race!race, Race!keys
  <2> QED
    BY <2>1, RaceNow
<1> QED
  BY <1>1, <1>2

LEMMA RaceStep == ASSUME RaceInv, Race!Next PROVE RaceInv'
  BY KeysKeep, TimersKeep, FramesKeep, TimeKeeps DEF Race!Next, Race!Timers

(* A run that is saved ends at its quarter mile, which was reached by now  *)
(* and not before, and it is saved once.                                   *)
LEMMA RunEnds ==
  ASSUME RaceInv, Race!Next, saved' # saved
  PROVE  /\ elapsed >= SplitTimes[Race!Quarter]
         /\ saved' = saved + 1 /\ running /\ ~ running'
<1>1. Race!Finish
  <2>1. ASSUME NEW k \in Race!Chains, Race!Countdown(k) \/ Race!Amber(k) \/ Race!Green(k)
        PROVE  FALSE
    BY <2>1 DEF Race!Countdown, Race!Amber, Race!Green
  <2>2. ~ Race!Stage /\ ~ Race!Reset /\ ~ Race!Tick /\ ~ Race!Drive
    BY DEF Race!Stage, Race!Reset, Race!Tick, Race!Drive
  <2>3. ~ Race!WatchFrame /\ ~ Race!Track /\ ~ Race!StopTracking
    BY DEF Race!WatchFrame, Race!Track, Race!StopTracking
  <2> QED
    BY <2>1, <2>2, <2>3 DEF Race!Next, Race!Timers, Race!Frame, Race!TrackFrame
<1>2. /\ running /\ saved' = saved + 1 /\ ~ running'
      /\ Race!Quarter \in splits \cup {i \in Race!Splits : SplitTimes[i] <= elapsed}
  BY <1>1 DEF Race!Finish, Race!Reached
<1>3. SplitTimes[Race!Quarter] <= elapsed
  BY <1>2, RaceTypes
<1> QED
  BY <1>2, <1>3, QuarterIsTimed, RaceTypes

------------------------------------------------------------------------------
(* Both programs of the page.                                              *)
LEMMA PageStep ==
  Inv /\ RaceInv /\ [AnyNext]_all => (Inv /\ RaceInv)' /\ [Next]_vars /\ [Race!Next]_race
<1> SUFFICES ASSUME Inv, RaceInv, [AnyNext]_all
             PROVE  (Inv /\ RaceInv)' /\ [Next]_vars /\ [Race!Next]_race
  OBVIOUS
<1>1. [Next]_vars /\ [Race!Next]_race
  BY Zenon DEF AnyNext, all
<1>2. CASE UNCHANGED race
  <2>1. RaceInv'
    BY <1>2, RaceTypes, RaceNow DEF race
  <2> QED
    BY <1>1, <2>1, Step
<1>3. CASE Race!Next
  BY <1>1, <1>3, RaceStep, Step
<1> QED
  BY <1>1, <1>2, <1>3

LEMMA Invariance ==
  AnySpec => [](Inv /\ RaceInv) /\ [][Next]_vars /\ [][Race!Next]_race
<1>1. AnyInit => Inv /\ RaceInv
  BY Initial, RaceInitial, Zenon DEF AnyInit
<1> QED
  BY <1>1, PageStep, PTL DEF AnySpec

(* Every variable of the path and of the race has its type; waitForDaemon  *)
(* does not ask more often than it may.                                    *)
THEOREM TypeCorrect == AnySpec => []TypesOK
<1>1. Inv /\ RaceInv => TypesOK
  BY DEF Inv, RaceInv, TypesOK
<1> QED
  BY <1>1, Invariance, PTL

(* What a poll puts on the screen is not older than the poll, however many *)
(* calls overlap (poll of app.js, _rpcCall).                               *)
THEOREM ShownIsFresh == AnySpec => ShownSincePoll
<1>1. Inv /\ [Next]_vars
        => [\A s \in Polls : Show(s) \/ ShowAfterStatus(s) => shown' >= began[s]]_vars
  BY DEF Inv, Fresh, TypeOK, Slots, Show, ShowAfterStatus
<1> QED
  BY <1>1, Invariance, PTL DEF ShownSincePoll

(* Whatever keys are pressed and whichever chains of callbacks are still   *)
(* under way: no run goes on without a staged car, and a run ends at its   *)
(* own quarter mile and is saved once (trackSplits, finish and reset).     *)
THEOREM RacesAreWhole == AnySpec => RunsAreWhole
<1>1. RaceInv => Race!RunningIsStaged
  BY DEF RaceInv
<1>2. RaceInv /\ [Race!Next]_race
        => /\ [saved' # saved => elapsed >= SplitTimes[Race!Quarter]]_Race!vars
           /\ [saved' # saved => saved' = saved + 1 /\ running /\ ~ running']_Race!vars
  BY RunEnds DEF race
<1> QED
  BY <1>1, <1>2, Invariance, PTL DEF RunsAreWhole, Race!EndsAtQuarterMile, Race!SavedOnce
===============================================================================
