------------------------------- MODULE TrackPage -------------------------------
(***************************************************************************)
(* The race track (track/TrackPage.tsx over lapState.ts, racetrackScene.ts *)
(* and Countdown.tsx): a garage or an override URL picks a car, a scene is *)
(* built for it behind two awaits, the scene runs the lap and tells React  *)
(* about it, and React keeps each car's best lap.                          *)
(*                                                                         *)
(* The scene owns the lap; React holds its last snapshot.  Every React     *)
(* update is committed, with its effects, before the next one.             *)
(***************************************************************************)
EXTENDS Naturals, FiniteSets

CONSTANTS
  Cars,        \* the wallet's tokens of the bound collection
  DefaultCar,  \* the default car
  NoCar,       \* nothing selected, no scene
  MaxLap,      \* lap times are 1..MaxLap; 0 is none
  MaxBuilds    \* bound: scenes built

TrackAssumption ==
  /\ NoCar \notin Cars \cup {DefaultCar}
  /\ {MaxLap, MaxBuilds} \subseteq Nat

VARIABLES
  override,    \* ?model= or ?blob=: one car, no garage
  owned,       \* the cars the hooks have found
  chosen,      \* selectedTokenId
  phase,
  builds,      \* scenes being built: number, car, stage and whether cancelled
  built,       \* builds begun
  scene,       \* sceneRef: the car, its lap, where it is, whether the orbit is over
  error,
  lap,         \* React's copy of the lap
  pb,          \* React's best time of the selected car
  best,        \* localStorage: car -> best time and the car that drove it
  lastResult,  \* the result overlay is up
  orbitDone,
  counted      \* the mounted countdown has reached its end

vars == <<override, owned, chosen, phase, builds, built, scene, error,
          lap, pb, best, lastResult, orbitDone, counted>>

AllCars == Cars \cup {DefaultCar}
NoScene == [car |-> NoCar]

Lap(status) == [status |-> status, ms |-> 0, checkpoint |-> FALSE]
initialLapState == Lap("intro")
waitingLapState == Lap("waiting")

(* selected: the chosen car while it is in the list, or the first one.     *)
SelectedOf(found, pick) ==
  IF override THEN IF found = {} THEN NoCar ELSE CHOOSE c \in found : TRUE
  ELSE IF pick \in found THEN pick ELSE DefaultCar
selected == SelectedOf(owned, chosen)

Init ==
  /\ override \in BOOLEAN /\ owned = {} /\ chosen = NoCar
  /\ phase = IF override THEN "racing" ELSE "garage"
  /\ builds = {} /\ built = 0 /\ scene = NoScene /\ error = FALSE
  /\ lap = initialLapState /\ pb = 0
  /\ best = [c \in AllCars |-> [ms |-> 0, by |-> c]]
  /\ lastResult = FALSE /\ orbitDone = FALSE /\ counted = FALSE

-----------------------------------------------------------------------------
(* What the effect on the selected car does to pb.                         *)
PbOnSelect(car) == IF car = NoCar THEN 0 ELSE best[car].ms

(* A build whose effect is cleaned up: its fetch is aborted, a scene being *)
(* created comes to an end on its own.                                     *)
Cancelled == {[b EXCEPT !.cancelled = TRUE] : b \in {x \in builds : x.stage = "create"}}

(* The two effects of a change of the selected car or of the phase.        *)
Effects(car, ph) ==
  /\ IF car # selected
     THEN /\ lap' = initialLapState /\ pb' = PbOnSelect(car)
          /\ lastResult' = FALSE /\ orbitDone' = FALSE
     ELSE UNCHANGED <<lap, pb, lastResult, orbitDone>>
  /\ IF car = selected /\ ph = phase
     THEN UNCHANGED <<builds, built, error>>
     ELSE IF ph = "racing" /\ car # NoCar
     THEN /\ built < MaxBuilds /\ built' = built + 1 /\ error' = FALSE
          /\ builds' = Cancelled \cup
               {[n |-> built', car |-> car, stage |-> "fetch", cancelled |-> FALSE]}
     ELSE builds' = Cancelled /\ UNCHANGED <<built, error>>

(* The hooks answer: the wallet's cars, which change with the account, or  *)
(* the one car of the URL.                                                 *)
Found(cars) ==
  /\ cars # owned /\ (override => owned = {} /\ \E car \in Cars : cars = {car})
  /\ owned' = cars
  /\ Effects(SelectedOf(cars, chosen), phase)
  /\ UNCHANGED <<override, chosen, phase, scene, best>>

handleDrive(car) ==
  /\ phase = "garage"
  /\ chosen' = car /\ phase' = "racing"
  /\ Effects(SelectedOf(owned, car), "racing")
  /\ UNCHANGED <<override, owned, scene, best>>

handleChangeCar ==
  /\ phase = "racing" /\ ~override
  /\ scene' = NoScene /\ phase' = "garage"
  /\ Effects(selected, "garage")
  /\ UNCHANGED <<override, owned, chosen, best>>

-----------------------------------------------------------------------------
(* The first await is over: the scene of the last car goes.                *)
Fetched(b) ==
  /\ b \in builds /\ b.stage = "fetch"
  /\ builds' = (builds \ {b}) \cup {[b EXCEPT !.stage = "create"]}
  /\ scene' = NoScene
  /\ UNCHANGED <<override, owned, chosen, phase, built, error, lap, pb, best, lastResult, orbitDone>>

(* Which scenes are disposed as soon as they are made.                     *)
Unwanted(b) == b.cancelled

Created(b) ==
  /\ b \in builds /\ b.stage = "create"
  /\ builds' = builds \ {b}
  /\ scene' = IF Unwanted(b) THEN scene
              ELSE [car |-> b.car, lap |-> initialLapState, at |-> "start",
                    orbited |-> FALSE, passed |-> FALSE]
  /\ UNCHANGED <<override, owned, chosen, phase, built, error, lap, pb, best, lastResult, orbitDone>>

(* Either await throws.                                                    *)
BuildFails(b) ==
  /\ b \in builds /\ builds' = builds \ {b}
  /\ IF b.cancelled THEN UNCHANGED <<error, lap, lastResult>>
     ELSE error' = TRUE /\ lap' = waitingLapState /\ lastResult' = FALSE
  /\ UNCHANGED <<override, owned, chosen, phase, built, scene, pb, best, orbitDone>>

-----------------------------------------------------------------------------
(* lapReducer.                                                             *)
finishCrossed_faulty(l, ms) ==
  IF l.status = "running" THEN [l EXCEPT !.status = "finished", !.ms = ms] ELSE l
finishCrossed(l, ms) ==
  IF l.status = "running" /\ l.checkpoint
  THEN [l EXCEPT !.status = "finished", !.ms = ms] ELSE l

checkpoint(l) == [l EXCEPT !.checkpoint = @ \/ l.status = "running"]
throttle(l) == IF l.status = "waiting" THEN [l EXCEPT !.status = "running"] ELSE l
introOver(l) == IF l.status = "intro" THEN waitingLapState ELSE l

(* onLapStateChange and React's two effects on the lap: the best time and  *)
(* the overlay of a finish, once, and the overlay's end.                   *)
Tell(s, l) ==
  /\ scene' = [s EXCEPT !.lap = l] /\ lap' = l
  /\ IF l.status = "finished" /\ ~lastResult
     THEN /\ lastResult' = TRUE
          /\ IF pb = 0 \/ l.ms < pb
             THEN /\ best' = [best EXCEPT ![selected] = [ms |-> l.ms, by |-> s.car]]
                  /\ pb' = l.ms
             ELSE UNCHANGED <<best, pb>>
     ELSE lastResult' = (lastResult /\ l.status # "waiting") /\ UNCHANGED <<best, pb>>
  /\ UNCHANGED <<override, owned, chosen, phase, builds, built, error, orbitDone>>

(* dispatch: React hears of a lap that has changed.                        *)
Dispatch(s, l) ==
  IF l # s.lap THEN Tell(s, l)
  ELSE /\ scene' = s
       /\ UNCHANGED <<override, owned, chosen, phase, builds, built, error,
                      lap, pb, best, lastResult, orbitDone>>

Driving == scene # NoScene /\ scene.lap.status # "intro"
Beside == [start |-> {"road"}, road |-> {"start", "check"}, check |-> {"road"}]

(* The car moves, and the frame checks the two trigger zones it enters.    *)
Drive(to, ms) ==
  /\ Driving /\ to \in Beside[scene.at]
  /\ LET s == [scene EXCEPT !.at = to,
                            !.passed = @ \/ (to = "check" /\ scene.lap.status = "running")]
     IN  Dispatch(s, CASE to = "start" -> finishCrossed(scene.lap, ms)
                       [] to = "check" -> checkpoint(scene.lap)
                       [] OTHER -> scene.lap)

Throttle ==
  /\ Driving /\ scene.lap.status = "waiting"
  /\ Dispatch([scene EXCEPT !.passed = FALSE], throttle(scene.lap))

(* Every frame of a running lap carries its time to React.                 *)
Tick ==
  /\ Driving /\ scene.lap.status = "running" /\ lap # scene.lap
  /\ lap' = scene.lap
  /\ UNCHANGED <<override, owned, chosen, phase, builds, built, scene, error,
                 pb, best, lastResult, orbitDone>>

(* Hold W: the intro is skipped.                                           *)
IntroSkip ==
  /\ scene # NoScene /\ scene.lap.status = "intro"
  /\ Dispatch(scene, introOver(scene.lap))

OrbitComplete ==
  /\ scene # NoScene /\ scene.lap.status = "intro" /\ ~scene.orbited
  /\ scene' = [scene EXCEPT !.orbited = TRUE] /\ orbitDone' = TRUE
  /\ UNCHANGED <<override, owned, chosen, phase, builds, built, error, lap, pb, best, lastResult>>

(* The Retry button and the 'r' key: scene.reset().                        *)
handleRetry ==
  /\ lastResult \/ lap.status \notin {"waiting", "intro"}
  /\ phase = "racing" /\ scene # NoScene
  /\ Tell([scene EXCEPT !.at = "start"], waitingLapState)

(* Is the countdown mounted?  At its end it tells the scene, if there is   *)
(* one, and stays mounted, done.                                           *)
Counting == phase = "racing" /\ ~error /\ orbitDone /\ lap.status = "intro"

CountdownEnds ==
  /\ Counting /\ ~counted
  /\ IF scene # NoScene THEN Dispatch(scene, introOver(scene.lap))
     ELSE UNCHANGED <<override, owned, chosen, phase, builds, built, scene, error,
                      lap, pb, best, lastResult, orbitDone>>
  /\ counted' = Counting'

Step ==
  \/ \E cars \in SUBSET Cars : Found(cars)
  \/ \E car \in owned \cup {DefaultCar} : handleDrive(car)
  \/ handleChangeCar
  \/ \E b \in builds : Fetched(b) \/ Created(b) \/ BuildFails(b)
  \/ \E to \in DOMAIN Beside, ms \in 1..MaxLap : Drive(to, ms)
  \/ Throttle \/ Tick \/ IntroSkip \/ OrbitComplete \/ handleRetry

Next == CountdownEnds \/ (Step /\ counted' = (counted /\ Counting'))

Spec == Init /\ [][Next]_vars

-----------------------------------------------------------------------------
LapStates == [status : {"intro", "waiting", "running", "finished"}, ms : 0..MaxLap,
              checkpoint : BOOLEAN]

TypeOK ==
  /\ owned \subseteq Cars /\ chosen \in AllCars \cup {NoCar} /\ phase \in {"garage", "racing"}
  /\ \A b \in builds : b.n \in 1..built /\ b.car \in AllCars /\ b.stage \in {"fetch", "create"}
  /\ scene = NoScene \/ (scene.car \in AllCars /\ scene.lap \in LapStates)
  /\ lap \in LapStates /\ pb \in 0..MaxLap
  /\ best \in [AllCars -> [ms : 0..MaxLap, by : AllCars]]
  /\ {override, error, lastResult, orbitDone, counted} \subseteq BOOLEAN

(* Once nothing is being built, the scene is the selected car's and no     *)
(* other: however often the car changed during the awaits, no scene of a   *)
(* cancelled build takes its place, and none is left behind in the garage. *)
SceneIsSelected ==
  (\A b \in builds : b.cancelled) =>
    \/ phase = "racing" /\ scene # NoScene /\ (error \/ scene.car = selected)
    \/ (phase = "garage" \/ error \/ selected = NoCar) /\ scene = NoScene

(* A lap that counts went through the checkpoint after the throttle that   *)
(* began it, through whatever retries and changes of direction.            *)
FinishedLapIsALap ==
  scene # NoScene /\ scene.lap.status = "finished" => scene.passed

(* TrackPage.tsx:433: a lap of one car must not become the best time of    *)
(* another ("Without the guard, setPb(B.objectId, A.lapMs) would corrupt   *)
(* B's PB storage").                                                       *)
BestIsItsOwn == \A c \in AllCars : best[c].by = c
=============================================================================
