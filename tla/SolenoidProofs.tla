--------------------------- MODULE SolenoidProofs ---------------------------
(***************************************************************************)
(* Proofs about Solenoid for every period of TIM2 and every pair of delays *)
(* that together are shorter than it.                                      *)
(***************************************************************************)
EXTENDS Solenoid, TLAPS

(* A loop is entered only in its phase, and a delay is never longer than   *)
(* it was started with.                                                    *)
PhaseInv ==
  /\ pc = "lift" => state = 1
  /\ pc \in {"aim", "shoot"} => state = 2
  /\ pc = "rest" => state = 3
  /\ pc = "sleep" => left <= LoopDelay
  /\ pc = "aim" => left <= ShotDelay

(* While the shoot phase waits, the servo has been down for as long.       *)
ServoInv ==
  /\ pc = "aim" => servo = 2000 /\ lowered + left >= ShotDelay
  /\ ShootsLowered

(* How long the switch may have been on manual at each place: a phase      *)
(* lasts until the next update of TIM2, which lowers the flag.             *)
HeedInv ==
  /\ ~manual => unheeded = 0
  /\ pc = "sleep" => unheeded + left <= Period + LoopDelay
  /\ pc = "manual" => unheeded <= Period + LoopDelay
  /\ pc = "auto" => unheeded = 0
  /\ pc = "aim" => unheeded + left <= ShotDelay
  /\ pc \in Loops => unheeded <= Period
  /\ pc \in Loops \cup {"aim"} /\ shot_flag = 1 => unheeded + tim2 <= Period

(* The lift phase ends at an update of TIM2; until the shoot phase reaches *)
(* its loop no more than the two delays have passed since.                 *)
ShotInv ==
  /\ pc = "lift" /\ shot_flag = 0 => tim2 = Period
  /\ ~touched /\ state = 2 =>
       /\ pc = "sleep" => tim2 + LoopDelay >= Period + left
       /\ pc = "auto"  => tim2 + LoopDelay >= Period
       /\ pc = "aim"   => shot_flag = 1 /\ tim2 + LoopDelay + ShotDelay >= Period + left
       /\ pc = "shoot" => \/ pins["PC0"] = "SET"
                          \/ shot_flag = 1 /\ tim2 + LoopDelay + ShotDelay >= Period

IInv == TypeOK /\ PhaseInv /\ ServoInv /\ HeedInv /\ ShotInv

------------------------------------------------------------------------------
LEMMA Delays ==
  /\ Period \in Nat /\ LoopDelay \in Nat /\ ShotDelay \in Nat
  /\ LoopDelay > 0 /\ ShotDelay > 0 /\ LoopDelay + ShotDelay < Period
BY SolenoidAssumption

LEMMA AtRestType == AtRest \in Pins /\ DOMAIN AtRest = {"PC0", "PC4", "PC5"}
BY DEF AtRest, Pins, Level

LEMMA LoopPinsType ==
  ASSUME pins \in Pins, pc \in Loops
  PROVE  LoopPins \in Pins
BY AtRestType DEF LoopPins, Pins, Level, Loops

LEMMA SetServoType ==
  ASSUME NEW v \in {2000, 3600}, lowered \in 0..ShotDelay, SetServo(v)
  PROVE  servo' \in {2000, 3600} /\ lowered' \in 0..ShotDelay
BY Delays DEF SetServo

LEMMA InitIInv == Init => IInv
<1> SUFFICES ASSUME Init
             PROVE  IInv
  OBVIOUS
<1>1. pins \in Pins
  BY AtRestType DEF Init, Pins, Level
<1>2. manual \in BOOLEAN /\ touched \in BOOLEAN
  BY DEF Init
<1>3. TypeOK
  BY <1>1, <1>2, Delays DEF Init, TypeOK
<1>4. PhaseInv /\ ServoInv
  BY Delays DEF Init, PhaseInv, ServoInv, ShootsLowered
<1>5. HeedInv
  BY Delays DEF Init, HeedInv, Loops
<1>6. ShotInv
  BY DEF Init, ShotInv
<1> QED BY <1>3, <1>4, <1>5, <1>6 DEF IInv

------------------------------------------------------------------------------
LEMMA TypeStep == TypeOK /\ [Next]_vars => TypeOK'
<1> SUFFICES ASSUME TypeOK, [Next]_vars
             PROVE  TypeOK'
  OBVIOUS
<1> USE Delays DEF TypeOK
<1>1. CASE RcIsr
  BY <1>1 DEF RcIsr, plant
<1>2. CASE Tim2Isr
  BY <1>2 DEF Tim2Isr, plant
<1>3. CASE Wake
  BY <1>3 DEF Wake, plant
<1>4. CASE Manual
  <2>1. servo' \in {2000, 3600} /\ lowered' \in 0..ShotDelay
    BY <1>4, SetServoType DEF Manual
  <2> QED BY <1>4, <2>1 DEF Manual, Sleep
<1>5. CASE Automatic
  <2>1. servo' \in {2000, 3600} /\ lowered' \in 0..ShotDelay
    BY <1>5, SetServoType DEF Automatic
  <2> QED BY <1>5, <2>1, AtRestType DEF Automatic, Sleep, Loops
<1>6. CASE Aimed
  BY <1>6 DEF Aimed, plant, Loops
<1>7. CASE LoopBody
  <2>1. pins' \in Pins
    BY <1>7, LoopPinsType DEF LoopBody
  <2>2. LoopServo \in {2000, 3600}
    BY DEF LoopServo
  <2>3. servo' \in {2000, 3600} /\ lowered' \in 0..ShotDelay
    BY <1>7, <2>2, SetServoType DEF LoopBody
  <2> QED BY <1>7, <2>1, <2>3 DEF LoopBody
<1>8. CASE LoopExit
  <2>1. NextPhase \in 0..3
    BY <1>8 DEF LoopExit, NextPhase, Loops
  <2>2. touched' \in BOOLEAN
    BY <1>8 DEF LoopExit
  <2> QED BY <1>8, <2>1, <2>2 DEF LoopExit, Sleep, plant
<1>9. CASE Tick
  BY <1>9 DEF Tick
<1>10. CASE UNCHANGED vars
  BY <1>10 DEF vars
<1> QED BY <1>1, <1>2, <1>3, <1>4, <1>5, <1>6, <1>7, <1>8, <1>9, <1>10
        DEF Next, Task

LEMMA PhaseStep == TypeOK /\ PhaseInv /\ [Next]_vars => PhaseInv'
<1> SUFFICES ASSUME TypeOK, PhaseInv, [Next]_vars
             PROVE  PhaseInv'
  OBVIOUS
<1> USE Delays DEF TypeOK, PhaseInv
<1>1. CASE RcIsr
  BY <1>1 DEF RcIsr
<1>2. CASE Tim2Isr
  BY <1>2 DEF Tim2Isr
<1>3. CASE Wake
  BY <1>3 DEF Wake
<1>4. CASE Manual
  BY <1>4 DEF Manual, Sleep
<1>5. CASE Automatic
  BY <1>5 DEF Automatic, Sleep
<1>6. CASE Aimed
  BY <1>6 DEF Aimed
<1>7. CASE LoopBody
  BY <1>7 DEF LoopBody
<1>8. CASE LoopExit
  BY <1>8 DEF LoopExit, Sleep
<1>9. CASE Tick
  BY <1>9 DEF Tick
<1>10. CASE UNCHANGED vars
  BY <1>10 DEF vars
<1> QED BY <1>1, <1>2, <1>3, <1>4, <1>5, <1>6, <1>7, <1>8, <1>9, <1>10
        DEF Next, Task

LEMMA ServoStep == TypeOK /\ PhaseInv /\ ServoInv /\ [Next]_vars => ServoInv'
<1> SUFFICES ASSUME TypeOK, PhaseInv, ServoInv, [Next]_vars
             PROVE  ServoInv'
  OBVIOUS
<1> USE Delays DEF TypeOK, PhaseInv, ServoInv, ShootsLowered
<1>1. CASE RcIsr
  BY <1>1 DEF RcIsr, plant
<1>2. CASE Tim2Isr
  BY <1>2 DEF Tim2Isr, plant
<1>3. CASE Wake
  BY <1>3 DEF Wake
<1>4. CASE Manual
  BY <1>4 DEF Manual, Sleep
<1>5. CASE Automatic
  BY <1>5 DEF Automatic, Sleep, SetServo
<1>6. CASE Aimed
  BY <1>6 DEF Aimed, plant
<1>7. CASE LoopBody
  BY <1>7 DEF LoopBody, LoopServo, SetServo
<1>8. CASE LoopExit
  BY <1>8 DEF LoopExit, Sleep
<1>9. CASE Tick
  BY <1>9 DEF Tick, Waiting
<1>10. CASE UNCHANGED vars
  BY <1>10 DEF vars
<1> QED BY <1>1, <1>2, <1>3, <1>4, <1>5, <1>6, <1>7, <1>8, <1>9, <1>10
        DEF Next, Task

LEMMA HeedStep == TypeOK /\ PhaseInv /\ HeedInv /\ [Next]_vars => HeedInv'
<1> SUFFICES ASSUME TypeOK, PhaseInv, HeedInv, [Next]_vars
             PROVE  HeedInv'
  OBVIOUS
<1> USE Delays DEF TypeOK, PhaseInv, HeedInv, Loops
<1>1. CASE RcIsr
  BY <1>1 DEF RcIsr
<1>2. CASE Tim2Isr
  BY <1>2 DEF Tim2Isr
<1>3. CASE Wake
  BY <1>3 DEF Wake
<1>4. CASE Manual
  BY <1>4 DEF Manual, Sleep
<1>5. CASE Automatic
  BY <1>5 DEF Automatic, Sleep
<1>6. CASE Aimed
  BY <1>6 DEF Aimed
<1>7. CASE LoopBody
  BY <1>7 DEF LoopBody
<1>8. CASE LoopExit
  BY <1>8 DEF LoopExit, Sleep
<1>9. CASE Tick
  BY <1>9 DEF Tick, Waiting
<1>10. CASE UNCHANGED vars
  BY <1>10 DEF vars
<1> QED BY <1>1, <1>2, <1>3, <1>4, <1>5, <1>6, <1>7, <1>8, <1>9, <1>10
        DEF Next, Task

LEMMA ShotStep == TypeOK /\ PhaseInv /\ ShotInv /\ [Next]_vars => ShotInv'
<1> SUFFICES ASSUME TypeOK, PhaseInv, ShotInv, [Next]_vars
             PROVE  ShotInv'
  OBVIOUS
<1> USE Delays DEF TypeOK, PhaseInv, ShotInv, Loops
<1>1. CASE RcIsr
  BY <1>1 DEF RcIsr, plant
<1>2. CASE Tim2Isr
  BY <1>2 DEF Tim2Isr, plant
<1>3. CASE Wake
  BY <1>3 DEF Wake
<1>4. CASE Manual
  BY <1>4 DEF Manual, Sleep
<1>5. CASE Automatic
  BY <1>5 DEF Automatic, Sleep
<1>6. CASE Aimed
  BY <1>6 DEF Aimed
<1>7. CASE LoopBody
  BY <1>7 DEF LoopBody, LoopPins, Pins
<1>8. CASE LoopExit
  BY <1>8 DEF LoopExit, Sleep, NextPhase
<1>9. CASE Tick
  BY <1>9 DEF Tick, Waiting, LoopPins, Pins
<1>10. CASE UNCHANGED vars
  BY <1>10 DEF vars
<1> QED BY <1>1, <1>2, <1>3, <1>4, <1>5, <1>6, <1>7, <1>8, <1>9, <1>10
        DEF Next, Task

(* The inductive invariant holds in every behaviour.                       *)
THEOREM Invariant == Safety => []IInv
<1>1. IInv /\ [Next]_vars => IInv'
  BY TypeStep, PhaseStep, ServoStep, HeedStep, ShotStep DEF IInv
<1> QED BY <1>1, InitIInv, PTL DEF Safety

------------------------------------------------------------------------------
(* Every variable keeps its type.                                          *)
THEOREM TypeCorrect == Spec => []TypeOK
<1>1. IInv => TypeOK
  BY DEF IInv
<1> QED BY <1>1, Invariant, PTL DEF Spec

(* The ring is shot only with the servo down for the whole delay.          *)
THEOREM ShotIsLowered == Spec => []ShootsLowered
<1>1. IInv => ShootsLowered
  BY DEF IInv, ServoInv
<1> QED BY <1>1, Invariant, PTL DEF Spec

(* Manual control runs within a period of TIM2 and a delay of the loop.    *)
THEOREM SwitchIsHeeded == Spec => []ManualHeeded
<1>1. IInv => ManualHeeded
  BY Delays DEF IInv, TypeOK, PhaseInv, HeedInv, ManualHeeded, Loops
<1> QED BY <1>1, Invariant, PTL DEF Spec

(* A shoot phase that no manual control preceded opens the valve.          *)
THEOREM UntouchedPassShoots == Spec => UntouchedShoots
<1> DEFINE Shoots == pc = "shoot" /\ pc' = "sleep" /\ ~touched => pins["PC0"] = "SET"
<1>1. ASSUME IInv, [Next]_vars
      PROVE  Shoots
  <2> SUFFICES ASSUME pc = "shoot", pc' = "sleep", ~touched
               PROVE  pins["PC0"] = "SET"
    OBVIOUS
  <2>1. shot_flag = 0
    BY <1>1 DEF Next, Task, RcIsr, Tim2Isr, Wake, Manual, Automatic, Aimed, LoopBody,
                LoopExit, Tick, vars
  <2>2. state = 2
    BY <1>1 DEF IInv, PhaseInv
  <2> QED BY <1>1, <2>1, <2>2 DEF IInv, ShotInv
<1>2. IInv /\ [Next]_vars => [Shoots]_vars
  BY <1>1
<1> QED BY <1>2, Invariant, PTL DEF Spec, Safety, UntouchedShoots
==============================================================================
