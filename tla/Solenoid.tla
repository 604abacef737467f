------------------------------ MODULE Solenoid ------------------------------
(***************************************************************************)
(* The solenoid task (Task/solenoid_task.c) and the timer interrupt it     *)
(* waits for (HAL_TIM_PeriodElapsedCallback, Core/Src/main.c).             *)
(*                                                                         *)
(* With the switch on manual the task copies the transmitter's switches to *)
(* the valves.  Otherwise it runs a cycle of three phases, lift, shoot and *)
(* rest; each raises shot_flag and spins until TIM2, which free-runs,      *)
(* lowers it.  Time is discrete; a unit is the loop's delay of 100 ms, so  *)
(* that TIM2 has a period of 20 units (tim.c:46-48, 90 MHz) and the delay  *)
(* of the shoot phase is 5.  Steps of the task take no time.               *)
(***************************************************************************)
EXTENDS Naturals

CONSTANTS Period,      (* units between two TIM2 updates                   *)
          LoopDelay,   (* osDelay(100) of the loop, solenoid_task.c:123    *)
          ShotDelay    (* osDelay(500) of the shoot phase, line 207        *)

ASSUME SolenoidAssumption ==
  /\ Period \in Nat /\ LoopDelay \in Nat \ {0} /\ ShotDelay \in Nat \ {0}
  /\ LoopDelay + ShotDelay < Period

VARIABLES manual,      (* rc.ch11 = 1                                      *)
          pc,          (* where the task is                                *)
          left,        (* units left of the osDelay it is in               *)
          state,       (* the phase of the automatic cycle                 *)
          shot_flag,
          tim2,        (* units to the next update of TIM2                 *)
          pins,        (* PC0 shoots, PC4 holds, PC5 pushes                *)
          servo,       (* TIM8->CCR3: 3600 raised, 2000 lowered            *)
          touched,     (* history: manual control ran since the lift phase *)
          lowered,     (* history: units since the servo was lowered       *)
          unheeded     (* history: units the switch has been on manual     *)
                       (* without manual control running                   *)

plant == <<pins, servo, lowered>>
vars == <<manual, pc, left, state, shot_flag, tim2, pins, servo,
          touched, lowered, unheeded>>

Level == {"RESET", "SET"}
Pins == [{"PC0", "PC4", "PC5"} -> Level]
AtRest == [PC0 |-> "RESET", PC4 |-> "RESET", PC5 |-> "SET"]

(* The servo is written, and was lowered for as long as it stays lowered.  *)
SetServo(v) == /\ servo' = v
               /\ lowered' = IF v = 2000 /\ servo = 2000 THEN lowered ELSE 0

(* TIM2 runs since before the scheduler: its phase is anything.            *)
Init ==
  /\ manual = FALSE
  /\ pc = "sleep" /\ left = LoopDelay
  /\ state = 0 /\ shot_flag = 0
  /\ tim2 \in 1..Period
  /\ pins = [p \in DOMAIN AtRest |-> "RESET"]
  /\ servo = 2000 /\ lowered = 0
  /\ touched = FALSE /\ unheeded = 0

------------------------------------------------------------------------------
(* The receiver's interrupt: the switch moves.                             *)
RcIsr ==
  /\ manual' = ~manual
  /\ unheeded' = 0
  /\ UNCHANGED <<pc, left, state, shot_flag, tim2, plant, touched>>

(* Mutants: the counter reloads with one too many, or with the wrong time. *)
Tim2IsrLong ==
  /\ tim2 = 0 /\ tim2' = Period + 1 /\ shot_flag' = 0
  /\ UNCHANGED <<manual, pc, left, state, plant, touched, unheeded>>
Tim2IsrShort ==
  /\ tim2 = 0 /\ tim2' = ShotDelay /\ shot_flag' = 0
  /\ UNCHANGED <<manual, pc, left, state, plant, touched, unheeded>>

(* TIM2's update interrupt: both branches clear the flag.                  *)
Tim2Isr ==
  /\ tim2 = 0
  /\ tim2' = Period
  /\ shot_flag' = 0
  /\ UNCHANGED <<manual, pc, left, state, plant, touched, unheeded>>

------------------------------------------------------------------------------
Sleep == pc' = "sleep" /\ left' = LoopDelay

(* Mutant: the switch is heeded only between automatic cycles.             *)
WakeLate ==
  /\ pc = "sleep" /\ left = 0
  /\ pc' = IF manual /\ state = 0 THEN "manual" ELSE "auto"
  /\ UNCHANGED <<manual, left, state, shot_flag, tim2, plant, touched, unheeded>>

(* The delay is over: which half of the loop's body runs.                  *)
Wake ==
  /\ pc = "sleep" /\ left = 0
  /\ pc' = IF manual THEN "manual" ELSE "auto"
  /\ UNCHANGED <<manual, left, state, shot_flag, tim2, plant, touched, unheeded>>

(* Manual control.  The four switches are read one by one, perhaps from    *)
(* different frames, so any combination is possible.  What line 154 gives  *)
(* the servo is overwritten at once by line 164 or 167.                    *)
Manual ==
  /\ pc = "manual"
  /\ pins' \in Pins
  /\ \E v \in {2000, 3600} : SetServo(v)
  /\ Sleep
  /\ touched' = TRUE
  /\ unheeded' = 0
  /\ UNCHANGED <<manual, state, shot_flag, tim2>>

(* Automatic control: the valves at rest, and then the phase's start.      *)
Automatic ==
  /\ pc = "auto"
  /\ pins' = AtRest
  /\ \/ /\ state = 0
        /\ state' = 1
        /\ Sleep
        /\ UNCHANGED <<shot_flag, servo, lowered>>
     \/ /\ state = 1
        /\ shot_flag' = 1
        /\ pc' = "lift"
        /\ UNCHANGED <<left, state, servo, lowered>>
     \/ /\ state = 2
        /\ shot_flag' = 1
        /\ SetServo(2000)
        /\ pc' = "aim" /\ left' = ShotDelay
        /\ UNCHANGED state
     \/ /\ state = 3
        /\ shot_flag' = 1
        /\ pc' = "rest"
        /\ UNCHANGED <<left, state, servo, lowered>>
  /\ UNCHANGED <<manual, tim2, touched, unheeded>>

(* Mutant: the delay is gone.                                              *)
AimedAtOnce ==
  /\ pc = "aim"
  /\ pc' = "shoot"
  /\ UNCHANGED <<manual, left, state, shot_flag, tim2, plant, touched, unheeded>>

(* The osDelay(500) of the shoot phase is over.                            *)
Aimed ==
  /\ pc = "aim" /\ left = 0
  /\ pc' = "shoot"
  /\ UNCHANGED <<manual, left, state, shot_flag, tim2, plant, touched, unheeded>>

(* while (shot_flag) { ... }: what the body of each loop writes.           *)
Loops == {"lift", "shoot", "rest"}
LoopPins == CASE pc = "lift"  -> [pins EXCEPT !.PC5 = "RESET"]
              [] pc = "shoot" -> [pins EXCEPT !.PC0 = "SET"]
              [] pc = "rest"  -> AtRest
LoopServo == IF pc = "lift" THEN 3600 ELSE servo

LoopBody ==
  /\ pc \in Loops
  /\ shot_flag = 1
  /\ pins' = LoopPins
  /\ SetServo(LoopServo)
  /\ UNCHANGED <<manual, pc, left, state, shot_flag, tim2, touched, unheeded>>

(* Mutant: the rest phase does not go back to the first.                   *)
NextPhaseStuck == IF pc = "lift" THEN 2 ELSE 3

NextPhase == CASE pc = "lift" -> 2 [] pc = "shoot" -> 3 [] pc = "rest" -> 0

LoopExit ==
  /\ pc \in Loops
  /\ shot_flag = 0
  /\ state' = NextPhase
  /\ touched' = (touched /\ pc # "lift")
  /\ Sleep
  /\ UNCHANGED <<manual, shot_flag, tim2, plant, unheeded>>

------------------------------------------------------------------------------
(* Time passes while the task is delayed, or spins with nothing new to     *)
(* write, and no update is due.                                            *)
Waiting == \/ pc \in {"sleep", "aim"} /\ left > 0
           \/ pc \in Loops /\ shot_flag = 1 /\ pins = LoopPins /\ servo = LoopServo

Tick ==
  /\ Waiting /\ tim2 > 0
  /\ tim2' = tim2 - 1
  /\ left' = IF left > 0 THEN left - 1 ELSE 0
  /\ lowered' = IF servo = 2000 /\ lowered < ShotDelay THEN lowered + 1 ELSE lowered
  /\ unheeded' = IF manual THEN unheeded + 1 ELSE 0
  /\ UNCHANGED <<manual, pc, state, shot_flag, pins, servo, touched>>

Task == Wake \/ Manual \/ Automatic \/ Aimed \/ LoopBody \/ LoopExit
Next == RcIsr \/ Tim2Isr \/ Task \/ Tick

(* Time passes, TIM2 interrupts, and the scheduler shares the processor    *)
(* among the tasks of this priority, a spinning one included.              *)
Safety == Init /\ [][Next]_vars
Spec == Safety /\ WF_vars(Tick) /\ WF_vars(Tim2Isr) /\ WF_vars(Task)

------------------------------------------------------------------------------
TypeOK ==
  /\ manual \in BOOLEAN
  /\ pc \in {"sleep", "manual", "auto", "aim"} \cup Loops
  /\ left \in Nat /\ state \in 0..3 /\ shot_flag \in {0, 1}
  /\ tim2 \in 0..Period
  /\ pins \in Pins /\ servo \in {2000, 3600}
  /\ touched \in BOOLEAN /\ lowered \in 0..ShotDelay /\ unheeded \in Nat

(* In the automatic cycle the ring is shot only with the servo lowered, as *)
(* it has been for the whole delay of line 207, whatever manual control    *)
(* did to it between the phases.                                           *)
ShootsLowered ==
  pc = "shoot" => servo = 2000 /\ lowered = ShotDelay

(* A shoot phase that ends without having opened the shooting valve, since *)
(* TIM2 cleared the flag before the loop of line 208 tested it, happens    *)
(* only when manual control ran between the lift phase and this one: the   *)
(* lift phase ends on an update of TIM2, and the next is far enough.       *)
UntouchedShoots ==
  [][pc = "shoot" /\ pc' = "sleep" /\ ~touched => pins["PC0"] = "SET"]_vars

(* The switch is heeded only between phases, but within a period of TIM2   *)
(* and a delay of the loop (solenoid_task.c:123-130, 193-223).             *)
ManualHeeded == unheeded <= Period + LoopDelay

(* Left on automatic, the cycle goes on for ever: the valve opens again    *)
(* and again.                                                              *)
KeepsShooting == <>[]~manual => []<>(pins["PC0"] = "SET")

(* solenoid_task.c:210, the comment on the body of the shoot phase's loop: *)
(* "shoot the ring".  The phase does so every time it runs.                *)
EveryPassShoots ==
  [][pc = "shoot" /\ pc' = "sleep" => pins["PC0"] = "SET"]_vars
==============================================================================
