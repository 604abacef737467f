---------------------------- MODULE MotorFeedback ----------------------------
(***************************************************************************)
(* The position of one motor, as Hardware/bsp_can.c keeps it.  The motor   *)
(* reports its rotor's angle within a turn in every CAN frame; the receive *)
(* interrupt takes the first frames as the zero point and then counts      *)
(* turns by the jumps of the angle.  get_total_angle, which the gimbal     *)
(* task calls (yutai_task.c:75, 79), updates the same record from the same *)
(* two angles, and the interrupt may come between any two of its accesses. *)
(* Lines 217-225 name each angle several times; they are taken to use one  *)
(* reading of it.                                                          *)
(***************************************************************************)
EXTENDS Integers

CONSTANTS R,           (* counts of a turn, 8192                           *)
          Calibration, (* the last msg_cnt that calibrates, 50             *)
          MaxStep,     (* most counts the rotor moves between two frames   *)
                       (* that are received                                *)
          MaxTurn,     (* bound: turns from where the rotor is at power-on *)
          MaxTotal     (* bound: what get_total_angle may add up to, for   *)
                       (* errors of calls raced by the interrupt pile up   *)

(* Less than half a turn between two frames: at the 1 kHz the motors       *)
(* report with, 30000 rpm.                                                 *)
ASSUME MotorAssumption ==
  /\ R \in Nat \ {0} /\ R % 2 = 0
  /\ Calibration \in Nat
  /\ MaxStep \in Nat \ {0} /\ 2 * MaxStep < R
  /\ MaxTurn \in Nat /\ MaxTotal \in Nat

VARIABLES turn, at,                        (* the rotor: whole turns and   *)
                                           (* angle when it last reported  *)
          angle, last_angle, offset_angle, (* motor_measure_t              *)
          round_cnt, total_angle, msg_cnt,
          turn0,                           (* history: turn at the zero    *)
                                           (* point                        *)
          pc, p_angle, p_last, p_total,    (* get_total_angle: where it    *)
                                           (* is, and what it has read     *)
          quiet                            (* history: no frame since the  *)
                                           (* call                         *)

record == <<angle, last_angle, offset_angle, round_cnt, total_angle, msg_cnt>>
caller == <<pc, p_angle, p_last, p_total>>
vars == <<turn, at, record, turn0, caller, quiet>>

Half == R \div 2
Angle == 0..R-1

(* What the record is about: the rotor's way from the zero point.          *)
Travel(t, a) == (t - turn0) * R + (a - offset_angle)
Measured == msg_cnt > Calibration

(* The rotor starts anywhere in a turn; the record is zeroed storage.      *)
Init ==
  /\ turn = 0 /\ at \in Angle
  /\ angle = 0 /\ last_angle = 0 /\ offset_angle = 0
  /\ round_cnt = 0 /\ total_angle = 0 /\ msg_cnt = 0
  /\ turn0 = 0
  /\ pc = "idle" /\ p_angle = 0 /\ p_last = 0 /\ p_total = 0
  /\ quiet = FALSE

------------------------------------------------------------------------------
(* The rotor has moved by d when its next report is received.              *)
Rotate(d) ==
  \/ at + d \in Angle /\ at' = at + d     /\ turn' = turn
  \/ at + d >= R      /\ at' = at + d - R /\ turn' = turn + 1
  \/ at + d < 0       /\ at' = at + d + R /\ turn' = turn - 1

(* Taking the zero point again; turn0 notes where the rotor is.            *)
GetMotorOffset ==
  /\ angle' = at'
  /\ offset_angle' = at'
  /\ turn0' = turn'

(* The interrupt while it calibrates.                                      *)
Calibrate(d) ==
  /\ msg_cnt <= Calibration
  /\ Rotate(d)
  /\ msg_cnt' = msg_cnt + 1
  /\ GetMotorOffset
  /\ quiet' = FALSE
  /\ UNCHANGED <<last_angle, round_cnt, total_angle, caller>>

(* Mutants: only forward turns are counted; the signs are exchanged.       *)
TurnsForwardOnly == IF at' - angle < -Half THEN round_cnt + 1 ELSE round_cnt
TurnsSwapped == IF at' - angle > Half THEN round_cnt + 1
                ELSE IF at' - angle < -Half THEN round_cnt - 1
                ELSE round_cnt

(* The interrupt afterwards: get_motor_measure.                            *)
TurnsCounted == IF at' - angle > Half THEN round_cnt - 1
                ELSE IF at' - angle < -Half THEN round_cnt + 1
                ELSE round_cnt

Measure(d) ==
  /\ msg_cnt > Calibration
  /\ Rotate(d)
  /\ turn' \in -MaxTurn..MaxTurn
  /\ last_angle' = angle
  /\ angle' = at'
  /\ round_cnt' = TurnsCounted
  /\ total_angle' = round_cnt' * R + angle' - offset_angle
  /\ quiet' = FALSE
  /\ UNCHANGED <<offset_angle, msg_cnt, turn0, caller>>

------------------------------------------------------------------------------
(* get_total_angle: one action per reading that the interrupt may come     *)
(* before.  The shorter way round is taken to be the one the rotor went.   *)
Shortest(a, l) ==
  LET other == IF a < l THEN a + R - l ELSE a - R - l
      Size(x) == IF x > 0 THEN x ELSE -x
  IN  IF Size(other) < Size(a - l) THEN other ELSE a - l

Call ==
  /\ pc = "idle"
  /\ pc' = "angle"
  /\ quiet' = TRUE
  /\ UNCHANGED <<turn, at, record, turn0, p_angle, p_last, p_total>>

ReadAngle ==
  /\ pc = "angle"
  /\ p_angle' = angle
  /\ pc' = "last"
  /\ UNCHANGED <<turn, at, record, turn0, p_last, p_total, quiet>>

ReadLast ==
  /\ pc = "last"
  /\ p_last' = last_angle
  /\ pc' = "total"
  /\ UNCHANGED <<turn, at, record, turn0, p_angle, p_total, quiet>>

ReadTotal ==
  /\ pc = "total"
  /\ p_total' = total_angle
  /\ pc' = "add"
  /\ UNCHANGED <<turn, at, record, turn0, p_angle, p_last, quiet>>

AddDelta ==
  /\ pc = "add"
  /\ total_angle' = p_total + Shortest(p_angle, p_last)
  /\ total_angle' \in -MaxTotal..MaxTotal
  /\ pc' = "store"
  /\ p_last' = 0 /\ p_total' = 0    \* not read again
  /\ UNCHANGED <<turn, at, angle, last_angle, offset_angle, round_cnt, msg_cnt,
                 turn0, p_angle, quiet>>

(* Mutant: the total goes where the angle belongs.                         *)
StoreLastTotal ==
  /\ pc = "store"
  /\ last_angle' = total_angle
  /\ pc' = "return"
  /\ UNCHANGED <<turn, at, angle, offset_angle, round_cnt, total_angle, msg_cnt,
                 turn0, p_angle, p_last, p_total, quiet>>

(* Line 241 names the angle once more: it is still in a register, or read  *)
(* again, as the compiler likes.                                           *)
StoreLast ==
  /\ pc = "store"
  /\ last_angle' \in {p_angle, angle}
  /\ pc' = "return"
  /\ UNCHANGED <<turn, at, angle, offset_angle, round_cnt, total_angle, msg_cnt,
                 turn0, p_angle, p_last, p_total, quiet>>

Return ==
  /\ pc = "return"
  /\ pc' = "idle"
  /\ p_angle' = 0
  /\ UNCHANGED <<turn, at, record, turn0, p_last, p_total, quiet>>

------------------------------------------------------------------------------
Isr == \E d \in -MaxStep..MaxStep : Calibrate(d) \/ Measure(d)
GetTotalAngle == \/ Call \/ ReadAngle \/ ReadLast \/ ReadTotal
                 \/ AddDelta \/ StoreLast \/ Return
Next == Isr \/ GetTotalAngle
Spec == Init /\ [][Next]_vars

------------------------------------------------------------------------------
TypeOK ==
  /\ turn \in Int /\ at \in Angle /\ turn0 \in Int
  /\ angle \in Angle /\ last_angle \in Angle /\ offset_angle \in Angle
  /\ round_cnt \in Int /\ total_angle \in Int /\ msg_cnt \in Nat
  /\ pc \in {"idle", "angle", "last", "total", "add", "store", "return"}
  /\ p_angle \in Angle /\ p_last \in Angle /\ p_total \in Int
  /\ quiet \in BOOLEAN

(* Counting the jumps of more than half a turn counts the turns, whichever *)
(* way the rotor went and however often it crossed the zero point, and     *)
(* nothing get_total_angle writes can disturb the count.                   *)
TurnsTracked ==
  Measured => round_cnt * R + angle - offset_angle = Travel(turn, at)

(* Every frame after the calibration leaves the rotor's exact way in       *)
(* total_angle, so what get_total_angle put there lasts until the next.    *)
FrameRestoresAngle ==
  [][msg_cnt' = msg_cnt /\ <<turn', at'>> # <<turn, at>>
       => total_angle' = Travel(turn', at')]_vars

(* bsp_can.c:212: "the angle is 0 at power-on; after that use this         *)
(* function to update the motor's angle relative to power-on".  A call     *)
(* that no frame interrupts, after the calibration, returns the rotor's    *)
(* way from the zero point.                                                *)
ReturnsAngle ==
  (Measured /\ pc = "return" /\ quiet) => total_angle = Travel(turn, at)
==============================================================================
