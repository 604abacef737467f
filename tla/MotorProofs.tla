----------------------------- MODULE MotorProofs -----------------------------
(***************************************************************************)
(* Proofs about MotorFeedback for every resolution R, every length of the  *)
(* calibration, every bound, and every motion of less than half a turn     *)
(* between two frames.                                                     *)
(***************************************************************************)
EXTENDS MotorFeedback, TLAPS

(* What makes the count of turns inductive: until the calibration is over  *)
(* nothing is counted, and from the first frame on the record holds the    *)
(* rotor's last report and the turns since the zero point.                 *)
CountInv ==
  /\ msg_cnt <= Calibration => round_cnt = 0
  /\ msg_cnt > 0 => angle = at /\ round_cnt = turn - turn0

IInv == TypeOK /\ CountInv

------------------------------------------------------------------------------
(* Lemmas about the arithmetic.                                            *)

LEMMA HalfTurn == R \in Nat /\ R > 0 /\ Half \in Nat /\ R = Half + Half
BY MotorAssumption DEF Half

LEMMA RotateType ==
  ASSUME at \in Angle, turn \in Int, NEW d \in -MaxStep..MaxStep, Rotate(d)
  PROVE  at' \in Angle /\ turn' \in Int
BY MotorAssumption DEF Rotate, Angle

LEMMA ShortestType ==
  ASSUME NEW a \in Angle, NEW l \in Angle
  PROVE  Shortest(a, l) \in Int
BY MotorAssumption DEF Shortest, Angle

(* A jump of more than half a turn is a crossing, and tells its direction. *)
LEMMA CrossingSeen ==
  ASSUME at \in Angle, turn \in Int, round_cnt \in Int, angle = at,
         NEW d \in -MaxStep..MaxStep, Rotate(d)
  PROVE  TurnsCounted = round_cnt + (turn' - turn)
<1>1. R \in Nat /\ MaxStep \in Nat /\ d \in Int /\ -MaxStep <= d /\ d <= MaxStep
  BY MotorAssumption
<1>2. MaxStep < Half /\ Half \in Nat /\ R = Half + Half
  BY MotorAssumption, HalfTurn
<1>3. CASE at + d \in Angle /\ at' = at + d /\ turn' = turn
  BY <1>1, <1>2, <1>3 DEF TurnsCounted, Angle
<1>4. CASE at + d >= R /\ at' = at + d - R /\ turn' = turn + 1
  BY <1>1, <1>2, <1>4 DEF TurnsCounted, Angle
<1>5. CASE at + d < 0 /\ at' = at + d + R /\ turn' = turn - 1
  BY <1>1, <1>2, <1>5 DEF TurnsCounted, Angle
<1> QED BY <1>3, <1>4, <1>5 DEF Rotate

------------------------------------------------------------------------------
(* The inductive step, one lemma per action that writes the record and one *)
(* for those that do not.                                                  *)

LEMMA InitIInv == Init => IInv
<1> SUFFICES ASSUME Init
             PROVE  IInv
  OBVIOUS
<1>1. 0 \in Angle
  BY MotorAssumption DEF Angle
<1>2. quiet \in BOOLEAN
  BY DEF Init
<1>3. TypeOK
  BY <1>1, <1>2 DEF Init, TypeOK
<1>4. CountInv
  BY MotorAssumption DEF Init, CountInv
<1> QED BY <1>3, <1>4 DEF IInv

LEMMA CalibrateIInv ==
  ASSUME IInv, NEW d \in -MaxStep..MaxStep, Calibrate(d)
  PROVE  IInv'
<1>1. at' \in Angle /\ turn' \in Int
  BY RotateType DEF IInv, TypeOK, Calibrate
<1>2. quiet' \in BOOLEAN
  BY DEF Calibrate
<1>3. /\ angle' = at' /\ offset_angle' = at' /\ turn0' = turn'
      /\ msg_cnt <= Calibration /\ msg_cnt' = msg_cnt + 1
      /\ UNCHANGED <<last_angle, round_cnt, total_angle, pc, p_angle, p_last, p_total>>
  BY Zenon DEF Calibrate, GetMotorOffset, caller
<1>4. TypeOK'
  BY <1>1, <1>2, <1>3 DEF IInv, TypeOK
<1>5. round_cnt = 0
  BY <1>3 DEF IInv, CountInv
<1>6. round_cnt' = 0 /\ turn' - turn0' = 0 /\ angle' = at'
  <2>1. turn' \in Int /\ turn0' = turn'
    BY <1>1, <1>3
  <2>3. turn' - turn0' = 0
    <3>1. \A x, y \in Int : x = y => x - y = 0
      OBVIOUS
    <3> QED BY <2>1, <3>1
  <2>2. round_cnt' = round_cnt
    BY <1>3
  <2> QED BY <2>2, <2>3, <1>3, <1>5
<1>7. CountInv'
  BY <1>6 DEF CountInv
<1> QED BY <1>4, <1>7 DEF IInv

LEMMA MeasureIInv ==
  ASSUME IInv, NEW d \in -MaxStep..MaxStep, Measure(d)
  PROVE  IInv'
<1>1. at' \in Angle /\ turn' \in Int
  BY RotateType DEF IInv, TypeOK, Measure
<1>2. quiet' \in BOOLEAN
  BY DEF Measure
<1>3. /\ msg_cnt > Calibration /\ last_angle' = angle /\ angle' = at'
      /\ round_cnt' = TurnsCounted
      /\ total_angle' = round_cnt' * R + angle' - offset_angle
      /\ UNCHANGED <<offset_angle, msg_cnt, turn0, pc, p_angle, p_last, p_total>>
  BY Zenon DEF Measure, caller
<1>4. angle = at /\ round_cnt = turn - turn0 /\ msg_cnt > 0
  BY <1>3, MotorAssumption DEF IInv, TypeOK, CountInv
<1>5. round_cnt' = round_cnt + (turn' - turn)
  BY <1>3, <1>4, CrossingSeen DEF IInv, TypeOK, Measure
<1>6. round_cnt' \in Int /\ round_cnt' = turn' - turn0
  BY <1>1, <1>4, <1>5 DEF IInv, TypeOK
<1>7. total_angle' \in Int
  <2>1. /\ angle' \in Int /\ offset_angle \in Int /\ R \in Int
        /\ round_cnt' \in Int
    BY <1>1, <1>3, <1>6, MotorAssumption DEF IInv, TypeOK, Angle
  <2>2. round_cnt' * R \in Int
    BY <2>1
  <2> QED BY <1>3, <2>1, <2>2
<1>8. TypeOK'
  BY <1>1, <1>2, <1>3, <1>6, <1>7 DEF IInv, TypeOK
<1>9. CountInv'
  BY <1>3, <1>6, MotorAssumption DEF IInv, TypeOK, CountInv
<1> QED BY <1>8, <1>9 DEF IInv

LEMMA CallerIInv ==
  ASSUME IInv, GetTotalAngle
  PROVE  IInv'
<1>1. CASE Call
  BY <1>1 DEF IInv, TypeOK, CountInv, Call, record
<1>2. CASE ReadAngle
  BY <1>2 DEF IInv, TypeOK, CountInv, ReadAngle, record
<1>3. CASE ReadLast
  BY <1>3 DEF IInv, TypeOK, CountInv, ReadLast, record
<1>4. CASE ReadTotal
  BY <1>4 DEF IInv, TypeOK, CountInv, ReadTotal, record
<1>5. CASE AddDelta
  <2>1. total_angle' \in Int
    BY <1>5, ShortestType DEF IInv, TypeOK, AddDelta
  <2>2. 0 \in Angle
    BY MotorAssumption DEF Angle
  <2> QED BY <1>5, <2>1, <2>2 DEF IInv, TypeOK, CountInv, AddDelta
<1>6. CASE StoreLast
  BY <1>6 DEF IInv, TypeOK, CountInv, StoreLast
<1>7. CASE Return
  <2>1. 0 \in Angle
    BY MotorAssumption DEF Angle
  <2> QED BY <1>7, <2>1 DEF IInv, TypeOK, CountInv, Return, record
<1> QED BY <1>1, <1>2, <1>3, <1>4, <1>5, <1>6, <1>7 DEF GetTotalAngle

LEMMA StepIInv == IInv /\ [Next]_vars => IInv'
<1> SUFFICES ASSUME IInv, [Next]_vars
             PROVE  IInv'
  OBVIOUS
<1>1. CASE Isr
  BY <1>1, CalibrateIInv, MeasureIInv DEF Isr
<1>2. CASE GetTotalAngle
  BY <1>2, CallerIInv
<1>3. CASE UNCHANGED vars
  BY <1>3 DEF IInv, TypeOK, CountInv, vars, record, caller
<1> QED BY <1>1, <1>2, <1>3 DEF Next

(* The inductive invariant holds in every behaviour.                       *)
THEOREM Invariant == Spec => []IInv
<1> QED BY InitIInv, StepIInv, PTL DEF Spec

------------------------------------------------------------------------------
(* The record and the caller keep their types whatever the interleaving:   *)
(* in particular the angles that get_total_angle stores are angles.        *)
THEOREM TypeCorrect == Spec => []TypeOK
<1>1. IInv => TypeOK
  BY DEF IInv
<1> QED BY <1>1, Invariant, PTL

(* Counting jumps of more than half a turn counts the rotor's turns.       *)
THEOREM CountCorrect == Spec => []TurnsTracked
<1>1. IInv => TurnsTracked
  BY MotorAssumption DEF IInv, TypeOK, CountInv, TurnsTracked, Travel, Measured
<1> QED BY <1>1, Invariant, PTL

(* After a frame total_angle is the rotor's exact way from the zero point. *)
THEOREM FrameCorrect == Spec => FrameRestoresAngle
<1> DEFINE Restores == msg_cnt' = msg_cnt /\ <<turn', at'>> # <<turn, at>>
                         => total_angle' = Travel(turn', at')
<1>1. ASSUME IInv, IInv', Next
      PROVE  Restores
  <2>1. ASSUME NEW d \in -MaxStep..MaxStep, Calibrate(d)
        PROVE  Restores
    BY <1>1, <2>1 DEF IInv, TypeOK, Calibrate
  <2>2. ASSUME NEW d \in -MaxStep..MaxStep, Measure(d)
        PROVE  Restores
    <3>1. msg_cnt' > 0 /\ turn0' = turn0
      BY <1>1, <2>2, MotorAssumption DEF IInv, TypeOK, Measure
    <3>2. angle' = at' /\ round_cnt' = turn' - turn0
      BY <1>1, <3>1 DEF IInv, CountInv
    <3>3. total_angle' = (turn' - turn0) * R + at' - offset_angle
      BY <2>2, <3>2 DEF Measure
    <3>4. (turn' - turn0) * R \in Int /\ at' \in Int /\ offset_angle \in Int
      BY <1>1, MotorAssumption DEF IInv, TypeOK, Angle
    <3> QED BY <3>3, <3>4 DEF Travel
  <2>3. ASSUME GetTotalAngle
        PROVE  UNCHANGED <<turn, at>>
    BY <2>3 DEF GetTotalAngle, Call, ReadAngle, ReadLast, ReadTotal, AddDelta,
                StoreLast, Return
  <2> QED BY <1>1, <2>1, <2>2, <2>3 DEF Next, Isr
<1>2. IInv /\ IInv' /\ [Next]_vars => [Restores]_vars
  BY <1>1
<1> QED BY <1>2, Invariant, PTL DEF Spec, FrameRestoresAngle
==============================================================================
