---------------------------- MODULE ChassisProofs ----------------------------
(***************************************************************************)
(* Proofs about Chassis for every set of remote-control frames and every   *)
(* number of mailboxes.                                                    *)
(***************************************************************************)
EXTENDS Chassis, WellFoundedInduction, TLAPS

(* What a cycle has learned of its frame at each of its places, as long as *)
(* no new frame has come: the reads before agree with the reads to come.   *)
Reading == {"is1", "is2", "is3", "control", "ch2", "loop3", "loop2"}

SwitchInv ==
  steady =>
    /\ pc = "spin" => rc.ch4 # 0
    /\ pc \in Reading => rc.ch4 = 0
    /\ pc = "is2" => rc.ch9 # 1
    /\ pc = "is3" => rc.ch9 \notin {1, 2}
    /\ pc \in {"control", "ch2", "loop3", "loop2"} /\ rc.ch9 # 0 => mode = ModeOf[rc.ch9]
    /\ pc = "loop2" => rc.ch9 # 3

(* The velocities belong to the mode, whether a frame has come or not, and *)
(* to the frame if none has.                                               *)
VelocityInv ==
  /\ pc = "ch2" => mode = "REMOTE_MOVE"
  /\ pc \in {"loop3", "loop2"} /\ mode = "ZERO_FORCE" => V = {}
  /\ steady /\ pc = "ch2" => (V # {} <=> rc.ch1 # 0)
  /\ steady /\ pc \in {"loop3", "loop2"} /\ rc.ch9 \in {2, 3} => (V # {} <=> AsksToMove(rc))

(* No frame has a switch at 0, and the record of power-on has no stick.    *)
HeardInv == rc.ch9 = 0 => rc.ch4 = 0

IInv == /\ TypeOK /\ SwitchInv /\ VelocityInv /\ SteadyCycleObeys
        /\ HeardInv /\ SilentUntilHeard

------------------------------------------------------------------------------
(* Every set of numbers has a least member, so FirstOf finds a mailbox.    *)
Below == { p \in Nat \X Nat : p[1] < p[2] }

LEMMA BelowWellFounded == IsWellFoundedOn(Below, Nat)
BY NatLessThanWellFounded DEF OpToRel, Below

LEMMA FirstOfMember ==
  ASSUME NEW S \in SUBSET Nat, S # {}
  PROVE  FirstOf(S) \in S
<1>1. PICK m \in S : \A n \in S : <<n, m>> \notin Below
  BY BelowWellFounded, WFMin
<1>2. \A n \in S : ~(n < m)
  BY <1>1 DEF Below
<1>3. \E k \in S : \A n \in S : k <= n
  BY <1>2
<1> QED BY <1>3 DEF FirstOf

LEMMA ChosenBox ==
  ASSUME NEW i \in Id, Chosen(i) # {}
  PROVE  FirstOf(Chosen(i)) \in Boxes /\ mailbox[FirstOf(Chosen(i))].id = i
<1>1. Chosen(i) \subseteq Pending(i) /\ Pending(i) \subseteq Boxes
  BY DEF Chosen, Pending
<1>2. Chosen(i) \in SUBSET Nat
  BY <1>1, ChassisAssumption DEF Boxes
<1>3. FirstOf(Chosen(i)) \in Pending(i)
  BY <1>1, <1>2, FirstOfMember
<1> QED BY <1>3 DEF Pending

LEMMA RcFrameType ==
  ASSUME NEW f \in RcFrame
  PROVE  f \in RcType /\ f.ch9 \in 1..3 /\ f.ch5 \in 1..3
BY ChassisAssumption DEF RcType, Stick

LEMMA RcFieldTypes ==
  ASSUME rc \in RcType
  PROVE  /\ rc.ch1 \in Stick /\ rc.ch2 \in Stick /\ rc.ch4 \in Stick
         /\ rc.ch5 \in 0..3 /\ rc.ch9 \in 0..3
BY DEF RcType

LEMMA Modes == /\ ModeOf[1] = "ZERO_FORCE" /\ ModeOf[2] = "LOCATING_MOVE"
               /\ ModeOf[3] = "REMOTE_MOVE"
               /\ ProbePc[1] = "is1" /\ ProbePc[2] = "is2"
               /\ ProbePc[3] = "is3" /\ ProbePc[4] = "control"
BY DEF ModeOf, ProbePc

LEMMA FrameTypes ==
  ASSUME load \in Load
  PROVE  DriveFrame \in Frame /\ SteerFrame \in Frame
BY DEF DriveFrame, SteerFrame, Frame, Id

------------------------------------------------------------------------------
LEMMA InitIInv == Init => IInv
<1> SUFFICES ASSUME Init
             PROVE  IInv
  OBVIOUS
<1>1. rc \in RcType /\ rc.ch9 = 0 /\ rc.ch4 = 0
  BY DEF Init, RcType, Stick
<1>2. mailbox \in [Boxes -> Frame \cup {None}] /\ \A m \in Boxes : mailbox[m] = None
  BY DEF Init
<1>3. /\ commanded \in [Id -> [load : Load \cup {"none"}, moving : BOOLEAN]]
      /\ \A i \in Id : commanded[i] = Idle
  BY DEF Init, Idle
<1>4. steady \in BOOLEAN /\ steady = FALSE
  BY DEF Init
<1>5. TypeOK
  BY <1>1, <1>2, <1>3, <1>4 DEF Init, TypeOK, Load
<1>6. SwitchInv /\ SteadyCycleObeys
  BY <1>4, Zenon DEF SwitchInv, SteadyCycleObeys
<1>7. VelocityInv
  BY DEF Init, VelocityInv
<1>8. HeardInv /\ SilentUntilHeard
  BY <1>1, <1>2, <1>3 DEF Init, HeardInv, SilentUntilHeard
<1> QED BY <1>5, <1>6, <1>7, <1>8 DEF IInv

------------------------------------------------------------------------------
LEMMA TypeStep == TypeOK /\ [Next]_vars => TypeOK'
<1> SUFFICES ASSUME TypeOK, [Next]_vars
             PROVE  TypeOK'
  OBVIOUS
<1> USE DEF TypeOK
<1>1. ASSUME NEW f \in RcFrame, RcIsr(f)
      PROVE  TypeOK'
  BY <1>1, RcFrameType DEF RcIsr, task
<1>2. CASE Boot
  BY <1>2 DEF Boot
<1>3. CASE Head
  BY <1>3 DEF Head
<1>4. CASE Spin
  BY <1>4 DEF Spin, SpunWheels, Wheel, Load
<1>5. ASSUME NEW k \in 1..3, Probe(k)
      PROVE  TypeOK'
  BY <1>5, Modes DEF Probe
<1>6. CASE Control
  BY <1>6 DEF Control, LocatingTarget
<1>7. CASE ControlCh2
  BY <1>7 DEF ControlCh2
<1>8. CASE LoopRemote
  BY <1>8 DEF LoopRemote, Kinematics, Wheel, Load
<1>9. CASE LoopLocating
  BY <1>9 DEF LoopLocating, Kinematics, Wheel, Load
<1>10. CASE Set_motor_A
  BY <1>10, FrameTypes DEF Set_motor_A, Can_TxMessage
<1>11. CASE Set_motor_B
  BY <1>11, FrameTypes DEF Set_motor_B, Can_TxMessage
<1>12. ASSUME NEW i \in Id, Deliver(i)
       PROVE  TypeOK'
  <2> DEFINE b == FirstOf(Chosen(i))
  <2>1. b \in Boxes
    BY <1>12, ChosenBox DEF Deliver, Transmit
  <2>2. mailbox[b] \in Frame \cup {None}
    BY <2>1
  <2>3. mailbox[b].load \in Load /\ mailbox[b].moving \in BOOLEAN
    <3>1. ASSUME NEW f \in Frame
          PROVE  f.load \in Load /\ f.moving \in BOOLEAN
      BY DEF Frame
    <3>2. None.load \in Load
      BY DEF None, Load
    <3>3. None.moving \in BOOLEAN
      <4>1. None.moving = FALSE
        BY DEF None
      <4> QED BY <4>1, Zenon
    <3> QED BY <2>2, <3>1, <3>2, <3>3
  <2>4. commanded' = [commanded EXCEPT ![i] =
                        [load |-> mailbox[b].load, moving |-> mailbox[b].moving]]
    BY <1>12 DEF Deliver
  <2> HIDE DEF b
  <2>5. commanded' \in [Id -> [load : Load \cup {"none"}, moving : BOOLEAN]]
    BY <2>3, <2>4
  <2>6. mailbox' \in [Boxes -> Frame \cup {None}]
    BY <1>12 DEF Deliver, Transmit
  <2> QED BY <1>12, <2>5, <2>6 DEF Deliver, Transmit, task
<1>13. ASSUME NEW i \in Id, Lose(i)
       PROVE  TypeOK'
  BY <1>13 DEF Lose, Transmit, task
<1>14. CASE UNCHANGED vars
  BY <1>14 DEF vars
<1> QED BY <1>1, <1>2, <1>3, <1>4, <1>5, <1>6, <1>7, <1>8, <1>9, <1>10, <1>11,
           <1>12, <1>13, <1>14 DEF Next, Task, Bus

------------------------------------------------------------------------------
(* The bus neither reads nor writes what a cycle works with.               *)
LEMMA BusLeavesTask == Bus => UNCHANGED <<rc, task, steady>>
BY DEF Bus, Deliver, Lose, Transmit

LEMMA SwitchStep == TypeOK /\ SwitchInv /\ [Next]_vars => SwitchInv'
<1> SUFFICES ASSUME TypeOK, SwitchInv, [Next]_vars
             PROVE  SwitchInv'
  OBVIOUS
<1> USE DEF SwitchInv, Reading
<1>0. rc.ch9 \in 0..3
  BY RcFieldTypes DEF TypeOK
<1>1. ASSUME NEW f \in RcFrame, RcIsr(f)
      PROVE  SwitchInv'
  BY <1>1 DEF RcIsr
<1>2. CASE Boot
  BY <1>2 DEF Boot
<1>3. CASE Head
  BY <1>3 DEF Head
<1>4. CASE Spin
  BY <1>4 DEF Spin
<1>5. ASSUME NEW k \in 1..3, Probe(k)
      PROVE  SwitchInv'
  <2>1. CASE k = 1
    BY <1>0, <1>5, <2>1, Modes DEF Probe
  <2>2. CASE k = 2
    BY <1>0, <1>5, <2>2, Modes DEF Probe
  <2>3. CASE k = 3
    BY <1>0, <1>5, <2>3, Modes DEF Probe
  <2> QED BY <2>1, <2>2, <2>3
<1>6. CASE Control
  BY <1>6 DEF Control
<1>7. CASE ControlCh2
  BY <1>7 DEF ControlCh2
<1>8. CASE LoopRemote
  BY <1>8 DEF LoopRemote
<1>9. CASE LoopLocating
  BY <1>9 DEF LoopLocating
<1>10. CASE Set_motor_A
  BY <1>10 DEF Set_motor_A, Can_TxMessage
<1>11. CASE Set_motor_B
  BY <1>11 DEF Set_motor_B, Can_TxMessage
<1>12. CASE Bus
  BY <1>12, BusLeavesTask DEF task
<1>13. CASE UNCHANGED vars
  BY <1>13 DEF vars
<1> QED BY <1>1, <1>2, <1>3, <1>4, <1>5, <1>6, <1>7, <1>8, <1>9, <1>10, <1>11,
           <1>12, <1>13 DEF Next, Task

LEMMA VelocityStep ==
  TypeOK /\ SwitchInv /\ VelocityInv /\ [Next]_vars => VelocityInv'
<1> SUFFICES ASSUME TypeOK, SwitchInv, VelocityInv, [Next]_vars
             PROVE  VelocityInv'
  OBVIOUS
<1> USE DEF VelocityInv
<1>0. rc.ch9 \in 0..3
  BY RcFieldTypes DEF TypeOK
<1>1. ASSUME NEW f \in RcFrame, RcIsr(f)
      PROVE  VelocityInv'
  BY <1>1 DEF RcIsr, task
<1>2. CASE Boot
  BY <1>2 DEF Boot
<1>3. CASE Head
  BY <1>3 DEF Head
<1>4. CASE Spin
  BY <1>4 DEF Spin
<1>5. ASSUME NEW k \in 1..3, Probe(k)
      PROVE  VelocityInv'
  BY <1>5, Modes DEF Probe
<1>6. CASE Control
  <2>1. CASE mode = "ZERO_FORCE"
    BY <1>0, <1>6, <2>1, Modes DEF Control, SwitchInv
  <2>2. CASE mode = "LOCATING_MOVE"
    BY <1>0, <1>6, <2>2, Modes DEF Control, SwitchInv, LocatingTarget, AsksToMove
  <2>3. CASE mode = "REMOTE_MOVE"
    BY <1>6, <2>3 DEF Control
  <2> QED BY <2>1, <2>2, <2>3 DEF TypeOK
<1>7. CASE ControlCh2
  BY <1>0, <1>7, Modes DEF ControlCh2, SwitchInv, AsksToMove
<1>8. CASE LoopRemote
  BY <1>8 DEF LoopRemote
<1>9. CASE LoopLocating
  BY <1>9 DEF LoopLocating
<1>10. CASE Set_motor_A
  BY <1>10 DEF Set_motor_A, Can_TxMessage
<1>11. CASE Set_motor_B
  BY <1>11 DEF Set_motor_B, Can_TxMessage
<1>12. CASE Bus
  BY <1>12, BusLeavesTask DEF task, AsksToMove
<1>13. CASE UNCHANGED vars
  BY <1>13 DEF vars, AsksToMove
<1> QED BY <1>1, <1>2, <1>3, <1>4, <1>5, <1>6, <1>7, <1>8, <1>9, <1>10, <1>11,
           <1>12, <1>13 DEF Next, Task

LEMMA ObeysStep ==
  TypeOK /\ SwitchInv /\ VelocityInv /\ SteadyCycleObeys /\ [Next]_vars
    => SteadyCycleObeys'
<1> SUFFICES ASSUME TypeOK, SwitchInv, VelocityInv, SteadyCycleObeys, [Next]_vars
             PROVE  SteadyCycleObeys'
  OBVIOUS
<1> USE DEF SteadyCycleObeys
<1>1. ASSUME NEW f \in RcFrame, RcIsr(f)
      PROVE  SteadyCycleObeys'
  BY <1>1 DEF RcIsr
<1>2. CASE Boot
  BY <1>2 DEF Boot
<1>3. CASE Head
  BY <1>3 DEF Head
<1>4. CASE Spin
  BY <1>4 DEF Spin, SwitchInv, SpunWheels, Wheel
<1>5. ASSUME NEW k \in 1..3, Probe(k)
      PROVE  SteadyCycleObeys'
  BY <1>5, Modes DEF Probe
<1>6. CASE Control
  BY <1>6 DEF Control
<1>7. CASE ControlCh2
  BY <1>7 DEF ControlCh2
<1>8. CASE LoopRemote
  BY <1>8, Modes DEF LoopRemote, Kinematics, SwitchInv, VelocityInv, Reading, AsksToMove
<1>9. CASE LoopLocating
  BY <1>9, Modes DEF LoopLocating, LocatingSelected, Kinematics, SwitchInv,
                     VelocityInv, Reading, AsksToMove
<1>10. CASE Set_motor_A
  BY <1>10 DEF Set_motor_A, Can_TxMessage
<1>11. CASE Set_motor_B
  BY <1>11 DEF Set_motor_B, Can_TxMessage
<1>12. CASE Bus
  BY <1>12, BusLeavesTask DEF task, AsksToMove
<1>13. CASE UNCHANGED vars
  BY <1>13 DEF vars, AsksToMove
<1> QED BY <1>1, <1>2, <1>3, <1>4, <1>5, <1>6, <1>7, <1>8, <1>9, <1>10, <1>11,
           <1>12, <1>13 DEF Next, Task

LEMMA HeardStep ==
  TypeOK /\ HeardInv /\ SilentUntilHeard /\ [Next]_vars
    => HeardInv' /\ SilentUntilHeard'
<1> SUFFICES ASSUME TypeOK, HeardInv, SilentUntilHeard, [Next]_vars, rc'.ch9 = 0
             PROVE  HeardInv' /\ SilentUntilHeard'
  BY DEF HeardInv, SilentUntilHeard
<1> USE DEF HeardInv, SilentUntilHeard
<1>1. ASSUME NEW f \in RcFrame, RcIsr(f)
      PROVE  FALSE
  BY <1>1, RcFrameType DEF RcIsr
<1>2. CASE Boot
  BY <1>2 DEF Boot
<1>3. CASE Head
  BY <1>3 DEF Head
<1>4. CASE Spin
  BY <1>4 DEF Spin
<1>5. ASSUME NEW k \in 1..3, Probe(k)
      PROVE  HeardInv' /\ SilentUntilHeard'
  BY <1>5, Modes DEF Probe
<1>6. CASE Control
  BY <1>6 DEF Control
<1>7. CASE ControlCh2
  BY <1>7 DEF ControlCh2
<1>8. CASE LoopRemote
  BY <1>8 DEF LoopRemote
<1>9. CASE LoopLocating
  BY <1>9 DEF LoopLocating, LocatingSelected
<1>10. CASE Set_motor_A
  BY <1>10 DEF Set_motor_A, Can_TxMessage
<1>11. CASE Set_motor_B
  BY <1>11 DEF Set_motor_B, Can_TxMessage
<1>12. CASE Bus
  <2>1. PICK i \in Id : Chosen(i) # {}
    BY <1>12 DEF Bus, Deliver, Lose, Transmit
  <2>2. FirstOf(Chosen(i)) \in Boxes /\ mailbox[FirstOf(Chosen(i))].id = i
    BY <2>1, ChosenBox
  <2>3. rc.ch9 = 0
    BY <1>12, BusLeavesTask
  <2>4. None.id = i
    BY <2>2, <2>3
  <2> QED BY <2>4 DEF None, Id, Drive, Steer
<1>13. CASE UNCHANGED vars
  BY <1>13 DEF vars
<1> QED BY <1>1, <1>2, <1>3, <1>4, <1>5, <1>6, <1>7, <1>8, <1>9, <1>10, <1>11,
           <1>12, <1>13 DEF Next, Task

(* The inductive invariant holds in every behaviour.                       *)
THEOREM Invariant == Safety => []IInv
<1>1. IInv /\ [Next]_vars => IInv'
  BY TypeStep, SwitchStep, VelocityStep, ObeysStep, HeardStep DEF IInv
<1> QED BY <1>1, InitIInv, PTL DEF Safety

------------------------------------------------------------------------------
(* Every variable keeps its type: the frames in the mailboxes and on the   *)
(* bus are frames set_motor built.                                         *)
THEOREM TypeCorrect == Safety => []TypeOK
<1>1. IInv => TypeOK
  BY DEF IInv
<1> QED BY <1>1, Invariant, PTL

(* A cycle that no frame interrupted commands what its frame asks for.     *)
THEOREM CycleObeys == Safety => []SteadyCycleObeys
<1>1. IInv => SteadyCycleObeys
  BY DEF IInv
<1> QED BY <1>1, Invariant, PTL

(* Nothing is sent before the first remote-control frame.                  *)
THEOREM SilentBefore == Safety => []SilentUntilHeard
<1>1. IInv => SilentUntilHeard
  BY DEF IInv
<1> QED BY <1>1, Invariant, PTL

(* In ZERO_FORCE the control loop commands zero currents or none.          *)
THEOREM ZeroForce == Safety => ZeroForceSendsZero
<1> DEFINE Zero == (pc \in {"loop3", "loop2"} /\ pc' = "sendA" /\ mode = "ZERO_FORCE")
                     => load' = "zero" /\ speed_set' = {}
<1>1. ASSUME IInv, [Next]_vars, pc \in {"loop3", "loop2"}, pc' = "sendA",
             mode = "ZERO_FORCE"
      PROVE  load' = "zero" /\ speed_set' = {}
  <2>1. V = {}
    BY <1>1 DEF IInv, VelocityInv
  <2>2. Kinematics
    <3>1. ASSUME NEW f \in RcFrame PROVE ~RcIsr(f)
      BY <1>1 DEF RcIsr, task
    <3>2. ~Bus /\ ~UNCHANGED vars
      BY <1>1, BusLeavesTask DEF vars, task
    <3>3. \A k \in 1..3 : ~Probe(k)
      BY <1>1, Modes DEF Probe
    <3> QED BY <1>1, <3>1, <3>2, <3>3 DEF Next, Task, Boot, Head, Spin, Control,
              ControlCh2, LoopRemote, LoopLocating, Set_motor_A, Set_motor_B,
              Can_TxMessage
  <2> QED BY <1>1, <2>1, <2>2 DEF Kinematics
<1>2. IInv /\ [Next]_vars => [Zero]_vars
  BY <1>1
<1> QED BY <1>2, Invariant, PTL DEF Safety, ZeroForceSendsZero
==============================================================================
