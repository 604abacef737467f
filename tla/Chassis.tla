------------------------------- MODULE Chassis -------------------------------
(***************************************************************************)
(* The chassis task (Task/chassis_task.c, chassis_behaviour.c), the rc     *)
(* record it reads and the CAN mailboxes it writes (Hardware/bsp_can.c).   *)
(*                                                                         *)
(* The receiver interrupt replaces rc as a whole (bsp_sbus.c:146), but the *)
(* task reads it field by field, and some fields several times in a cycle: *)
(* every read is a step of its own.  Sticks are 0 or 1, for centred or     *)
(* not; currents are abstracted to what produced them: "zero" for the      *)
(* literal zeros of chassis_task.c:680 and 841, "pid" for the controllers. *)
(*                                                                         *)
(* A frame waits in one of the controller's mailboxes, the lower           *)
(* identifier leaves first, and a frame that fails on the bus is gone:     *)
(* can.c:50-52 disables retransmission and the FIFO order.                 *)
(***************************************************************************)
EXTENDS Naturals, FiniteSets

CONSTANTS RcFrame,     (* what the transmitter may send                    *)
          Mailboxes    (* transmit mailboxes of the controller, numbered   *)

Stick == {0, 1}
RcType == [ch1 : Stick, ch2 : Stick, ch4 : Stick, ch5 : 0..3, ch9 : 0..3]

ASSUME ChassisAssumption ==
  /\ RcFrame \subseteq { f \in RcType : f.ch5 # 0 /\ f.ch9 # 0 }
  /\ Mailboxes \in Nat \ {0}

VARIABLES rc,          (* the last remote-control frame                    *)
          pc,          (* where the task is                                *)
          mode,        (* Chassis_Behaviour_Mode, and Chassis_Mode, which  *)
                       (* chassis_behaviour.c:168-183 sets to the same     *)
          V,           (* the axes with a velocity: Vx_Set, Vy_Set; kept   *)
                       (* only until chassis_control_loop has used them,   *)
                       (* as no later read precedes the next write         *)
          speed_set,   (* the wheels whose speed set-point is not zero     *)
          load,        (* what the currents about to be sent come from     *)
          mailbox,     (* the controller's mailboxes                       *)
          commanded,   (* per identifier, the last frame on the bus        *)
          steady       (* history: rc has not changed since the cycle's    *)
                       (* first read of it                                 *)

task == <<pc, mode, V, speed_set, load>>
vars == <<rc, pc, mode, V, speed_set, load, mailbox, commanded, steady>>

Wheel == 0..3
Boxes == 1..Mailboxes

Drive == "0x200"
Steer == "0x1FF"
Id == {Drive, Steer}
Load == {"zero", "pid"}
None == [id |-> "none", load |-> "zero", moving |-> FALSE]
Frame == [id : Id, load : Load, moving : BOOLEAN]

Idle == [load |-> "none", moving |-> FALSE]

(* At power on the rc record is all zeros, which no frame is.              *)
Init ==
  /\ rc = [ch1 |-> 0, ch2 |-> 0, ch4 |-> 0, ch5 |-> 0, ch9 |-> 0]
  /\ pc = "boot"
  /\ mode = "ZERO_FORCE"
  /\ V = {} /\ speed_set = {} /\ load = "zero"
  /\ mailbox = [m \in Boxes |-> None]
  /\ commanded = [i \in Id |-> Idle]
  /\ steady = FALSE

------------------------------------------------------------------------------
(* The receiver's idle-line interrupt with a complete frame.               *)
RcIsr(f) ==
  /\ f # rc
  /\ rc' = f
  /\ steady' = FALSE
  /\ UNCHANGED <<task, mailbox, commanded>>

(* chassis_init and chassis_location_init.  The latter leaves its loop at  *)
(* once when the first wheel is aligned; otherwise it goes on to test      *)
(* wheel 4, which does not exist and whose encoder lookup never returns.   *)
Boot ==
  /\ pc = "boot"
  /\ pc' \in {"head", "hung"}
  /\ UNCHANGED <<rc, mode, V, speed_set, load, mailbox, commanded, steady>>

(* Back from osDelay, the test of the spin stick.                          *)
Head ==
  /\ pc = "head"
  /\ pc' = IF rc.ch4 # 0 THEN "spin" ELSE "is1"
  /\ steady' = TRUE
  /\ UNCHANGED <<rc, mode, V, speed_set, load, mailbox, commanded>>

(* Mutant: one wheel too far.                                              *)
SpunWheelsShifted == 1..4

(* The wheels Zi_Xuan sets.                                                *)
SpunWheels == Wheel \ {0}

(* xuan, which reads the stick again and sets three wheels of four.        *)
Spin ==
  /\ pc = "spin"
  /\ speed_set' = (speed_set \cap {0}) \cup (IF rc.ch4 # 0 THEN SpunWheels ELSE {})
  /\ load' = "pid"
  /\ pc' = "sendA"
  /\ UNCHANGED <<rc, mode, V, mailbox, commanded, steady>>

(* chassis_behaviour_mode_set: up to three reads of the mode switch.       *)
ModeOf == <<"ZERO_FORCE", "LOCATING_MOVE", "REMOTE_MOVE">>
ProbePc == <<"is1", "is2", "is3", "control">>
Probe(k) ==
  /\ pc = ProbePc[k]
  /\ IF rc.ch9 = k
     THEN mode' = ModeOf[k] /\ pc' = "control"
     ELSE UNCHANGED mode /\ pc' = ProbePc[k + 1]
  /\ UNCHANGED <<rc, V, speed_set, load, mailbox, commanded, steady>>

(* Mutant: a missing break after the first case.                           *)
LocatingTargetFallsThrough ==
  IF rc.ch5 \in {1, 2} THEN {"x"} ELSE IF rc.ch5 = 3 THEN {"x", "y"} ELSE {}

(* chassis_local_move_control: the velocities of the switch's positions.   *)
LocatingTarget == IF rc.ch5 = 2 THEN {"x"} ELSE IF rc.ch5 = 3 THEN {"x", "y"} ELSE {}

(* chassis_behaviour_control_set.  Remote control reads one stick here and *)
(* the other in the next step.                                             *)
Control ==
  /\ pc = "control"
  /\ V' = CASE mode = "ZERO_FORCE"    -> {}
            [] mode = "LOCATING_MOVE" -> LocatingTarget
            [] mode = "REMOTE_MOVE"   -> IF rc.ch1 # 0 THEN {"x"} ELSE {}
  /\ pc' = IF mode = "REMOTE_MOVE" THEN "ch2" ELSE "loop3"
  /\ UNCHANGED <<rc, mode, speed_set, load, mailbox, commanded, steady>>

ControlCh2 ==
  /\ pc = "ch2"
  /\ V' = V \cup (IF rc.ch2 # 0 THEN {"y"} ELSE {})
  /\ pc' = "loop3"
  /\ UNCHANGED <<rc, mode, speed_set, load, mailbox, commanded, steady>>

(* Mutant: a velocity of zero leaves the set-points as they were.          *)
KinematicsKept == /\ speed_set' = IF V = {} THEN speed_set ELSE Wheel
                  /\ load' = IF mode = "ZERO_FORCE" THEN "zero" ELSE "pid"

(* Mutant: the test of chassis_task.c:678 is gone.                         *)
KinematicsPowered == speed_set' = (IF V = {} THEN {} ELSE Wheel) /\ load' = "pid"

(* The kinematics turn a velocity into a set-point for every wheel.        *)
Kinematics == /\ speed_set' = IF V = {} THEN {} ELSE Wheel
              /\ load' = IF mode = "ZERO_FORCE" THEN "zero" ELSE "pid"

(* Mutant: else instead of else if.                                        *)
LocatingElse == rc.ch9 # 3

(* The second test of chassis_control_loop.                                *)
LocatingSelected == rc.ch9 = 2

(* chassis_control_loop tests the mode switch again, for 3 and then for 2. *)
(* Set_speed, at the end of the second branch, computes from the same      *)
(* Vx_Set and Vy_Set and not from its arguments.                           *)
LoopRemote ==
  /\ pc = "loop3"
  /\ IF rc.ch9 = 3
     THEN Kinematics /\ pc' = "sendA" /\ V' = {}
     ELSE UNCHANGED <<speed_set, load, V>> /\ pc' = "loop2"
  /\ UNCHANGED <<rc, mode, mailbox, commanded, steady>>

LoopLocating ==
  /\ pc = "loop2"
  /\ IF LocatingSelected
     THEN Kinematics /\ pc' = "sendA"
     ELSE UNCHANGED <<speed_set, load>> /\ pc' = "head"
  /\ V' = {}
  /\ UNCHANGED <<rc, mode, mailbox, commanded, steady>>

(* set_motor: 0x200 and then 0x1FF.  A frame takes the first free mailbox; *)
(* when none gets free in time it is dropped and nobody is told.           *)
Free == { m \in Boxes : mailbox[m] = None }
FirstOf(S) == CHOOSE m \in S : \A n \in S : m <= n
DriveFrame == [id |-> Drive, load |-> load, moving |-> load = "pid" /\ speed_set # {}]
SteerFrame == [id |-> Steer, load |-> load, moving |-> FALSE]

Can_TxMessage(at, frame, next) ==
  /\ pc = at
  /\ mailbox' = IF Free = {} THEN mailbox
                ELSE [mailbox EXCEPT ![FirstOf(Free)] = frame]
  /\ pc' = next
  /\ UNCHANGED <<rc, mode, V, speed_set, load, commanded, steady>>

Set_motor_A == Can_TxMessage("sendA", DriveFrame, "sendB")
Set_motor_B == Can_TxMessage("sendB", SteerFrame, "head")

(* The bus side: the pending frame with the lowest identifier, and of      *)
(* those the lowest mailbox, is sent, once, and received or not.           *)
Pending(i) == { m \in Boxes : mailbox[m].id = i }
Chosen(i) == IF i = Drive /\ Pending(Steer) # {} THEN {} ELSE Pending(i)
Transmit(i) ==
  /\ Chosen(i) # {}
  /\ mailbox' = [mailbox EXCEPT ![FirstOf(Chosen(i))] = None]
  /\ UNCHANGED <<rc, task, steady>>
Deliver(i) ==
  /\ Transmit(i)
  /\ commanded' = [commanded EXCEPT ![i] =
        LET f == mailbox[FirstOf(Chosen(i))] IN [load |-> f.load, moving |-> f.moving]]
Lose(i) == Transmit(i) /\ UNCHANGED commanded

------------------------------------------------------------------------------
Task == \/ Boot \/ Head \/ Spin
        \/ \E k \in 1..3 : Probe(k)
        \/ Control \/ ControlCh2 \/ LoopRemote \/ LoopLocating
        \/ Set_motor_A \/ Set_motor_B
Bus == \E i \in Id : Deliver(i) \/ Lose(i)
Next == Task \/ Bus \/ \E f \in RcFrame : RcIsr(f)

(* The task runs at a priority nothing starves, the controller sends what  *)
(* is pending, and the bus does not lose every frame for ever.             *)
Fairness == WF_vars(Task) /\ WF_vars(Bus) /\ \A i \in Id : SF_vars(Deliver(i))
Safety == Init /\ [][Next]_vars
Spec == Safety /\ Fairness

------------------------------------------------------------------------------
TypeOK ==
  /\ rc \in RcType
  /\ pc \in {"boot", "hung", "head", "spin", "is1", "is2", "is3", "control",
             "ch2", "loop3", "loop2", "sendA", "sendB"}
  /\ mode \in {"ZERO_FORCE", "LOCATING_MOVE", "REMOTE_MOVE"}
  /\ V \subseteq {"x", "y"} /\ speed_set \subseteq Wheel /\ load \in Load
  /\ mailbox \in [Boxes -> Frame \cup {None}]
  /\ commanded \in [Id -> [load : Load \cup {"none"}, moving : BOOLEAN]]
  /\ steady \in BOOLEAN

(* The movement the switches and sticks of one frame ask for.              *)
AsksToMove(f) == \/ f.ch9 = 3 /\ (f.ch1 # 0 \/ f.ch2 # 0)
                 \/ f.ch9 = 2 /\ f.ch5 \in {2, 3}

(* A cycle that no new frame interrupted commands what its frame asks for: *)
(* every wheel moves or none, from the controllers; a spin moves the three *)
(* wheels of Zi_Xuan; and any other position of the mode switch sends      *)
(* nothing at all.  Whatever earlier cycles left in Vx_Set, speed_set or   *)
(* the mode is gone by then (chassis_task.c:134-151).                      *)
SteadyCycleObeys ==
  pc = "sendA" /\ steady =>
     /\ load = "pid"
     /\ IF rc.ch4 # 0 THEN speed_set \ {0} = Wheel \ {0}
        ELSE /\ rc.ch9 \in {2, 3}
             /\ speed_set = IF AsksToMove(rc) THEN Wheel ELSE {}

(* Before the first remote-control frame, whose switches are never 0, the  *)
(* chassis has sent nothing (chassis_task.c:635, 698).                     *)
SilentUntilHeard ==
  rc.ch9 = 0 => /\ pc \notin {"spin", "sendA", "sendB"}
                /\ \A m \in Boxes : mailbox[m] = None
                /\ \A i \in Id : commanded[i] = Idle

(* While the mode is ZERO_FORCE the normal cycle moves no wheel, even when *)
(* the switch turns to 2 or 3 between chassis_set_mode and the tests of    *)
(* chassis_control_loop (chassis_task.c:678, 839); spinning is the only    *)
(* source of current.                                                      *)
ZeroForceSendsZero ==
  [][(pc \in {"loop3", "loop2"} /\ pc' = "sendA" /\ mode = "ZERO_FORCE")
       => load' = "zero" /\ speed_set' = {}]_vars

(* With the switch at 3 and the sticks left centred, the wheels are        *)
(* eventually commanded to stop and stay stopped, whatever was pending in  *)
(* the mailboxes, spinning included (chassis_task.c:134-151).              *)
Released == rc.ch9 = 3 /\ rc.ch1 = 0 /\ rc.ch2 = 0 /\ rc.ch4 = 0
StickReleaseStops ==
  <>[](Released /\ pc \notin {"boot", "hung"}) => <>[](~commanded[Drive].moving)

(* The comment of chassis_behaviour.c:140, "channel nine at one: chassis   *)
(* not powered", and of chassis_behaviour.h:45, "no force, as if not       *)
(* powered": left there, the last currents commanded are zero, or none     *)
(* ever were.                                                              *)
ZeroForceUnpowered ==
  <>[](rc.ch9 = 1 /\ rc.ch4 = 0 /\ pc \notin {"boot", "hung"})
     => <>[](\A i \in Id : commanded[i].load # "pid")
==============================================================================
