------------------------------ MODULE VescLink -------------------------------
(***************************************************************************)
(* The serial link to the speed controllers of the flywheels               *)
(* (Hardware/vesc_uart/packet.c on UART7, Core/Src/usart.c): frames come   *)
(* in byte by byte, an interrupt feeds each byte to the parser and re-arms *)
(* the receiver, while the gimbal task transmits on the same UART handle.  *)
(*                                                                         *)
(* The device at the other end runs the same two functions of the maker's  *)
(* library, so that packet_send_packet here is also the encoder of what    *)
(* arrives.  The line may lose, spoil and invent bytes; an overrun of the  *)
(* UART loses one and ends the reception.                                  *)
(*                                                                         *)
(* A payload is known by the number of its frame.  Its bytes and those of  *)
(* the CRC may have any value, chosen when the parser takes the byte for a *)
(* start or for a length; where it stores the byte only its place in its   *)
(* frame matters.  The CRC is taken to tell every two contents of the      *)
(* buffer apart: a frame that lies whole inside a payload, or that spoilt  *)
(* and invented bytes make up, is never accepted here, and packet.c would  *)
(* hand it over.  packet_timerfunc is not modelled: nothing calls          *)
(* bldc_interface_uart_run_timer.                                          *)
(***************************************************************************)
EXTENDS Naturals

CONSTANTS Radix,      (* values of a byte: 256                             *)
          MaxPl,      (* PACKET_MAX_PL_LEN: 512                            *)
          Lengths,    (* the lengths of payloads that are sent             *)
          MaxFrames,  (* bound: frames on the line                         *)
          MaxFaults   (* bound: bytes lost, spoilt or invented             *)

ASSUME VescAssumption ==
    /\ Radix \in Nat /\ Radix >= 4
    /\ MaxPl \in Nat /\ Radix < MaxPl /\ MaxPl < Radix * Radix
    /\ Lengths \subseteq Nat
    /\ \E n \in Lengths : n <= MaxPl
    /\ MaxFrames \in Nat /\ MaxFaults \in Nat

VARIABLES
    frame,          (* the number of the frame on the line                 *)
    len,            (* the length of its payload                           *)
    at,             (* its next byte, past the last when it is over        *)
    faults,         (* faults so far                                       *)
    rxState,        (* rx_state                                            *)
    payloadLength,  (* payload_length                                      *)
    rxDataPtr,      (* rx_data_ptr                                         *)
    holds,          (* the frame that rx_buffer, crc_high and crc_low hold *)
                    (* as far as they are filled; 0 for a mixture          *)
    received,       (* the frame last handed to process_func               *)
    armed,          (* RxState is BUSY_RX: a byte raises the interrupt     *)
    tx,             (* HAL_UART_Transmit of the task: "ready", "locked"    *)
                    (* while it has the handle's lock, "busy" after that   *)
    whole,          (* history: the frame found the parser idle, and all   *)
                    (* its bytes so far arrived                            *)
    waited,         (* history: bytes since the parser was idle            *)
    clean           (* history: nothing has disturbed the link so far: no  *)
                    (* fault, no start in the middle of a frame, no length *)
                    (* byte 0, no interrupt while the lock was held        *)

line == <<frame, len, at, faults>>
parser == <<rxState, payloadLength, rxDataPtr, holds, received>>
handle == <<armed, tx>>
history == <<whole, waited, clean>>
vars == <<line, parser, handle, history>>

Byte == 0..(Radix - 1)

------------------------------------------------------------------------------
(* packet_send_packet: a start byte that tells the size of the length, the *)
(* length, the payload, two bytes of CRC and a stop byte.                  *)

Short(n) == n <= Radix
HeaderSize(n) == IF Short(n) THEN 2 ELSE 3
FrameSize(n) == HeaderSize(n) + n + 3

Low(n) == n % Radix
High(n) == n \div Radix

(* The values that byte i of a frame of n payload bytes may have.          *)
Values(n, i) == {v \in Byte :
                    /\ i = 1 => v = IF Short(n) THEN 2 ELSE 3
                    /\ i = 2 /\ ~Short(n) => v = High(n)
                    /\ i = HeaderSize(n) => v = Low(n)
                    /\ i = FrameSize(n) => v = 3}

(* The parts of it: byte i is byte j of the payload, of the CRC.           *)
IsPayload(i, j) == i = HeaderSize(len) + j /\ j <= len
IsCrc(i, j) == i = HeaderSize(len) + len + j

Over == at > FrameSize(len)

(* The lengths 0 and 256 cannot be sent: their length byte is 0, which the *)
(* parser refuses.                                                         *)
Carried(n) == n \notin {0, Radix}

------------------------------------------------------------------------------
Init == /\ frame = 1
        /\ len \in {n \in Lengths : n <= MaxPl}
        /\ at \in 1..(FrameSize(len) + 1)   (* it may have begun before    *)
        /\ faults = 0
        /\ rxState = 0
        /\ payloadLength = 0
        /\ rxDataPtr = 0
        /\ holds = 0
        /\ received = 0
        /\ armed = TRUE
        /\ tx = "ready"
        /\ whole = (at = 1)
        /\ waited = 0
        /\ clean = (at = 1 /\ Carried(len))

(* The other end calls packet_send_packet.                                 *)
SendPacket ==
    /\ Over
    /\ frame < MaxFrames
    /\ frame' = frame + 1
    /\ len' \in {n \in Lengths : n <= MaxPl}
    /\ at' = 1
    /\ whole' = (rxState = 0)
    /\ clean' = (clean /\ Carried(len'))
    /\ UNCHANGED <<faults, parser, handle, waited>>

------------------------------------------------------------------------------
(* packet_process_byte(v), for byte i of frame n; n is 0 for a byte that   *)
(* belongs to none.                                                        *)

Start(v) ==
    /\ rxState = 0
    /\ IF v \in {2, 3}
       THEN /\ rxState' = IF v = 2 THEN 2 ELSE 1
            /\ rxDataPtr' = 0
            /\ payloadLength' = 0
       ELSE UNCHANGED <<rxState, rxDataPtr, payloadLength>>
    /\ UNCHANGED <<holds, received>>

(* Mutant: the high byte is not shifted.                                   *)
LengthHighUnshifted(v) ==
    /\ rxState = 1
    /\ payloadLength' = v
    /\ rxState' = 2
    /\ UNCHANGED <<rxDataPtr, holds, received>>
LengthHigh(v) ==
    /\ rxState = 1
    /\ payloadLength' = v * Radix
    /\ rxState' = 2
    /\ UNCHANGED <<rxDataPtr, holds, received>>

(* payload_length |= v: its low byte is still zero.                        *)
(* Mutant: the length is not compared with the size of rx_buffer.          *)
LengthLowUnchecked(v) ==
    /\ rxState = 2
    /\ payloadLength' = payloadLength + v
    /\ rxState' = IF payloadLength' > 0 THEN 3 ELSE 0
    /\ UNCHANGED <<rxDataPtr, holds, received>>
LengthLow(v) ==
    /\ rxState = 2
    /\ payloadLength' = payloadLength + v
    /\ rxState' = IF payloadLength' > 0 /\ payloadLength' <= MaxPl THEN 3 ELSE 0
    /\ UNCHANGED <<rxDataPtr, holds, received>>

Payload(n, i) ==
    /\ rxState = 3
    /\ rxDataPtr' = rxDataPtr + 1
    /\ LET last == rxDataPtr' = payloadLength
       IN /\ rxState' = IF last THEN 4 ELSE 3
          /\ holds' = IF /\ n # 0
                         /\ rxDataPtr = 0 \/ holds = n
                         /\ IsPayload(i, rxDataPtr')
                         /\ last => payloadLength = len
                      THEN n ELSE 0
    /\ UNCHANGED <<payloadLength, received>>

Crc(n, i) ==
    /\ rxState \in {4, 5}
    /\ rxState' = rxState + 1
    /\ holds' = IF n # 0 /\ holds = n /\ IsCrc(i, rxState - 3) THEN n ELSE 0
    /\ UNCHANGED <<payloadLength, rxDataPtr, received>>

(* Mutant: the parser waits for a stop byte.                               *)
StopAwaited(v) ==
    /\ rxState = 6
    /\ rxState' = IF v = 3 THEN 0 ELSE 6
    /\ received' = IF v = 3 /\ holds # 0 THEN holds ELSE received
    /\ UNCHANGED <<payloadLength, rxDataPtr, holds>>
(* Mutant: the CRC is not looked at.                                       *)
StopUnchecked(v) ==
    /\ rxState = 6
    /\ rxState' = 0
    /\ received' = IF v = 3 THEN holds ELSE received
    /\ UNCHANGED <<payloadLength, rxDataPtr, holds>>
Stop(v) ==
    /\ rxState = 6
    /\ rxState' = 0
    /\ received' = IF v = 3 /\ holds # 0 THEN holds ELSE received
    /\ UNCHANGED <<payloadLength, rxDataPtr, holds>>

ProcessByte(v, n, i) ==
    \/ Start(v) \/ LengthHigh(v) \/ LengthLow(v)
    \/ Payload(n, i) \/ Crc(n, i) \/ Stop(v)

(* HAL_UART_Receive_IT answers HAL_BUSY, which nobody looks at, when the   *)
(* task has the handle's lock.                                             *)
(* Mutant: the lock is held until the last byte is out.                    *)
ReceiveItBusy == armed' = (tx = "ready")
ReceiveIt == armed' = (tx # "locked")

(* HAL_UART_RxCpltCallback for huart7, from one end to the other: no task  *)
(* runs in between.                                                        *)
RxCplt(v, n, i) ==
    /\ armed
    /\ ProcessByte(v, n, i)
    /\ ReceiveIt
    /\ waited' = IF rxState' = 0 THEN 0 ELSE waited + 1
    /\ UNCHANGED tx

------------------------------------------------------------------------------
(* The line.                                                               *)

Arrive == /\ ~Over
          /\ \E v \in Values(len, at) : RxCplt(v, frame, at)
          /\ at' = at + 1
          /\ clean' = (clean /\ tx # "locked")
          /\ UNCHANGED <<frame, len, faults, whole>>

(* The receiver was not armed again: the byte is not heard.                *)
Unheard == /\ ~Over
           /\ ~armed
           /\ at' = at + 1
           /\ whole' = FALSE
           /\ UNCHANGED <<frame, len, faults, parser, handle, waited, clean>>

Lose == /\ ~Over
        /\ faults < MaxFaults
        /\ faults' = faults + 1
        /\ at' = at + 1
        /\ whole' = FALSE
        /\ clean' = FALSE
        /\ UNCHANGED <<frame, len, parser, handle, waited>>

(* A byte comes while the one before it is not read yet, and the interrupt *)
(* has read that one: HAL_UART_IRQHandler ends the reception, and nobody   *)
(* begins another.                                                         *)
Overrun == /\ ~Over
           /\ armed
           /\ faults < MaxFaults
           /\ faults' = faults + 1
           /\ at' = at + 1
           /\ armed' = FALSE
           /\ whole' = FALSE
           /\ clean' = FALSE
           /\ UNCHANGED <<frame, len, parser, tx, waited>>

(* A byte is spoilt, or comes out of nowhere.                              *)
Noise == /\ faults < MaxFaults
         /\ faults' = faults + 1
         /\ \E v \in Byte : RxCplt(v, 0, 0)
         /\ at' \in {at, at + 1} /\ (Over => at' = at)
         /\ whole' = FALSE
         /\ clean' = FALSE
         /\ UNCHANGED <<frame, len>>

(* HAL_UART_Transmit of the gimbal task, whose handle it has to itself but *)
(* for the interrupt.  The lock is given back before the first byte goes   *)
(* out.                                                                    *)
Lock   == tx = "ready"  /\ tx' = "locked" /\ UNCHANGED <<line, parser, armed, history>>
Unlock == tx = "locked" /\ tx' = "busy"   /\ UNCHANGED <<line, parser, armed, history>>
Sent   == tx = "busy"   /\ tx' = "ready"  /\ UNCHANGED <<line, parser, armed, history>>

Next == \/ SendPacket \/ Arrive \/ Unheard \/ Lose \/ Overrun \/ Noise
        \/ Lock \/ Unlock \/ Sent

Spec == Init /\ [][Next]_vars

------------------------------------------------------------------------------
(* Properties.                                                             *)

TypeOK == /\ frame \in Nat /\ len \in 0..MaxPl
          /\ at \in 1..(FrameSize(len) + 1)
          /\ faults \in 0..MaxFaults
          /\ rxState \in 0..6
          /\ payloadLength \in 0..(Radix * Radix - 1)
          /\ rxDataPtr \in 0..MaxPl
          /\ holds \in Nat /\ received \in Nat
          /\ armed \in BOOLEAN
          /\ tx \in {"ready", "locked", "busy"}
          /\ whole \in BOOLEAN /\ waited \in Nat /\ clean \in BOOLEAN

(* Whatever the line brings, the byte of a payload is stored within        *)
(* rx_buffer, and a payload that is complete has the length announced.     *)
RxInBounds == /\ rxState = 3 => rxDataPtr < payloadLength /\ payloadLength <= MaxPl
              /\ rxState \in 4..6 => rxDataPtr = payloadLength

(* A false start costs the bytes of one frame of the greatest length, not  *)
(* more: the parser is idle again after that, without the timer.           *)
SwallowsOneFrame == waited < FrameSize(MaxPl)

(* packet_process_byte undoes packet_send_packet: a frame that finds the   *)
(* parser idle and arrives whole is handed over with its last byte, and    *)
(* the parser is idle for the next one.                                    *)
WholeFrameReceived ==
    whole /\ Over /\ Carried(len) => received = frame /\ rxState = 0

(* On a line without faults every frame is received, for ever, unless an   *)
(* interrupt comes while the task has the lock: neither the transmissions  *)
(* nor the lengths and contents of the frames stop the receiver or lead    *)
(* the parser astray.                                                      *)
CleanLineLosesNothing == clean /\ Over => received = frame

(* What the parser hands over was sent, in this order, once, as far as the *)
(* CRC tells frames from what only looks like one.                         *)
Link == INSTANCE LossyLink WITH sent <- frame, received <- received
LinkSpec == Link!Spec
==============================================================================
