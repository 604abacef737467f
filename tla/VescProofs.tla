----------------------------- MODULE VescProofs ------------------------------
(***************************************************************************)
(* Proofs about VescLink, for every length of buffer and byte, every set   *)
(* of payload lengths and any number of frames and faults.                 *)
(***************************************************************************)
EXTENDS VescLink, TLAPS

------------------------------------------------------------------------------
(* The inductive invariant.                                                *)

(* What the numbers of the parser are at each of its states.               *)
ParserInv == /\ rxState \in {1, 2} => rxDataPtr = 0
             /\ rxState = 2 => payloadLength <= Radix * Radix - Radix
             /\ RxInBounds

(* How long the parser can have been busy at each of its states.           *)
WaitInv == /\ rxState = 0 => waited = 0
           /\ rxState = 1 => waited = 1
           /\ rxState = 2 => waited <= 2
           /\ rxState = 3 => waited <= 3 + rxDataPtr
           /\ rxState \in 4..6 => waited <= rxState - 1 + rxDataPtr

(* What the buffer holds of a frame was heard before the byte that is next *)
(* on the line, and is newer than what was handed over.                    *)
OrderInv ==
    /\ received <= frame
    /\ received = frame => at >= FrameSize(len)
    /\ rxState = 3 /\ rxDataPtr > 0 /\ holds # 0 =>
          /\ received < holds /\ holds <= frame
          /\ holds = frame => at > HeaderSize(len) + rxDataPtr
    /\ rxState \in 4..6 /\ holds # 0 =>
          /\ received < holds /\ holds <= frame
          /\ holds = frame => at > HeaderSize(len) + len + rxState - 4

(* Where the parser is while a whole frame arrives.                        *)
WholeInv == whole =>
    /\ at = 1 => rxState = 0
    /\ Carried(len) =>
        /\ at = 2 /\ Short(len) => rxState = 2 /\ payloadLength = 0
        /\ at = 2 /\ ~Short(len) => rxState = 1
        /\ at = 3 /\ ~Short(len) => rxState = 2 /\ payloadLength = High(len) * Radix
        /\ at \in (HeaderSize(len) + 1)..(HeaderSize(len) + len) =>
              /\ rxState = 3
              /\ payloadLength = len
              /\ rxDataPtr = at - HeaderSize(len) - 1
              /\ rxDataPtr > 0 => holds = frame
        /\ at \in (HeaderSize(len) + len + 1)..FrameSize(len) =>
              /\ rxState = at - HeaderSize(len) - len + 3
              /\ holds = frame
        /\ at = FrameSize(len) + 1 => rxState = 0 /\ received = frame

CleanInv == clean => armed /\ whole /\ Carried(len)

IInv == TypeOK /\ frame # 0 /\ ParserInv /\ WaitInv /\ OrderInv /\ WholeInv /\ CleanInv

------------------------------------------------------------------------------
(* Bytes and frames.                                                       *)

LEMMA Sizes ==
    ASSUME NEW n \in Nat
    PROVE  /\ HeaderSize(n) \in {2, 3}
           /\ Short(n) => HeaderSize(n) = 2
           /\ ~Short(n) => HeaderSize(n) = 3
           /\ FrameSize(n) \in Nat
           /\ FrameSize(n) = HeaderSize(n) + n + 3
BY VescAssumption DEF HeaderSize, FrameSize, Short

(* The two bytes of a length that is carried give the length again.        *)
LEMMA LengthBytes ==
    ASSUME NEW n \in 0..MaxPl
    PROVE  /\ Low(n) \in Byte
           /\ High(n) \in Byte
           /\ High(n) * Radix + Low(n) = n
           /\ Short(n) /\ Carried(n) => Low(n) = n
<1> DEFINE q == n \div Radix
           r == n % Radix
<1>1. /\ n \in Nat /\ Radix \in Nat \ {0} /\ Radix >= 4
      /\ MaxPl \in Nat /\ MaxPl < Radix * Radix /\ n < Radix * Radix
  BY VescAssumption
<1>2. q \in Nat /\ r \in 0..(Radix - 1) /\ n = Radix * q + r
  BY <1>1
<1>3. q < Radix
  <2>1. SUFFICES ASSUME q >= Radix PROVE FALSE
    BY <1>1, <1>2
  <2>2. Radix * q >= Radix * Radix
    BY <1>1, <1>2, <2>1
  <2> QED BY <1>1, <1>2, <2>2
<1>4. n < Radix => r = n
  BY <1>1
<1>5. Short(n) /\ Carried(n) => n < Radix
  BY <1>1 DEF Short, Carried
<1> QED BY <1>1, <1>2, <1>3, <1>4, <1>5 DEF Low, High, Byte

(* The high byte of a length leaves room for a low one.                    *)
LEMMA HighByte ==
    ASSUME NEW v \in Byte
    PROVE  v * Radix \in 0..(Radix * Radix - Radix)
<1>1. v \in Nat /\ Radix \in Nat /\ v <= Radix - 1
  BY VescAssumption DEF Byte
<1>2. v * Radix <= (Radix - 1) * Radix
  BY <1>1
<1>3. (Radix - 1) * Radix = Radix * Radix - Radix
  BY <1>1
<1>4. v * Radix \in Nat
  BY <1>1
<1> QED BY <1>1, <1>2, <1>3, <1>4

------------------------------------------------------------------------------
(* The interrupt.                                                          *)

(* A byte that reaches the parser: byte at of the frame, or noise.         *)
Heard(v, n, i) == /\ v \in Byte
                  /\ RxCplt(v, n, i)
                  /\ n = 0 \/ (n = frame /\ i = at)

(* packet_process_byte keeps the numbers of the parser in their ranges.    *)
LEMMA ParserStep ==
    ASSUME TypeOK, ParserInv, NEW v \in Byte, NEW n \in Nat, NEW i \in Nat,
           ProcessByte(v, n, i)
    PROVE  /\ rxState' \in 0..6
           /\ payloadLength' \in 0..(Radix * Radix - 1)
           /\ rxDataPtr' \in 0..MaxPl
           /\ holds' \in Nat /\ received' \in Nat
           /\ ParserInv'
<1> DEFINE Goal == /\ rxState' \in 0..6
                  /\ payloadLength' \in 0..(Radix * Radix - 1)
                  /\ rxDataPtr' \in 0..MaxPl
                  /\ holds' \in Nat /\ received' \in Nat
                  /\ ParserInv'
<1>1. /\ rxState \in 0..6 /\ payloadLength \in 0..(Radix * Radix - 1)
      /\ rxDataPtr \in 0..MaxPl /\ holds \in Nat /\ received \in Nat
      /\ Radix \in Nat /\ Radix >= 4 /\ MaxPl \in Nat /\ v \in 0..(Radix - 1)
      /\ Radix * Radix \in Nat /\ Radix * Radix > MaxPl
  BY VescAssumption DEF TypeOK, Byte
<1>2. Radix * Radix - Radix \in Nat /\ Radix * Radix - Radix <= Radix * Radix - 4
  <2>1. Radix * Radix >= 4 * Radix
    BY <1>1
  <2> QED BY <1>1, <2>1
<1>3. CASE Start(v)
  BY <1>1, <1>2, <1>3 DEF Start, ParserInv, RxInBounds
<1>4. CASE LengthHigh(v)
  <2>1. v * Radix \in 0..(Radix * Radix - Radix)
    BY HighByte
  <2> QED BY <1>1, <1>2, <1>4, <2>1 DEF LengthHigh, ParserInv, RxInBounds
<1>5. CASE LengthLow(v)
  BY <1>1, <1>2, <1>5 DEF LengthLow, ParserInv, RxInBounds
<1>6. CASE Payload(n, i)
  <2>1. /\ rxState = 3 /\ rxDataPtr' = rxDataPtr + 1
        /\ rxState' = IF rxDataPtr' = payloadLength THEN 4 ELSE 3
        /\ holds' \in {n, 0} /\ payloadLength' = payloadLength
        /\ received' = received
    BY <1>6 DEF Payload
  <2> QED BY <1>1, <1>2, <2>1 DEF ParserInv, RxInBounds
<1>7. CASE Crc(n, i)
  BY <1>1, <1>2, <1>7 DEF Crc, ParserInv, RxInBounds
<1>8. CASE Stop(v)
  BY <1>1, <1>2, <1>8 DEF Stop, ParserInv, RxInBounds
<1> QED BY <1>3, <1>4, <1>5, <1>6, <1>7, <1>8 DEF ProcessByte

(* One byte more, or the parser is idle.                                   *)
LEMMA WaitStep ==
    ASSUME TypeOK, ParserInv, WaitInv,
           NEW v \in Byte, NEW n \in Nat, NEW i \in Nat, RxCplt(v, n, i)
    PROVE  WaitInv' /\ waited' \in Nat
<1>1. /\ rxState \in 0..6 /\ rxDataPtr \in Nat /\ waited \in Nat
      /\ ProcessByte(v, n, i)
      /\ waited' = IF rxState' = 0 THEN 0 ELSE waited + 1
      /\ rxState \in {1, 2} => rxDataPtr = 0
  BY DEF TypeOK, RxCplt, ParserInv
<1>2. CASE Start(v)
  BY <1>1, <1>2 DEF Start, WaitInv
<1>3. CASE LengthHigh(v)
  BY <1>1, <1>3 DEF LengthHigh, WaitInv
<1>4. CASE LengthLow(v)
  BY <1>1, <1>4 DEF LengthLow, WaitInv
<1>5. CASE Payload(n, i)
  <2>1. /\ rxState = 3 /\ rxDataPtr' = rxDataPtr + 1 /\ rxState' \in {3, 4}
    BY <1>5 DEF Payload
  <2>2. waited <= 3 + rxDataPtr
    BY <2>1 DEF WaitInv
  <2>3. waited' = waited + 1 /\ waited' <= 3 + rxDataPtr' /\ waited' \in Nat
    BY <1>1, <2>1, <2>2
  <2> QED BY <2>1, <2>3 DEF WaitInv
<1>6. CASE Crc(n, i)
  BY <1>1, <1>6 DEF Crc, WaitInv
<1>7. CASE Stop(v)
  BY <1>1, <1>7 DEF Stop, WaitInv
<1> QED BY <1>1, <1>2, <1>3, <1>4, <1>5, <1>6, <1>7 DEF ProcessByte

(* What the buffer holds stays older than the line and newer than what was *)
(* handed over.                                                            *)
LEMMA OrderStep ==
    ASSUME TypeOK, ParserInv, OrderInv,
           NEW v \in Byte, NEW n \in {0, frame}, NEW i \in {0, at},
           n = frame => i = at /\ ~Over, frame # 0, n = 0 => i = 0,
           ProcessByte(v, n, i),
           frame' = frame, len' = len, at' \in {at, at + 1},
           n = frame => at' = at + 1
    PROVE  OrderInv'
<1>1. /\ frame \in Nat /\ len \in Nat /\ at \in Nat /\ holds \in Nat
      /\ received \in Nat /\ rxState \in 0..6 /\ rxDataPtr \in Nat
      /\ HeaderSize(len) \in {2, 3} /\ FrameSize(len) = HeaderSize(len) + len + 3
  BY Sizes, VescAssumption DEF TypeOK
<1>2. HeaderSize(len)' = HeaderSize(len) /\ FrameSize(len)' = FrameSize(len)
  BY DEF HeaderSize, FrameSize, Short
<1>3. CASE Start(v)
  BY <1>1, <1>2, <1>3 DEF Start, OrderInv
<1>4. CASE LengthHigh(v)
  BY <1>1, <1>2, <1>4 DEF LengthHigh, OrderInv
<1>5. CASE LengthLow(v)
  <2>1. rxDataPtr = 0 /\ rxDataPtr' = rxDataPtr /\ rxState' \in {0, 3}
        /\ received' = received
    BY <1>5 DEF LengthLow, ParserInv
  <2> QED BY <1>1, <1>2, <2>1 DEF OrderInv
<1>6. CASE Payload(n, i)
  <2>1. /\ rxState = 3 /\ rxDataPtr' = rxDataPtr + 1 /\ rxState' \in {3, 4}
        /\ received' = received
        /\ rxState' = 4 => rxDataPtr' = payloadLength
    BY <1>6 DEF Payload
  <2>2. CASE holds' = 0
    BY <1>1, <1>2, <2>1, <2>2 DEF OrderInv
  <2>3. CASE holds' # 0
    <3>1. /\ n # 0 /\ holds' = n /\ IsPayload(i, rxDataPtr')
          /\ rxState' = 4 => payloadLength = len
      BY <1>6, <2>3 DEF Payload
    <3>2. /\ n = frame /\ i = at /\ at' = at + 1
          /\ at = HeaderSize(len) + rxDataPtr' /\ rxDataPtr' <= len
          /\ rxState' = 4 => rxDataPtr' = len
      BY <2>1, <3>1 DEF IsPayload
    <3>3. at < FrameSize(len) /\ received < frame
      BY <1>1, <2>1, <3>2 DEF OrderInv
    <3> QED BY <1>1, <1>2, <2>1, <3>1, <3>2, <3>3 DEF OrderInv
  <2> QED BY <2>2, <2>3
<1>7. CASE Crc(n, i)
  <2>1. rxState \in {4, 5} /\ rxState' = rxState + 1 /\ received' = received
    BY <1>7 DEF Crc
  <2>2. CASE holds' = 0
    BY <1>1, <1>2, <2>1, <2>2 DEF OrderInv
  <2>3. CASE holds' # 0
    <3>1. n # 0 /\ holds' = n /\ holds = n /\ IsCrc(i, rxState - 3)
      BY <1>7, <2>3 DEF Crc
    <3>2. /\ n = frame /\ i = at /\ at' = at + 1
          /\ at = HeaderSize(len) + len + rxState - 3
      BY <1>1, <2>1, <3>1 DEF IsCrc
    <3>3. received < holds /\ holds <= frame
      BY <2>1, <3>1, <3>2 DEF OrderInv
    <3> QED BY <1>1, <1>2, <2>1, <3>1, <3>2, <3>3 DEF OrderInv
  <2> QED BY <2>2, <2>3
<1>8. CASE Stop(v)
  <2>1. /\ rxState = 6 /\ rxState' = 0 /\ received' \in {received, holds}
        /\ received' # received => received' = holds /\ holds # 0
    BY <1>8 DEF Stop
  <2>2. received' <= frame /\ (received' = frame => at >= FrameSize(len))
    <3>1. CASE received' = received
      BY <3>1 DEF OrderInv
    <3>2. CASE received' # received
      <4>1. received' = holds /\ holds # 0 /\ holds <= frame
        BY <2>1, <3>2 DEF OrderInv
      <4>2. holds = frame => at > HeaderSize(len) + len + 2
        BY <1>1, <2>1, <4>1 DEF OrderInv
      <4> QED BY <1>1, <4>1, <4>2
    <3> QED BY <3>1, <3>2
  <2>3. received' <= frame' /\ (received' = frame' => at' >= FrameSize(len)')
    BY <1>1, <1>2, <2>2
  <2> QED BY <2>1, <2>3 DEF OrderInv
<1> QED BY <1>3, <1>4, <1>5, <1>6, <1>7, <1>8 DEF ProcessByte

(* A whole frame leads the parser on by one byte.                          *)
LEMMA WholeStep ==
    ASSUME TypeOK, ParserInv, WholeInv, whole, ~Over, frame # 0,
           NEW v \in Values(len, at), ProcessByte(v, frame, at),
           frame' = frame, len' = len, at' = at + 1
    PROVE  WholeInv'
<1>1. /\ frame \in Nat /\ len \in 0..MaxPl /\ at \in Nat /\ holds \in Nat
      /\ received \in Nat /\ rxState \in 0..6 /\ rxDataPtr \in Nat
      /\ HeaderSize(len) \in {2, 3} /\ FrameSize(len) = HeaderSize(len) + len + 3
      /\ Short(len) => HeaderSize(len) = 2
      /\ ~Short(len) => HeaderSize(len) = 3
      /\ at >= 1 /\ at <= FrameSize(len)
  BY Sizes, VescAssumption DEF TypeOK, Over
<1>2. /\ HeaderSize(len)' = HeaderSize(len) /\ FrameSize(len)' = FrameSize(len)
      /\ Short(len)' = Short(len) /\ High(len)' = High(len)
      /\ Carried(len)' = Carried(len)
  BY DEF HeaderSize, FrameSize, Short, High, Carried
<1>3. SUFFICES ASSUME Carried(len) PROVE WholeInv'
  BY <1>1, <1>2 DEF WholeInv
<1>4. len >= 1
  BY <1>1, <1>3 DEF Carried
<1>5. CASE at = 1
  <2>1. rxState = 0 /\ v = IF Short(len) THEN 2 ELSE 3
    BY <1>5 DEF WholeInv, Values
  <2>2. Start(v)
    BY <2>1 DEF ProcessByte, LengthHigh, LengthLow, Payload, Crc, Stop
  <2>3. rxState' = (IF Short(len) THEN 2 ELSE 1) /\ payloadLength' = 0
    BY <2>1, <2>2 DEF Start
  <2> QED BY <1>1, <1>2, <1>4, <1>5, <2>3 DEF WholeInv
<1>6. CASE at = 2 /\ ~Short(len)
  <2>1. rxState = 1 /\ v = High(len)
    BY <1>3, <1>6 DEF WholeInv, Values
  <2>2. LengthHigh(v)
    BY <2>1 DEF ProcessByte, Start, LengthLow, Payload, Crc, Stop
  <2>3. rxState' = 2 /\ payloadLength' = High(len) * Radix
    BY <2>1, <2>2 DEF LengthHigh
  <2> QED BY <1>1, <1>2, <1>4, <1>6, <2>3 DEF WholeInv
<1>7. CASE at = HeaderSize(len) /\ ~(at = 2 /\ ~Short(len))
  <2>1. /\ rxState = 2 /\ v = Low(len)
        /\ payloadLength = IF Short(len) THEN 0 ELSE High(len) * Radix
    BY <1>1, <1>3, <1>7 DEF WholeInv, Values
  <2>2. LengthLow(v)
    BY <2>1 DEF ProcessByte, Start, LengthHigh, Payload, Crc, Stop
  <2>3. payloadLength' = len
    <3>1. /\ Low(len) \in Nat /\ High(len) * Radix + Low(len) = len
          /\ Short(len) => Low(len) = len
      BY <1>1, <1>3, LengthBytes DEF Byte
    <3> QED BY <1>1, <2>1, <2>2, <3>1 DEF LengthLow
  <2>4. rxState' = 3 /\ rxDataPtr' = 0
    BY <1>1, <1>4, <2>1, <2>2, <2>3 DEF LengthLow, ParserInv
  <2> QED BY <1>1, <1>2, <1>4, <1>7, <2>3, <2>4 DEF WholeInv
<1>8. CASE at \in (HeaderSize(len) + 1)..(HeaderSize(len) + len)
  <2>1. /\ rxState = 3 /\ payloadLength = len
        /\ rxDataPtr = at - HeaderSize(len) - 1
        /\ rxDataPtr > 0 => holds = frame
    BY <1>3, <1>8 DEF WholeInv
  <2>2. Payload(frame, at)
    BY <2>1 DEF ProcessByte, Start, LengthHigh, LengthLow, Crc, Stop
  <2>3. IsPayload(at, rxDataPtr + 1) /\ (rxDataPtr = 0 \/ holds = frame)
    BY <1>1, <1>8, <2>1 DEF IsPayload
  <2>4. /\ rxDataPtr' = rxDataPtr + 1 /\ payloadLength' = len /\ holds' = frame
        /\ rxState' = IF rxDataPtr + 1 = len THEN 4 ELSE 3
    BY <2>1, <2>2, <2>3 DEF Payload
  <2> QED BY <1>1, <1>2, <1>4, <1>8, <2>1, <2>4 DEF WholeInv
<1>9. CASE at \in (HeaderSize(len) + len + 1)..FrameSize(len)
  <2>1. rxState = at - HeaderSize(len) - len + 3 /\ holds = frame
    BY <1>3, <1>9 DEF WholeInv
  <2>2. CASE at = FrameSize(len)
    <3>1. rxState = 6 /\ v = 3
      BY <1>1, <1>4, <2>1, <2>2 DEF Values
    <3>2. Stop(v)
      BY <3>1 DEF ProcessByte, Start, LengthHigh, LengthLow, Payload, Crc
    <3>3. rxState' = 0 /\ received' = frame
      BY <2>1, <3>1, <3>2 DEF Stop
    <3> QED BY <1>1, <1>2, <1>4, <2>2, <3>3 DEF WholeInv
  <2>3. CASE at # FrameSize(len)
    <3>1. rxState \in {4, 5}
      BY <1>1, <1>9, <2>1, <2>3
    <3>2. Crc(frame, at)
      BY <3>1 DEF ProcessByte, Start, LengthHigh, LengthLow, Payload, Stop
    <3>3. IsCrc(at, rxState - 3)
      BY <1>1, <1>9, <2>1 DEF IsCrc
    <3>4. rxState' = rxState + 1 /\ holds' = frame
      BY <2>1, <3>2, <3>3 DEF Crc
    <3> QED BY <1>1, <1>2, <1>4, <1>9, <2>1, <2>3, <3>4 DEF WholeInv
  <2> QED BY <2>2, <2>3
<1> QED BY <1>1, <1>4, <1>5, <1>6, <1>7, <1>8, <1>9

------------------------------------------------------------------------------
(* The invariant is inductive.                                             *)

LEMMA InitInv == Init => IInv
<1> SUFFICES ASSUME Init PROVE IInv
  OBVIOUS
<1>1. /\ frame = 1 /\ len \in 0..MaxPl /\ faults = 0 /\ rxState = 0
      /\ payloadLength = 0 /\ rxDataPtr = 0 /\ holds = 0 /\ received = 0
      /\ tx = "ready" /\ waited = 0 /\ at \in 1..(FrameSize(len) + 1)
  BY VescAssumption DEF Init
<1>2. armed = TRUE /\ whole \in BOOLEAN /\ clean \in BOOLEAN
  BY DEF Init
<1>3. /\ FrameSize(len) \in Nat /\ Radix * Radix - 1 \in Nat /\ MaxPl \in Nat
      /\ MaxFaults \in Nat /\ Radix * Radix > MaxPl
  BY <1>1, Sizes, VescAssumption
<1>4. TypeOK
  BY <1>1, <1>2, <1>3 DEF TypeOK
<1>5. ParserInv /\ WaitInv /\ OrderInv
  BY <1>1, <1>3 DEF ParserInv, RxInBounds, WaitInv, OrderInv
<1>6. whole => at = 1
  BY DEF Init
<1>7. WholeInv
  BY <1>1, <1>3, <1>6, Sizes, VescAssumption DEF WholeInv
<1>8. clean => at = 1 /\ Carried(len)
  BY DEF Init
<1>9. CleanInv
  BY <1>2, <1>8 DEF CleanInv, Init
<1> QED BY <1>1, <1>4, <1>5, <1>7, <1>9 DEF IInv

(* Arrive and Noise bring a byte to the parser.                            *)
LEMMA HeardStep ==
    ASSUME IInv, NEW v \in Byte, NEW n \in {0, frame}, NEW i \in {0, at},
           RxCplt(v, n, i)
    PROVE  /\ rxState' \in 0..6
           /\ payloadLength' \in 0..(Radix * Radix - 1)
           /\ rxDataPtr' \in 0..MaxPl
           /\ holds' \in Nat /\ received' \in Nat
           /\ armed' \in BOOLEAN /\ tx' = tx /\ waited' \in Nat
           /\ ParserInv' /\ WaitInv'
<1>1. TypeOK /\ ParserInv /\ WaitInv /\ n \in Nat /\ i \in Nat
  BY Sizes, VescAssumption DEF IInv, TypeOK
<1>2. ProcessByte(v, n, i) /\ tx' = tx
  BY DEF RxCplt
<1>3. armed' \in BOOLEAN
  BY DEF RxCplt, ReceiveIt
<1>4. /\ rxState' \in 0..6
      /\ payloadLength' \in 0..(Radix * Radix - 1)
      /\ rxDataPtr' \in 0..MaxPl
      /\ holds' \in Nat /\ received' \in Nat
      /\ ParserInv'
  BY <1>1, <1>2, ParserStep
<1>5. WaitInv' /\ waited' \in Nat
  BY <1>1, WaitStep
<1> QED BY <1>2, <1>3, <1>4, <1>5

LEMMA SendStep == IInv /\ SendPacket => IInv'
<1> SUFFICES ASSUME IInv, SendPacket PROVE IInv'
  OBVIOUS
<1>1. /\ frame' = frame + 1 /\ len' \in 0..MaxPl /\ at' = 1 /\ Over
      /\ UNCHANGED <<faults, parser, handle, waited>>
  BY VescAssumption DEF SendPacket
<1>2. /\ whole' \in BOOLEAN /\ (whole' => rxState = 0)
      /\ (clean' => clean /\ Carried(len'))
  BY DEF SendPacket
<1>3. clean' \in BOOLEAN
  BY DEF SendPacket
<1>4. FrameSize(len') \in Nat /\ FrameSize(len') >= 5 /\ HeaderSize(len') \in {2, 3}
  BY <1>1, Sizes, VescAssumption
<1>5. TypeOK' /\ frame' # 0
  BY <1>1, <1>2, <1>3, <1>4 DEF IInv, TypeOK, parser, handle
<1>6. ParserInv' /\ WaitInv'
  BY <1>1 DEF IInv, ParserInv, RxInBounds, WaitInv, parser
<1>7. OrderInv'
  BY <1>1 DEF IInv, TypeOK, OrderInv, parser
<1>8. WholeInv'
  BY <1>1, <1>2, <1>4, Sizes, VescAssumption DEF WholeInv, parser
<1>9. CleanInv'
  <2>1. SUFFICES ASSUME clean' PROVE armed' /\ whole' /\ Carried(len')
    BY DEF CleanInv, Carried
  <2>2. armed /\ whole /\ Carried(len)
    BY <1>2, <2>1 DEF IInv, CleanInv
  <2>3. at = FrameSize(len) + 1
    BY <1>1, Sizes, VescAssumption DEF IInv, TypeOK, Over
  <2>4. rxState = 0
    BY <2>2, <2>3 DEF IInv, WholeInv
  <2> QED BY <1>1, <1>2, <2>1, <2>2, <2>4 DEF handle, SendPacket
<1> QED BY <1>5, <1>6, <1>7, <1>8, <1>9 DEF IInv

LEMMA ArriveStep == IInv /\ Arrive => IInv'
<1> SUFFICES ASSUME IInv, Arrive PROVE IInv'
  OBVIOUS
<1>1. /\ ~Over /\ at' = at + 1 /\ UNCHANGED <<frame, len, faults, whole>>
      /\ clean' = (clean /\ tx # "locked")
  BY DEF Arrive
<1>2. PICK v \in Values(len, at) : RxCplt(v, frame, at)
  BY DEF Arrive
<1>3. v \in Byte
  BY DEF Values
<1>4. /\ rxState' \in 0..6
      /\ payloadLength' \in 0..(Radix * Radix - 1)
      /\ rxDataPtr' \in 0..MaxPl
      /\ holds' \in Nat /\ received' \in Nat
      /\ armed' \in BOOLEAN /\ tx' = tx /\ waited' \in Nat
      /\ ParserInv' /\ WaitInv'
  BY <1>2, <1>3, HeardStep
<1>5. at' \in 1..(FrameSize(len') + 1)
  BY <1>1, Sizes, VescAssumption DEF IInv, TypeOK, Over
<1>6. whole' \in BOOLEAN /\ clean' \in BOOLEAN
  BY <1>1 DEF IInv, TypeOK
<1>7. TypeOK' /\ frame' # 0
  BY <1>1, <1>4, <1>5, <1>6 DEF IInv, TypeOK
<1>8. ProcessByte(v, frame, at) /\ armed' = (tx # "locked")
  BY <1>2 DEF RxCplt, ReceiveIt
<1>9. OrderInv'
  BY <1>1, <1>3, <1>8, OrderStep DEF IInv
<1>10. WholeInv'
  <2>1. CASE whole
    BY <1>1, <1>8, <2>1, WholeStep DEF IInv
  <2>2. CASE ~whole
    BY <1>1, <2>2 DEF WholeInv
  <2> QED BY <2>1, <2>2
<1>11. CleanInv'
  BY <1>1, <1>8 DEF IInv, CleanInv, Carried
<1> QED BY <1>4, <1>7, <1>9, <1>10, <1>11 DEF IInv

(* The steps in which the parser is passed over.                           *)
LEMMA DeafStep ==
    ASSUME IInv, ~Over, at' = at + 1, whole' = FALSE, clean' = FALSE,
           faults' \in 0..MaxFaults,
           armed' \in BOOLEAN,
           UNCHANGED <<frame, len, parser, tx, waited>>
    PROVE  IInv'
<1>1. at' \in 1..(FrameSize(len') + 1)
  BY Sizes, VescAssumption DEF IInv, TypeOK, Over
<1>2. TypeOK' /\ frame' # 0
  BY <1>1 DEF IInv, TypeOK, parser
<1>3. ParserInv' /\ WaitInv'
  BY DEF IInv, ParserInv, RxInBounds, WaitInv, parser
<1>4. FrameSize(len)' = FrameSize(len) /\ HeaderSize(len)' = HeaderSize(len)
  BY DEF FrameSize, HeaderSize, Short
<1>5. /\ FrameSize(len) \in Nat /\ HeaderSize(len) \in Nat /\ at \in Nat
      /\ len \in Nat /\ rxState \in Nat /\ rxDataPtr \in Nat /\ at' > at
  BY Sizes, VescAssumption DEF IInv, TypeOK
<1>6. OrderInv'
  BY <1>4, <1>5 DEF IInv, OrderInv, parser
<1>7. WholeInv' /\ CleanInv'
  BY DEF WholeInv, CleanInv
<1> QED BY <1>2, <1>3, <1>6, <1>7 DEF IInv

LEMMA UnheardStep == IInv /\ Unheard => IInv'
<1> SUFFICES ASSUME IInv, Unheard PROVE IInv'
  OBVIOUS
<1>1. /\ ~Over /\ ~armed /\ at' = at + 1 /\ whole' = FALSE
      /\ UNCHANGED <<frame, len, faults, parser, handle, waited, clean>>
  BY DEF Unheard
<1>2. clean \in BOOLEAN /\ (clean => armed)
  BY DEF IInv, TypeOK, CleanInv
<1>3. clean' = FALSE
  BY <1>1, <1>2
<1>4. faults' \in 0..MaxFaults
  BY <1>1 DEF IInv, TypeOK
<1>5. armed' \in BOOLEAN /\ UNCHANGED tx
  BY <1>1 DEF IInv, TypeOK, handle
<1> QED BY <1>1, <1>3, <1>4, <1>5, DeafStep

LEMMA LoseStep == IInv /\ Lose => IInv'
<1> SUFFICES ASSUME IInv, Lose PROVE IInv'
  OBVIOUS
<1>1. faults' \in 0..MaxFaults
  BY VescAssumption DEF IInv, TypeOK, Lose
<1>2. armed' \in BOOLEAN /\ UNCHANGED tx
  BY DEF IInv, TypeOK, Lose, handle
<1> QED BY <1>1, <1>2, DeafStep DEF Lose

LEMMA OverrunStep == IInv /\ Overrun => IInv'
<1> SUFFICES ASSUME IInv, Overrun PROVE IInv'
  OBVIOUS
<1>1. faults' \in 0..MaxFaults
  BY VescAssumption DEF IInv, TypeOK, Overrun
<1>2. armed' \in BOOLEAN
  BY DEF Overrun
<1> QED BY <1>1, <1>2, DeafStep DEF Overrun

LEMMA NoiseStep == IInv /\ Noise => IInv'
<1> SUFFICES ASSUME IInv, Noise PROVE IInv'
  OBVIOUS
<1>1. /\ faults < MaxFaults /\ faults' = faults + 1
      /\ at' \in {at, at + 1} /\ (Over => at' = at)
      /\ whole' = FALSE /\ clean' = FALSE /\ UNCHANGED <<frame, len>>
  BY DEF Noise
<1>2. PICK v \in Byte : RxCplt(v, 0, 0)
  BY DEF Noise
<1>3. /\ rxState' \in 0..6
      /\ payloadLength' \in 0..(Radix * Radix - 1)
      /\ rxDataPtr' \in 0..MaxPl
      /\ holds' \in Nat /\ received' \in Nat
      /\ armed' \in BOOLEAN /\ tx' = tx /\ waited' \in Nat
      /\ ParserInv' /\ WaitInv'
  BY <1>2, HeardStep
<1>4. at' \in 1..(FrameSize(len') + 1)
  BY <1>1, Sizes, VescAssumption DEF IInv, TypeOK, Over
<1>5. faults' \in 0..MaxFaults
  BY <1>1, VescAssumption DEF IInv, TypeOK
<1>6. TypeOK' /\ frame' # 0
  BY <1>1, <1>3, <1>4, <1>5 DEF IInv, TypeOK
<1>7. ProcessByte(v, 0, 0)
  BY <1>2 DEF RxCplt
<1>8. OrderInv'
  BY <1>1, <1>7, OrderStep DEF IInv
<1>9. WholeInv' /\ CleanInv'
  BY <1>1 DEF WholeInv, CleanInv
<1> QED BY <1>3, <1>6, <1>8, <1>9 DEF IInv

(* HAL_UART_Transmit touches neither the parser nor the receiver.          *)
LEMMA TaskStep ==
    ASSUME IInv, tx' \in {"ready", "locked", "busy"},
           UNCHANGED <<line, parser, armed, history>>
    PROVE  IInv'
<1>1. TypeOK' /\ frame' # 0
  BY DEF IInv, TypeOK, line, parser, history, FrameSize, HeaderSize, Short
<1>2. ParserInv' /\ WaitInv'
  BY DEF IInv, ParserInv, RxInBounds, WaitInv, parser, history
<1>3. OrderInv'
  BY DEF IInv, OrderInv, line, parser, FrameSize, HeaderSize, Short
<1>4. WholeInv'
  BY DEF IInv, WholeInv, line, parser, history, FrameSize, HeaderSize, Short,
         Carried, High
<1>5. CleanInv'
  BY DEF IInv, CleanInv, line, history, Carried
<1> QED BY <1>1, <1>2, <1>3, <1>4, <1>5 DEF IInv

LEMMA Inductive == IInv /\ [Next]_vars => IInv'
<1> SUFFICES ASSUME IInv, [Next]_vars PROVE IInv'
  OBVIOUS
<1>1. CASE SendPacket
  BY <1>1, SendStep
<1>2. CASE Arrive
  BY <1>2, ArriveStep
<1>3. CASE Unheard
  BY <1>3, UnheardStep
<1>4. CASE Lose
  BY <1>4, LoseStep
<1>5. CASE Noise
  BY <1>5, NoiseStep
<1>6. CASE Overrun
  BY <1>6, OverrunStep
<1>7. CASE Lock \/ Unlock \/ Sent
  BY <1>7, TaskStep DEF Lock, Unlock, Sent
<1>8. CASE UNCHANGED vars
  <2>1. tx' \in {"ready", "locked", "busy"}
    BY <1>8 DEF IInv, TypeOK, vars, handle
  <2> QED BY <1>8, <2>1, TaskStep DEF vars, handle
<1> QED BY <1>1, <1>2, <1>3, <1>4, <1>5, <1>6, <1>7, <1>8 DEF Next

THEOREM Always == Spec => []IInv
<1>1. Init => IInv
  BY InitInv
<1>2. IInv /\ [Next]_vars => IInv'
  BY Inductive
<1> QED BY <1>1, <1>2, PTL DEF Spec

------------------------------------------------------------------------------
(* The theorems.                                                           *)

(* Every variable keeps its type.                                          *)
THEOREM TypeCorrect == Spec => []TypeOK
<1>1. IInv => TypeOK
  BY DEF IInv
<1> QED BY <1>1, Always, PTL

(* packet_process_byte never writes past rx_buffer.                        *)
THEOREM BufferSafe == Spec => []RxInBounds
<1>1. IInv => RxInBounds
  BY DEF IInv, ParserInv
<1> QED BY <1>1, Always, PTL

(* A false start ends within the bytes of one frame.                       *)
THEOREM FalseStartEnds == Spec => []SwallowsOneFrame
<1>1. IInv => SwallowsOneFrame
  <2>1. SUFFICES ASSUME IInv PROVE waited < FrameSize(MaxPl)
    BY DEF SwallowsOneFrame
  <2>2. FrameSize(MaxPl) = MaxPl + 6 /\ MaxPl \in Nat /\ MaxPl > 4
    BY VescAssumption DEF FrameSize, HeaderSize, Short
  <2>3. rxState \in 0..6 /\ waited \in Nat /\ rxDataPtr \in 0..MaxPl
    BY <2>1 DEF IInv, TypeOK
  <2>4. waited <= 5 + rxDataPtr
    BY <2>1, <2>3 DEF IInv, WaitInv
  <2> QED BY <2>2, <2>3, <2>4
<1> QED BY <1>1, Always, PTL

(* packet_process_byte undoes packet_send_packet.                          *)
THEOREM RoundTrip == Spec => []WholeFrameReceived
<1>1. IInv => WholeFrameReceived
  <2>1. SUFFICES ASSUME IInv, whole, Over, Carried(len)
                 PROVE  received = frame /\ rxState = 0
    BY DEF WholeFrameReceived
  <2>2. at = FrameSize(len) + 1
    BY <2>1, Sizes, VescAssumption DEF IInv, TypeOK, Over
  <2> QED BY <2>1, <2>2 DEF IInv, WholeInv
<1> QED BY <1>1, Always, PTL

(* On a clean line every frame is received.                                *)
THEOREM CleanLine == Spec => []CleanLineLosesNothing
<1>1. IInv => CleanLineLosesNothing
  <2>1. SUFFICES ASSUME IInv, clean, Over PROVE received = frame
    BY DEF CleanLineLosesNothing
  <2>2. whole /\ Carried(len)
    BY <2>1 DEF IInv, CleanInv
  <2>3. at = FrameSize(len) + 1
    BY <2>1, Sizes, VescAssumption DEF IInv, TypeOK, Over
  <2> QED BY <2>1, <2>2, <2>3 DEF IInv, WholeInv
<1> QED BY <1>1, Always, PTL

(* One byte hands over nothing, or a frame that is newer than the last.    *)
LEMMA DeliverStep ==
    ASSUME IInv, NEW v \in Byte, NEW n, NEW i, ProcessByte(v, n, i)
    PROVE  \/ received' = received
           \/ /\ received' \in 1..frame
              /\ received < received'
<1>1. CASE Stop(v)
  <2>1. rxState = 6 /\ (received' = received \/ (received' = holds /\ holds # 0))
    BY <1>1 DEF Stop
  <2>2. holds # 0 => received < holds /\ holds <= frame
    BY <2>1 DEF IInv, OrderInv
  <2> QED BY <2>1, <2>2 DEF IInv, TypeOK
<1>2. CASE ~Stop(v)
  BY <1>2 DEF ProcessByte, Start, LengthHigh, LengthLow, Payload, Crc
<1> QED BY <1>1, <1>2

(* The link implements LossyLink.                                          *)
THEOREM Refinement == Spec => LinkSpec
<1>1. Init => Link!Init
  BY DEF Init, Link!Init
<1>2. IInv /\ [Next]_vars => [Link!Next]_(Link!linkVars)
  <2>1. SUFFICES ASSUME IInv, [Next]_vars
                 PROVE  Link!Next \/ UNCHANGED <<frame, received>>
    BY DEF Link!linkVars
  <2>2. CASE SendPacket
    BY <2>2 DEF SendPacket, parser, Link!Next, Link!Send
  <2>3. CASE Arrive
    <3>1. PICK v \in Values(len, at) : RxCplt(v, frame, at)
      BY <2>3 DEF Arrive
    <3>2. v \in Byte /\ ProcessByte(v, frame, at) /\ frame' = frame
      BY <2>3, <3>1 DEF Values, RxCplt, Arrive
    <3> QED BY <2>1, <3>2, DeliverStep DEF Link!Next, Link!Deliver
  <2>4. CASE Noise
    <3>1. PICK v \in Byte : RxCplt(v, 0, 0)
      BY <2>4 DEF Noise
    <3>2. ProcessByte(v, 0, 0) /\ frame' = frame
      BY <2>4, <3>1 DEF RxCplt, Noise
    <3> QED BY <2>1, <3>2, DeliverStep DEF Link!Next, Link!Deliver
  <2>5. CASE \/ Unheard \/ Lose \/ Overrun \/ Lock \/ Unlock \/ Sent
            \/ UNCHANGED vars
    BY <2>5 DEF Unheard, Lose, Overrun, Lock, Unlock, Sent, vars, line, parser
  <2> QED BY <2>1, <2>2, <2>3, <2>4, <2>5 DEF Next
<1> QED BY <1>1, <1>2, Always, PTL DEF Spec, LinkSpec, Link!Spec
==============================================================================
