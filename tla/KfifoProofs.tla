----------------------------- MODULE KfifoProofs -----------------------------
(***************************************************************************)
(* Proofs about Kfifo for every ring size, every number of laps, every     *)
(* request size and every alphabet.                                        *)
(***************************************************************************)
EXTENDS Kfifo, Integers, TLAPS

------------------------------------------------------------------------------
(* Counter arithmetic.  W is a multiple of Size and exceeds it, so a full  *)
(* ring and an empty one are at different distances, and a counter keeps   *)
(* its slot when it wraps.                                                 *)

LEMMA WType == W \in Nat /\ W >= 2 * Size /\ W > Size
BY KfifoAssumption DEF W

LEMMA DivMod ==
  ASSUME NEW x \in Nat
  PROVE  /\ x \div Size \in Nat
         /\ Slot(x) \in Slots
         /\ x = Size * (x \div Size) + Slot(x)
BY KfifoAssumption DEF Slot, Slots

LEMMA SlotOf ==
  ASSUME NEW q \in Int, NEW r \in Slots
  PROVE  (Size * q + r) % Size = r
BY KfifoAssumption DEF Slots

(* Moving a counter by n moves its slot by n around the ring, also when    *)
(* the counter wraps.                                                      *)
LEMMA SlotAdd ==
  ASSUME NEW x \in Counter, NEW n \in 0..Size
  PROVE  Slot(Add(x, n)) = IF Slot(x) + n < Size THEN Slot(x) + n
                                                 ELSE Slot(x) + n - Size
<1> DEFINE q == x \div Size
           r == Slot(x)
<1>1. q \in Nat /\ r \in Slots /\ x = Size * q + r /\ x \in Nat
  BY DivMod, WType DEF Counter
<1>2. Size \in Nat /\ Size > 0 /\ Laps \in Nat
  BY KfifoAssumption
<1> HIDE DEF q, r
<1>3. PICK e \in Int : Add(x, n) = Size * (q + e) + (r + n)
  <2>1. CASE x + n < W
    <3>1. Add(x, n) = Size * (q + 0) + (r + n)
      BY <1>1, <1>2, <2>1 DEF Add, Slots
    <3> QED BY <3>1
  <2>2. CASE ~(x + n < W)
    <3>1. Add(x, n) = Size * q + r + n - Laps * Size
      BY <1>1, <1>2, <2>2 DEF Add, W, Slots
    <3>2. Size * (q + (0 - Laps)) = Size * q - Laps * Size
      BY <1>1, <1>2
    <3>3. Add(x, n) = Size * (q + (0 - Laps)) + (r + n)
      BY <3>1, <3>2, <1>1, <1>2 DEF Slots
    <3>4. 0 - Laps \in Int
      BY <1>2
    <3> QED BY <3>3, <3>4
  <2> QED BY <2>1, <2>2
<1>4. CASE r + n < Size
  <2>1. r + n \in Slots
    BY <1>1, <1>2, <1>4 DEF Slots
  <2>2. Slot(Add(x, n)) = r + n
    BY <1>1, <1>3, <2>1, SlotOf DEF Slot
  <2> QED BY <2>2, <1>4 DEF r
<1>5. CASE ~(r + n < Size)
  <2>1. r + n - Size \in Slots
    BY <1>1, <1>2, <1>5 DEF Slots
  <2>2. Add(x, n) = Size * (q + e + 1) + (r + n - Size)
    <3>1. Size * (q + e + 1) = Size * (q + e) + Size
      BY <1>1, <1>2
    <3> QED BY <3>1, <1>1, <1>2, <1>3 DEF Slots
  <2>3. q + e + 1 \in Int
    BY <1>1, <1>3
  <2>4. Slot(Add(x, n)) = r + n - Size
    BY <2>1, <2>2, <2>3, SlotOf DEF Slot
  <2> QED BY <2>4, <1>5 DEF r
<1> QED BY <1>4, <1>5

LEMMA PlaceType ==
  ASSUME NEW x \in Counter, NEW i \in 0..Size-1
  PROVE  Place(x, i) \in Slots
<1>1. Slot(x) \in Slots /\ Size \in Nat \ {0}
  BY DivMod, WType, KfifoAssumption DEF Counter
<1> QED BY <1>1 DEF Place, Slots

(* Two bytes less than a ring apart are in different slots.                *)
LEMMA PlaceInjective ==
  ASSUME NEW x \in Counter, NEW i \in 0..Size-1, NEW j \in 0..Size-1, i # j
  PROVE  Place(x, i) # Place(x, j)
<1>1. Slot(x) \in Slots /\ Size \in Nat \ {0}
  BY DivMod, WType, KfifoAssumption DEF Counter
<1> QED BY <1>1 DEF Place, Slots

LEMMA PlaceAdd ==
  ASSUME NEW x \in Counter, NEW n \in 0..Size, NEW i \in 0..Size-1,
         n + i < Size
  PROVE  Place(Add(x, n), i) = Place(x, n + i)
<1>1. Slot(x) \in Slots /\ Size \in Nat \ {0}
  BY DivMod, WType, KfifoAssumption DEF Counter
<1> QED BY <1>1, SlotAdd DEF Place, Slots

LEMMA AddType ==
  ASSUME NEW x \in Counter, NEW n \in 0..Size
  PROVE  Add(x, n) \in Counter
BY WType, KfifoAssumption DEF Add, Counter

LEMMA DistanceType ==
  ASSUME NEW x \in Counter, NEW y \in Counter
  PROVE  Distance(x, y) \in 0..W-1 /\ Distance(x, x) = 0
BY WType DEF Distance, Counter

LEMMA AdvanceFront ==
  ASSUME NEW x \in Counter, NEW y \in Counter, NEW n \in 0..Size,
         Distance(x, y) + n <= Size
  PROVE  Distance(Add(x, n), y) = Distance(x, y) + n
BY WType, KfifoAssumption DEF Distance, Add, Counter

LEMMA AdvanceRear ==
  ASSUME NEW x \in Counter, NEW y \in Counter, NEW n \in 0..Size,
         n <= Distance(x, y)
  PROVE  Distance(x, Add(y, n)) = Distance(x, y) - n
BY WType, KfifoAssumption DEF Distance, Add, Counter

LEMMA FrontFromRear ==
  ASSUME NEW x \in Counter, NEW y \in Counter, Distance(x, y) <= Size
  PROVE  Add(y, Distance(x, y)) = x
BY WType, KfifoAssumption DEF Distance, Add, Counter
------------------------------------------------------------------------------
(* Initially both counters are zero and no call is in progress.            *)
LEMMA InitIInv == Init => IInv
<1> SUFFICES ASSUME Init PROVE IInv
  OBVIOUS
<1>1. /\ 0 \in Counter /\ Size \in Nat \ {0}
      /\ MaxIn \in Nat /\ MaxReq \in Nat
  BY WType, KfifoAssumption DEF Counter
<1>2. Used = 0
  BY <1>1, DistanceType DEF Used, Init
<1>3. TypeOK
  BY <1>1 DEF Init, TypeOK
<1>4. LengthsStayValid
  BY <1>1, <1>2 DEF Init, LengthsStayValid
<1>5. CallsWellFormed /\ LengthsRequested /\ CopiedFaithfully
  BY <1>1 DEF Init, CallsWellFormed, LengthsRequested, CopiedFaithfully
<1> QED BY <1>3, <1>4, <1>5 DEF IInv

(* What the steps of either side do to the ring, given the invariant.      *)
LEMMA UsedType ==
  ASSUME IInv
  PROVE  /\ Used \in 0..Size /\ Avail \in 0..Size /\ Used + Avail = Size
         /\ in \in Counter /\ out \in Counter /\ Size \in Nat \ {0}
         /\ in = Add(out, Used)
BY WType, DistanceType, FrontFromRear, KfifoAssumption
   DEF IInv, TypeOK, LengthsStayValid, Used, Avail

(* The writer copies into a slot that holds no unread byte and none that   *)
(* this call has already copied.                                           *)
LEMMA WriterSlot ==
  ASSUME IInv, NEW i \in 0..Avail-1
  PROVE  /\ Place(in, i) \in Slots
         /\ \A k \in 0..Used-1 : Place(out, k) # Place(in, i)
         /\ \A k \in 0..Avail-1 : k # i => Place(in, k) # Place(in, i)
<1>1. i \in 0..Size-1 /\ Used + i \in 0..Size-1
  BY UsedType
<1>2. Place(in, i) = Place(out, Used + i)
  BY <1>1, UsedType, PlaceAdd
<1>3. \A k \in 0..Used-1 : Place(out, k) # Place(in, i)
  BY <1>1, <1>2, UsedType, PlaceInjective
<1>4. \A k \in 0..Avail-1 : k # i => Place(in, k) # Place(in, i)
  BY <1>1, UsedType, PlaceInjective
<1> QED BY <1>1, <1>3, <1>4, UsedType, PlaceType

LEMMA InCallStep ==
  ASSUME IInv, NEW s \in Requests, InCall(s)
  PROVE  IInv'
<1>1. s \in Seq(Byte) /\ s # << >> /\ Len(s) <= MaxIn
  BY KfifoAssumption DEF Requests
<1> QED BY <1>1 DEF InCall, IInv, TypeOK, LengthsStayValid, CallsWellFormed,
                    LengthsRequested, CopiedFaithfully, Used, Avail, ringVars,
                    readerVars
LEMMA InSizeStep ==
  ASSUME IInv, InSize \/ InResize
  PROVE  IInv'
<1>1. /\ UNCHANGED <<buffer, in, out, from, rpc, need, outLen, to, got>>
      /\ Used' = Used /\ Avail' = Avail
  BY DEF InSize, InResize, ringVars, readerVars, Used, Avail
<1>2. Len(from) \in Nat /\ Avail \in 0..Size /\ Used \in 0..Size /\ Size \in Nat
  BY UsedType DEF IInv, TypeOK
<1>3. CASE InSize
  <2>1. /\ wpc' \in {"copy", "resize"} /\ wpc # "idle"
        /\ MergedReads => wpc' = "copy"
        /\ wpc' = "copy" => inLen' <= Avail /\ inLen' <= Len(from) /\ inLen' \in Nat
        /\ wpc' = "resize" => inLen' = inLen
        /\ inAt' = 0
    BY <1>2, <1>3 DEF InSize, Least
  <2> QED BY <1>1, <1>2, <2>1 DEF IInv, TypeOK, LengthsStayValid, CallsWellFormed,
                                  LengthsRequested, CopiedFaithfully
<1>4. CASE InResize
  <2>1. ~MergedReads /\ wpc = "resize" /\ wpc' = "copy"
    BY <1>4 DEF InResize, IInv, LengthsRequested
  <2> QED BY <1>1, <1>2, <1>4, <2>1 DEF InResize, IInv, TypeOK, LengthsStayValid,
                          CallsWellFormed, LengthsRequested, CopiedFaithfully
<1> QED BY <1>3, <1>4
LEMMA InCopyStep ==
  ASSUME IInv, InCopy
  PROVE  IInv'
<1> DEFINE p == Place(in, inAt)
<1>1. /\ wpc = "copy" /\ inAt \in Nat /\ inAt < inLen /\ inLen <= Avail
      /\ inAt \in 0..Avail-1 /\ Avail \in Nat
      /\ UNCHANGED <<in, out, wpc, from, inLen, rpc, need, outLen, to, got>>
      /\ Used' = Used /\ Avail' = Avail /\ inAt' = inAt + 1
  BY UsedType DEF InCopy, IInv, TypeOK, LengthsStayValid, readerVars, Used, Avail
<1>2. PICK b \in Byte : /\ inAt < Len(from) => b = from[inAt + 1]
                        /\ buffer' = [buffer EXCEPT ![p] = b]
  BY DEF InCopy
<1>3. /\ p \in Slots
      /\ \A k \in 0..Used-1 : Place(out, k) # p
      /\ \A k \in 0..Avail-1 : k # inAt => Place(in, k) # p
  BY <1>1, WriterSlot
<1>4. TypeOK'
  BY <1>1, <1>2, <1>3 DEF IInv, TypeOK
<1>5. LengthsStayValid' /\ CallsWellFormed' /\ LengthsRequested'
  BY <1>1 DEF IInv, TypeOK, LengthsStayValid, CallsWellFormed, LengthsRequested
<1>6. CopiedFaithfully'
  <2>1. ASSUME NEW i \in 0..inAt'-1, i < Len(from)
        PROVE  buffer'[Place(in, i)] = from[i + 1]
    <3>1. CASE i = inAt
      BY <1>2, <1>3, <2>1, <3>1 DEF IInv, TypeOK
    <3>2. CASE i # inAt
      <4>1. i \in 0..inAt-1 /\ i \in 0..Avail-1
        BY <1>1, <3>2
      <4>2. buffer[Place(in, i)] = from[i + 1]
        BY <1>1, <2>1, <4>1 DEF IInv, CopiedFaithfully
      <4>3. Place(in, i) # p /\ Place(in, i) \in Slots
        BY <1>3, <3>2, <4>1, WriterSlot
      <4> QED BY <1>2, <4>2, <4>3 DEF IInv, TypeOK
    <3> QED BY <3>1, <3>2
  <2>2. ASSUME rpc = "copy", NEW i \in 0..Len(to)-1
        PROVE  to[i + 1] = buffer'[Place(out, i)]
    <3>1. i \in 0..Used-1 /\ i \in 0..Size-1
      BY <2>2, UsedType DEF IInv, TypeOK, LengthsStayValid, CallsWellFormed
    <3>2. Place(out, i) \in Slots /\ Place(out, i) # p
      BY <1>3, <3>1, PlaceType, UsedType
    <3> QED BY <1>2, <2>2, <3>2 DEF IInv, TypeOK, CopiedFaithfully
  <2> HIDE DEF p
  <2> QED BY <1>1, <2>1, <2>2 DEF CopiedFaithfully
<1> QED BY <1>4, <1>5, <1>6 DEF IInv

LEMMA InAdvanceStep ==
  ASSUME IInv, InAdvance
  PROVE  IInv'
<1>1. inLen \in 0..Size /\ Used + inLen <= Size /\ inLen <= Avail
  BY UsedType DEF InAdvance, IInv, TypeOK, LengthsStayValid
<1>2. in' \in Counter /\ Used' = Used + inLen
  BY <1>1, UsedType, AddType, AdvanceFront DEF InAdvance, Used
<1>3. Avail' = Avail - inLen
  BY <1>1, <1>2, UsedType DEF Avail
<1>4. TypeOK'
  BY <1>2 DEF InAdvance, IInv, TypeOK, readerVars
<1>5. LengthsStayValid'
  BY <1>1, <1>2, UsedType DEF InAdvance, IInv, TypeOK, LengthsStayValid, readerVars
<1> QED BY <1>4, <1>5, KfifoAssumption
           DEF InAdvance, IInv, TypeOK, CallsWellFormed, LengthsRequested,
               CopiedFaithfully, readerVars

LEMMA OutCallStep ==
  ASSUME IInv, NEW n \in 1..MaxReq, OutCall(n)
  PROVE  IInv'
BY KfifoAssumption
   DEF OutCall, IInv, TypeOK, LengthsStayValid, CallsWellFormed, LengthsRequested,
       CopiedFaithfully, Used, Avail, ringVars, writerVars

LEMMA OutSizeStep ==
  ASSUME IInv, OutSize \/ OutResize
  PROVE  IInv'
<1>1. /\ UNCHANGED <<buffer, in, out, wpc, from, inLen, inAt, need, to, got>>
      /\ Used' = Used /\ Avail' = Avail
  BY DEF OutSize, OutResize, ringVars, writerVars, Used, Avail
<1>2. /\ need \in Nat /\ Avail \in 0..Size /\ Used \in 0..Size /\ Size \in Nat
      /\ to = << >> /\ rpc # "idle"
  BY UsedType, KfifoAssumption
     DEF OutSize, OutResize, IInv, TypeOK, CallsWellFormed
<1>3. /\ rpc' \in {"copy", "resize"}
      /\ MergedReads => rpc' = "copy" /\ outLen' <= need
      /\ rpc' = "copy" => outLen' <= Used
      /\ outLen' \in Nat
  BY <1>2 DEF OutSize, OutResize, Least, IInv, TypeOK, LengthsRequested
<1> QED BY <1>1, <1>2, <1>3 DEF IInv, TypeOK, LengthsStayValid, CallsWellFormed,
                                LengthsRequested, CopiedFaithfully

LEMMA OutCopyStep ==
  ASSUME IInv, OutCopy
  PROVE  IInv'
<1>1. /\ rpc = "copy" /\ Len(to) \in Nat /\ Len(to) < outLen /\ outLen <= Used
      /\ Len(to) \in 0..Size-1 /\ outLen \in Nat
      /\ UNCHANGED <<buffer, in, out, wpc, from, inLen, inAt, rpc, need, outLen, got>>
      /\ Used' = Used /\ Avail' = Avail
  BY UsedType DEF OutCopy, IInv, TypeOK, LengthsStayValid, ringVars, writerVars,
                  Used, Avail
<1>2. buffer[Place(out, Len(to))] \in Byte
  BY <1>1, UsedType, PlaceType DEF IInv, TypeOK
<1>3. /\ to' \in Seq(Byte) /\ Len(to') = Len(to) + 1
      /\ \A i \in 1..Len(to) : to'[i] = to[i]
      /\ to'[Len(to) + 1] = buffer[Place(out, Len(to))]
  BY <1>2 DEF OutCopy, IInv, TypeOK
<1>4. CopiedFaithfully'
  <2>1. ASSUME NEW i \in 0..Len(to')-1
        PROVE  to'[i + 1] = buffer[Place(out, i)]
    BY <1>1, <1>3 DEF IInv, TypeOK, CopiedFaithfully
  <2> QED BY <1>1, <2>1 DEF IInv, CopiedFaithfully
<1> QED BY <1>1, <1>3, <1>4 DEF IInv, TypeOK, LengthsStayValid, CallsWellFormed,
                                LengthsRequested

LEMMA OutAdvanceStep ==
  ASSUME IInv, OutAdvance
  PROVE  IInv'
<1>1. outLen \in 0..Size /\ outLen <= Used
  BY UsedType DEF OutAdvance, IInv, TypeOK, LengthsStayValid
<1>2. out' \in Counter /\ Used' = Used - outLen
  BY <1>1, UsedType, AddType, AdvanceRear DEF OutAdvance, Used
<1>3. Avail' = Avail + outLen
  BY <1>1, <1>2, UsedType DEF Avail
<1>4. TypeOK'
  BY <1>2, KfifoAssumption DEF OutAdvance, IInv, TypeOK, writerVars
<1>5. LengthsStayValid'
  BY <1>1, <1>2, <1>3, UsedType
     DEF OutAdvance, IInv, TypeOK, LengthsStayValid, writerVars
<1> QED BY <1>4, <1>5 DEF OutAdvance, IInv, TypeOK, CallsWellFormed,
                          LengthsRequested, CopiedFaithfully, writerVars

LEMMA ResetOutStep ==
  ASSUME IInv, ResetOut
  PROVE  IInv'
<1>1. Used' = 0 /\ Avail' = Size
  BY UsedType, DistanceType DEF ResetOut, Used, Avail
<1>2. LengthsStayValid'
  BY <1>1, UsedType
     DEF ResetOut, IInv, TypeOK, LengthsStayValid, writerVars, readerVars
<1> QED BY <1>2 DEF ResetOut, IInv, TypeOK, CallsWellFormed, LengthsRequested,
                    CopiedFaithfully, writerVars, readerVars

LEMMA StutterStep ==
  ASSUME IInv, UNCHANGED vars
  PROVE  IInv'
BY DEF vars, IInv, TypeOK, LengthsStayValid, CallsWellFormed, LengthsRequested,
       CopiedFaithfully, Used, Avail

LEMMA NextIInv ==
  ASSUME IInv, [Next]_vars
  PROVE  IInv'
<1>1. CASE Writer
  BY <1>1, InCallStep, InSizeStep, InCopyStep, InAdvanceStep DEF Writer
<1>2. CASE Reader
  BY <1>2, OutCallStep, OutSizeStep, OutCopyStep, OutAdvanceStep, ResetOutStep
     DEF Reader
<1> QED BY <1>1, <1>2, StutterStep DEF Next

THEOREM Invariance == Spec => []IInv
<1>1. IInv /\ [Next]_vars => IInv'
  BY NextIInv
<1> QED BY InitIInv, <1>1, PTL DEF Spec
------------------------------------------------------------------------------
(* TypeOK for every build: the state of both calls stays well typed.       *)
THEOREM TypeCorrect == Spec => []TypeOK
<1>1. IInv => TypeOK
  BY DEF IInv
<1> QED BY Invariance, <1>1, PTL

(* One reader and one writer need no lock: whatever either side did since  *)
(* the other sampled the length, the writer fills free room only and the   *)
(* reader takes stored bytes only.  Holds for both builds.                 *)
THEOREM NoLockNeeded == Spec => []LengthsStayValid
<1>1. IInv => LengthsStayValid
  BY DEF IInv
<1> QED BY Invariance, <1>1, PTL

(* kfifo_out writes at most the requested number of bytes, provided the    *)
(* build folds the two reads of min().                                     *)
THEOREM OutputBounded ==
  ASSUME MergedReads
  PROVE  Spec => []AtMostLen
<1>1. IInv => AtMostLen
  <2> SUFFICES ASSUME IInv PROVE Len(to) <= need
    BY DEF AtMostLen
  <2>1. CASE rpc = "copy"
    BY <2>1 DEF IInv, TypeOK, CallsWellFormed, LengthsRequested
  <2>2. CASE rpc # "copy"
    BY <2>2, KfifoAssumption DEF IInv, TypeOK, CallsWellFormed
  <2> QED BY <2>1, <2>2
<1> QED BY Invariance, <1>1, PTL

(* A stored byte keeps its value and rank until the reader advances.       *)
THEOREM NeverOverwritten == Spec => UnreadNeverOverwritten
<1>1. IInv /\ [Next]_vars => UnreadIsStable \/ UNCHANGED vars
  <2> SUFFICES ASSUME IInv, Next, out' = out PROVE UnreadIsStable
    BY DEF UnreadIsStable
  <2>1. CASE InCopy
    <3>1. inAt \in 0..Avail-1 /\ Used' = Used
      BY <2>1, UsedType DEF InCopy, IInv, TypeOK, LengthsStayValid, Used, readerVars
    <3>2. \A k \in 0..Used-1 : Place(out, k) # Place(in, inAt)
                              /\ Place(out, k) \in Slots
      BY <3>1, WriterSlot, UsedType, PlaceType
    <3> QED BY <2>1, <3>1, <3>2, UsedType DEF InCopy, UnreadIsStable, IInv, TypeOK
  <2>2. CASE InAdvance
    <3>1. inLen \in 0..Size /\ Used + inLen <= Size
      BY <2>2, UsedType DEF InAdvance, IInv, TypeOK, LengthsStayValid
    <3>2. Used' = Used + inLen /\ buffer' = buffer
      BY <2>2, <3>1, UsedType, AdvanceFront DEF InAdvance, Used
    <3> QED BY <3>1, <3>2, UsedType DEF UnreadIsStable
  <2>3. CASE OutAdvance \/ ResetOut
    <3>1. buffer' = buffer /\ in' = in
      BY <2>3 DEF OutAdvance, ResetOut
    <3> QED BY <3>1, UsedType DEF UnreadIsStable, Used
  <2>4. CASE UNCHANGED ringVars
    BY <2>4, UsedType DEF UnreadIsStable, ringVars, Used
  <2> QED
    BY <2>1, <2>2, <2>3, <2>4
       DEF Next, Writer, Reader, InCall, InSize, InResize, OutCall, OutSize,
           OutResize, OutCopy
<1> QED BY Invariance, <1>1, PTL DEF Spec, UnreadNeverOverwritten
------------------------------------------------------------------------------
(* kfifo implements BoundedFifo.                                           *)

LEMMA UnreadType ==
  ASSUME IInv
  PROVE  /\ Unread \in Seq(Byte) /\ Len(Unread) = Used
         /\ \A k \in 1..Used : Unread[k] = buffer[Place(out, k - 1)]
<1>1. Used \in Nat /\ Used <= Size
  BY UsedType
<1>2. \A k \in 1..Used : buffer[Place(out, k - 1)] \in Byte
  <2> SUFFICES ASSUME NEW k \in 1..Used PROVE buffer[Place(out, k - 1)] \in Byte
    OBVIOUS
  <2>1. k - 1 \in 0..Size-1
    BY <1>1, UsedType
  <2> QED BY <2>1, UsedType, PlaceType DEF IInv, TypeOK
<1> QED BY <1>1, <1>2 DEF Unread

(* The queue is a function of the ring alone, and a call in progress that  *)
(* moves no counter leaves it alone.                                       *)
LEMMA UnreadSame ==
  ASSUME IInv, Used' = Used, out' = out,
         \A k \in 0..Used-1 : buffer'[Place(out, k)] = buffer[Place(out, k)]
  PROVE  Unread' = Unread
<1>1. \A k \in 1..Used : k - 1 \in 0..Used-1
  BY UsedType
<1>2. \A k \in 1..Used : buffer'[Place(out, k - 1)] = buffer[Place(out, k - 1)]
  BY <1>1
<1> QED BY <1>2 DEF Unread

LEMMA InAdvanceAccepts ==
  ASSUME MergedReads, IInv, InAdvance
  PROVE  Fifo!Accept(inLen)
<1>1. /\ inLen \in 0..Size /\ Used + inLen <= Size /\ inLen <= Len(from)
      /\ inAt = inLen /\ wpc = "copy" /\ from \in Seq(Byte) /\ from # << >>
      /\ Used \in Nat
  BY UsedType DEF InAdvance, IInv, TypeOK, LengthsStayValid, LengthsRequested,
                  CallsWellFormed
<1>2. /\ Used' = Used + inLen /\ out' = out /\ buffer' = buffer /\ from' = << >>
      /\ need' = need /\ got' = got
  BY <1>1, UsedType, AdvanceFront DEF InAdvance, Used, readerVars
<1>3. Len(Unread) = Used /\ Unread \in Seq(Byte)
  BY UnreadType
<1>4. Unread' = Unread \o SubSeq(from, 1, inLen)
  <2>1. Unread' = [k \in 1..(Used + inLen) |-> buffer[Place(out, k - 1)]]
    BY <1>2 DEF Unread
  <2>2. /\ SubSeq(from, 1, inLen) \in Seq(Byte)
        /\ Len(SubSeq(from, 1, inLen)) = inLen
        /\ \A i \in 1..inLen : SubSeq(from, 1, inLen)[i] = from[i]
    BY <1>1
  <2> DEFINE t == SubSeq(from, 1, inLen)
             u == Unread \o t
  <2>3. /\ u = [k \in 1..(Used + inLen) |-> IF k <= Used THEN Unread[k]
                                                       ELSE t[k - Used]]
    BY <1>1, <1>3, <2>2
  <2>4. ASSUME NEW k \in 1..(Used + inLen)
        PROVE  buffer[Place(out, k - 1)] = IF k <= Used THEN Unread[k]
                                                       ELSE t[k - Used]
    <3>1. CASE k <= Used
      BY <1>1, <2>4, <3>1, UnreadType
    <3>2. CASE ~(k <= Used)
      <4>1. /\ k - Used \in 1..inLen /\ k - Used - 1 \in 0..inAt-1
            /\ k - Used - 1 \in 0..Size-1 /\ Used + (k - Used - 1) = k - 1
            /\ Used + (k - Used - 1) < Size
            /\ k - Used - 1 < Len(from)
        BY <1>1, <2>4, <3>2, UsedType DEF IInv, TypeOK
      <4>2. Place(in, k - Used - 1) = Place(out, k - 1)
        BY <4>1, UsedType, PlaceAdd
      <4>3. buffer[Place(in, k - Used - 1)] = from[k - Used - 1 + 1]
        BY <1>1, <4>1 DEF IInv, CopiedFaithfully
      <4>4. k - Used - 1 + 1 = k - Used
        BY <1>1, <2>4
      <4> QED BY <2>2, <3>2, <4>1, <4>2, <4>3, <4>4
    <3> QED BY <3>1, <3>2
  <2>5. Unread' = u
    <3> HIDE DEF t, u
    <3> QED BY <2>1, <2>3, <2>4
  <2> QED BY <2>5
<1> QED BY <1>1, <1>2, <1>3, <1>4 DEF Fifo!Accept

LEMMA OutAdvanceHandsOver ==
  ASSUME MergedReads, IInv, OutAdvance
  PROVE  Fifo!HandOver(outLen)
<1>1. /\ outLen \in 0..Size /\ outLen <= Used /\ outLen <= need /\ need # 0
      /\ Len(to) = outLen /\ rpc = "copy" /\ to \in Seq(Byte) /\ Used \in Nat
  BY UsedType DEF OutAdvance, IInv, TypeOK, LengthsStayValid, LengthsRequested,
                  CallsWellFormed
<1>2. /\ Used' = Used - outLen /\ out' = Add(out, outLen) /\ buffer' = buffer
      /\ got' = to /\ need' = 0 /\ from' = from
  BY <1>1, UsedType, AdvanceRear DEF OutAdvance, Used, writerVars
<1>3. /\ Len(Unread) = Used /\ Unread \in Seq(Byte)
      /\ \A k \in 1..Used : Unread[k] = buffer[Place(out, k - 1)]
  BY UnreadType
<1>4. to = SubSeq(Unread, 1, outLen)
  <2>1. /\ SubSeq(Unread, 1, outLen) \in Seq(Byte)
        /\ Len(SubSeq(Unread, 1, outLen)) = outLen
        /\ \A k \in 1..outLen : SubSeq(Unread, 1, outLen)[k] = Unread[k]
    BY <1>1, <1>3
  <2>2. ASSUME NEW k \in 1..outLen PROVE to[k] = Unread[k]
    <3>1. k - 1 \in 0..Len(to)-1 /\ k - 1 + 1 = k /\ k \in 1..Used
      BY <1>1, <2>2
    <3>2. to[k] = buffer[Place(out, k - 1)]
      BY <1>1, <3>1 DEF IInv, CopiedFaithfully
    <3> QED BY <1>3, <3>1, <3>2
  <2> QED BY <1>1, <2>1, <2>2
<1>5. Unread' = SubSeq(Unread, outLen + 1, Len(Unread))
  <2>1. Unread' = [k \in 1..(Used - outLen) |-> buffer[Place(Add(out, outLen), k - 1)]]
    BY <1>2 DEF Unread
  <2>2. SubSeq(Unread, outLen + 1, Len(Unread))
          = [k \in 1..(Used - outLen) |-> Unread[k + outLen]]
    BY <1>1, <1>3
  <2>3. ASSUME NEW k \in 1..(Used - outLen)
        PROVE  buffer[Place(Add(out, outLen), k - 1)] = Unread[k + outLen]
    <3>1. /\ k - 1 \in 0..Size-1 /\ outLen + (k - 1) < Size
          /\ k + outLen \in 1..Used /\ outLen + (k - 1) = (k + outLen) - 1
      BY <1>1, <2>3, UsedType
    <3>2. Place(Add(out, outLen), k - 1) = Place(out, (k + outLen) - 1)
      BY <1>1, <3>1, UsedType, PlaceAdd
    <3> DEFINE j == k + outLen
    <3>3. Unread[j] = buffer[Place(out, j - 1)]
      <4>1. j \in 1..Used
        BY <3>1
      <4> HIDE DEF j
      <4> QED BY <4>1, UnreadType
    <3> QED BY <3>2, <3>3
  <2> QED BY <2>1, <2>2, <2>3
<1> QED BY <1>1, <1>2, <1>3, <1>4, <1>5 DEF Fifo!HandOver
LEMMA StepRefines ==
  ASSUME MergedReads, IInv, [Next]_vars
  PROVE  [Fifo!Next]_(Fifo!fifoVars)
<1>1. ASSUME NEW s \in Requests, InCall(s)
      PROVE  Fifo!Next
  <2>1. Unread' = Unread /\ from = << >>
    BY <1>1 DEF InCall, IInv, CallsWellFormed, Unread, Used, ringVars
  <2>2. Fifo!Offer(s)
    BY <1>1, <2>1 DEF InCall, Fifo!Offer, readerVars
  <2> QED BY <2>2 DEF Fifo!Next, Fifo!Requests, Requests
<1>2. ASSUME NEW n \in 1..MaxReq, OutCall(n)
      PROVE  Fifo!Next
  <2>1. Unread' = Unread /\ need = 0
    BY <1>2 DEF OutCall, IInv, CallsWellFormed, Unread, Used, ringVars
  <2>2. Fifo!Ask(n)
    BY <1>2, <2>1 DEF OutCall, Fifo!Ask, writerVars
  <2> QED BY <2>2 DEF Fifo!Next
<1>3. CASE InCopy
  <2>1. inAt \in 0..Avail-1 /\ Used' = Used /\ out' = out
    BY <1>3, UsedType DEF InCopy, IInv, TypeOK, LengthsStayValid, Used, readerVars
  <2>2. \A k \in 0..Used-1 : Place(out, k) # Place(in, inAt)
                            /\ Place(out, k) \in Slots
    BY <2>1, WriterSlot, UsedType, PlaceType
  <2>3. Unread' = Unread
    BY <1>3, <2>1, <2>2, UnreadSame DEF InCopy, IInv, TypeOK
  <2> QED BY <1>3, <2>3 DEF InCopy, readerVars, Fifo!fifoVars
<1>4. CASE InAdvance
  <2>1. inLen \in 0..MaxIn
    <3>1. wpc = "copy" /\ inLen <= Len(from) /\ inLen \in Nat
      BY <1>4 DEF InAdvance, IInv, TypeOK, LengthsRequested
    <3> QED BY <3>1, KfifoAssumption DEF IInv, TypeOK, CallsWellFormed
  <2> QED BY <1>4, <2>1, InAdvanceAccepts DEF Fifo!Next
<1>5. CASE OutAdvance
  <2>1. outLen \in 0..MaxReq
    BY <1>5, KfifoAssumption DEF OutAdvance, IInv, TypeOK, LengthsRequested
  <2> QED BY <1>5, <2>1, OutAdvanceHandsOver DEF Fifo!Next
<1>6. CASE ResetOut
  <2>1. Used' = 0 /\ need = 0
    BY <1>6, UsedType, DistanceType DEF ResetOut, Used, IInv, CallsWellFormed
  <2>2. Unread' = << >>
    BY <2>1 DEF Unread
  <2> QED BY <1>6, <2>1, <2>2 DEF ResetOut, Fifo!Next, Fifo!Skip, writerVars, readerVars
<1>7. CASE InSize \/ InResize \/ OutSize \/ OutResize \/ OutCopy \/ UNCHANGED vars
  <2>1. UNCHANGED <<buffer, in, out, from, need, got>>
    BY <1>7 DEF InSize, InResize, OutSize, OutResize, OutCopy, vars, ringVars,
                writerVars, readerVars
  <2> QED BY <2>1 DEF Fifo!fifoVars, Unread, Used
<1> QED BY <1>1, <1>2, <1>3, <1>4, <1>5, <1>6, <1>7 DEF Next, Writer, Reader

(* For every ring: as built (MergedReads), Kfifo implements BoundedFifo.   *)
THEOREM Refinement ==
  ASSUME MergedReads
  PROVE  Spec => FifoSpec
<1>1. Init => Fifo!Init
  <2> SUFFICES ASSUME Init PROVE Fifo!Init
    OBVIOUS
  <2>1. Used = 0
    BY InitIInv, UsedType, DistanceType DEF Used, Init
  <2> QED BY <2>1 DEF Init, Fifo!Init, Unread
<1>2. IInv /\ [Next]_vars => [Fifo!Next]_(Fifo!fifoVars)
  BY StepRefines
<1> QED BY <1>1, <1>2, Invariance, PTL DEF Spec, FifoSpec, Fifo!Spec
==============================================================================
