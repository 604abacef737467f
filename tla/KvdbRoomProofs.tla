--------------------------- MODULE KvdbRoomProofs ----------------------------
(***************************************************************************)
(* Proofs that the log of Kvdb never runs out of room, and that the        *)
(* assertion in read_sector_info fails only where the next start helps,    *)
(* for every set of keys and values, every size of a sector and any number *)
(* of power cuts the sectors leave room for.                               *)
(*                                                                         *)
(* The invariant RoomInv has three layers: ShapeInv says how the sectors,  *)
(* the recovery and the collector fit together, ContentInv counts the      *)
(* records with the help of it, and NoCutInv says what cannot be as long   *)
(* as no operation was cut off, with the help of both.                     *)
(***************************************************************************)
EXTENDS KvdbProofs, FiniteSetTheorems

------------------------------------------------------------------------------
(* The invariant.                                                          *)

InUse(s) == flash[s].store \in {"USING", "FULL"}
Clean(s) == flash[s].dirty = "FALSE"
In(s, q) == \E i \in 1..Len(q) : q[i] = s

(* A sector is being emptied by the collector.                             *)
Collecting == gc.for # "none" /\ pc \notin {"gc", "gcnext", "header"}

(* The steps of create_kv_blob; before them the sector is found that the   *)
(* record goes to.                                                         *)
Creating == pc \in {"status", "prewrite", "data", "write"}
Placed == /\ gc.for = "none"
          /\ \/ pc \in {"predelete", "predirty", "status"}
             \/ pc = "find" /\ req.val # None

(* One sector is in use, but for one that is being emptied.                *)
LayoutInv ==
    \A s \in Sectors :
       /\ ~flash[s].ok => flash[s] = Erased
       /\ flash[s].ok => flash[s].store # "UNUSED" /\ flash[s].dirty # "UNUSED"
       /\ flash[s].store = "EMPTY" => Clean(s)
       /\ flash[s].dirty = "GC" => Clean(1 - s)
       /\ InUse(s) /\ InUse(1 - s) =>
             flash[s].dirty = "GC" \/ flash[1 - s].dirty = "GC"

(* Which sectors have a header, and which of those no record.              *)
FormatInv ==
    /\ phase = "format" => \A s \in Sectors :
          /\ flash[s].ok \/ In(s, todo)
          /\ In(s, todo) \/ missing # {} => flash[s] \in {Erased, Formatted}
          /\ todo # << >> => flash[s].dirty # "GC"
    /\ phase = "default" => \A s \in Sectors : Clean(s)
    /\ phase \in {"gccheck", "kvcheck", "run"} => \A s \in Sectors :
          flash[s].ok \/ (pc = "header" /\ s = gc.sec)
    /\ pc = "header" /\ phase # "format" => Clean(1 - gc.sec)

(* A sector is marked for collection while it is collected, or until the   *)
(* recovery comes to it.                                                   *)
MarkedInv ==
    /\ Collecting => flash[gc.sec].dirty = "GC"
    /\ phase \in {"kvcheck", "run"} /\ ~Collecting =>
          \A s \in Sectors : flash[s].dirty # "GC"
    /\ phase = "gccheck" => \A s \in Sectors :
          flash[s].dirty = "GC" =>
             \/ In(s, scan.rest)
             \/ /\ gc.for # "none"
                /\ \/ pc = "gc"
                   \/ pc = "gcnext" /\ In(s, gc.rest)
                   \/ Collecting /\ gc.sec = s
    /\ oldest = None \/ phase = "halted" =>
          \A s \in Sectors : flash[s].ok /\ flash[s].dirty # "GC"

(* How far the collector is.  When the last sector of a traversal was      *)
(* collected there is no oldest sector, and the collector is done.         *)
WalkInv ==
    /\ pc = "gc" => gc.trav = 0
    /\ gc.for # "none" /\ pc # "gc" =>
          gc.rest = << >> \/ Len(gc.rest) + gc.trav = 2
    /\ pc = "gcnext" => \A s \in Sectors : In(s, gc.rest) \/ Clean(s)
    /\ gc.for # "none" => gcRequest
    /\ gcRequest => \/ gc.for # "none"
                    \/ phase = "run" /\ pc = "endset"
                    \/ phase = "run" /\ pc \in {"delete", "dirty"} /\ req.val # None
                    \/ pc = "kvend"
    /\ alreadyGc => gc.for = "new" \/ (pc = "new" /\ \A s \in Sectors : Clean(s))
    /\ oldest = None =>
          /\ phase \notin {"off", "default"}
          /\ gc.for # "none" => pc \in {"gc", "gcnext"}
          /\ pc = "gcnext" => gc.rest = << >>
          /\ phase = "kvcheck" => pc \in {"kvstart", "gc", "gcnext"}

(* Where the record is that is moved, and where its copy goes.             *)
AimInv ==
    /\ gc.for # "none" /\ src # None => src[1] = gc.sec
    /\ gc.for # "none" /\ Creating => put.to = 1 - gc.sec
    /\ Placed => InUse(put.to) \/ Empty = Sectors
    /\ pc \in {"prewrite", "data", "write"} => InUse(put.to)
    /\ pc \in {"predelete", "predirty"} => gc.for # "none" \/ phase = "run"
    /\ phase = "run" /\ gc.for = "none" /\ Creating =>
          /\ req.val # None
          /\ src # None => ~Clean(src[1])

ShapeInv == LayoutInv /\ FormatInv /\ MarkedInv /\ WalkInv /\ AimInv

(* The records in force or about to be replaced, and the keys with one.    *)
Live == {a \in Addresses : At(a).ok /\ At(a).st \in {"WRITE", "PRE_DELETE"}}
Held == {k \in Keys : Current(k) # {}}
HeldIn(s) == {k \in Keys : \E a \in Current(k) : a[1] = s}

(* The cached address of a key leads to no unfinished record but the one   *)
(* that is being written.                                                  *)
CacheInv == \A k \in Keys : Hit(k) =>
    At(cache[k]).st # "PRE_WRITE" \/ (pc = "write" /\ cache[k] = Last)

(* The status of the record that is replaced, moved or deleted.            *)
StatusInv == src # None =>
    /\ src \in Live <=> pc # "dirty"
    /\ pc \in {"predirty", "movealloc"} \/ Creating => At(src).st = "PRE_DELETE"

(* A default is created for a key without a value, in a clean sector.      *)
DefaultInv ==
    /\ phase \in {"off", "format", "default"} => ~put.full
    /\ phase = "default" =>
          /\ \A k \in missing : Current(k) = {}
          /\ pc # "default" => /\ req.key \in Keys \ missing
                               /\ Current(req.key) = {}

(* The record being written is the only one of its key in force, but for   *)
(* the one that it replaces.                                               *)
KeyInv ==
    /\ gc.for = "none" /\ (pc = "new" \/ (pc = "find" /\ req.val # None))
          => put.key = req.key
    /\ Placed /\ src # None => At(src).key = put.key
    /\ Creating =>
          /\ phase = "default" => put.key = req.key
          /\ src # None => At(src).key = put.key
          /\ Current(put.key) = {} \/ (phase = "run" /\ src # None)

(* Every live record but one for each key was left by a cut, but for the   *)
(* one that is being moved or replaced.                                    *)
Extra == IF /\ src # None
            /\ At(src).st = "PRE_DELETE"
            /\ gc.for # "none" \/ phase # "kvcheck"
            /\ pc = "delete" \/ Current(At(src).key) = {}
         THEN 1 ELSE 0
LiveInv == Cardinality(Live) <= Cardinality(Held) + cuts + Extra

(* A clean sector holds one record for a key, and what the cuts left.      *)
Unfinished(s) == IF \/ /\ pc \in {"predirty", "dirty"}
                       /\ gc.for = "none"
                       /\ src[1] = s
                    \/ pc \in {"data", "write"} /\ put.to = s
                 THEN 1 ELSE 0
CleanInv == \A s \in Sectors : Clean(s) =>
    /\ flash[s].store # "FULL"
    /\ Len(flash[s].kv) <= Cardinality(HeldIn(s)) + cuts + Unfinished(s)
    /\ InUse(s) /\ flash[s].kv = << >> =>
          cuts > 0 \/ (pc = "prewrite" /\ put.to = s)

(* The collection of a call starts with an empty sector, ...               *)
CopyInv == Collecting /\ gc.for \in {"new", "set"} =>
    \A a \in Addresses : a[1] = 1 - gc.sec =>
       \/ At(a).ok /\ At(a).st = "WRITE"
       \/ a = Last /\ pc \in {"data", "write"}

(* ... and no collection passes over a live record.                        *)
GatherInv == Collecting => \A a \in Live :
    a[1] = gc.sec => a = src \/ (pc # "erase" /\ a[2] >= gc.at)

ContentInv == /\ pc # "full"
              /\ CacheInv /\ StatusInv /\ DefaultInv /\ KeyInv
              /\ LiveInv /\ CleanInv /\ CopyInv /\ GatherInv

(* No record is being written, replaced, moved or deleted.                 *)
Resting == pc \notin {"predelete", "predirty", "movealloc", "delete", "dirty"}
           /\ ~Creating

(* As long as no operation was cut off only the oldest sector is in use,   *)
(* the recovery has nothing to do, and no record is left behind that was   *)
(* about to be replaced.                                                   *)
PowerQuiet ==
    /\ oldest # None
    /\ phase # "halted" /\ pc # "halted"
    /\ phase = "off" => \A s \in Sectors : flash[s].ok <=> flash[1 - s].ok
    /\ phase = "default" \/ (phase = "format" /\ missing # {}) => oldest = 0
RecoveryQuiet ==
    /\ \A a \in Addresses : At(a).st = "PRE_DELETE" => a = src /\ phase = "run"
    /\ phase # "run" => /\ src = None
                        /\ \A s \in Sectors : flash[s].dirty # "GC"
    /\ phase \in {"gccheck", "kvcheck"} => gc.for = "none" /\ ~gcRequest
OldestQuiet ==
    /\ Placed => put.to = oldest
    /\ IF Collecting \/ (pc = "header" /\ phase # "format")
       THEN gc.sec = oldest /\ gc.trav = 1
       ELSE phase # "off" => \A s \in Sectors : InUse(s) => s = oldest
    /\ pc = "gcnext" => \/ gc.rest = << >>
                        \/ gc.rest = Order /\ gc.trav = 0
                        \/ gc.rest = <<1 - oldest>>
NoCutInv == cuts = 0 => PowerQuiet /\ RecoveryQuiet /\ OldestQuiet

RoomInv == ShapeInv /\ ContentInv /\ NoCutInv
------------------------------------------------------------------------------
(* Sectors and the queues of sectors.                                      *)

LEMMA Other ==
  ASSUME NEW s \in Sectors
  PROVE  /\ 1 - s \in Sectors /\ 1 - s # s /\ 1 - (1 - s) = s
         /\ \A t \in Sectors : t = s \/ t = 1 - s
BY DEF Sectors

LEMMA InQueue ==
  ASSUME NEW s \in Sectors, NEW q \in Seq(Sectors), q # << >>
  PROVE  /\ In(s, q) <=> s = Head(q) \/ In(s, Tail(q))
         /\ Len(Tail(q)) = Len(q) - 1
<1>1. /\ Len(q) \in Nat /\ Len(q) >= 1 /\ Head(q) = q[1]
      /\ Len(Tail(q)) = Len(q) - 1
      /\ \A i \in 1..Len(Tail(q)) : Tail(q)[i] = q[i + 1]
  BY HeadTailProperties, EmptySeq, LenProperties
<1>2. ASSUME In(s, q)
      PROVE  s = Head(q) \/ In(s, Tail(q))
  <2>1. PICK i \in 1..Len(q) : q[i] = s
    BY <1>2 DEF In
  <2>2. CASE i = 1
    BY <1>1, <2>1, <2>2
  <2>3. CASE i # 1
    <3>1. i - 1 \in 1..Len(Tail(q)) /\ Tail(q)[i - 1] = s
      BY <1>1, <2>1, <2>3
    <3> QED BY <3>1 DEF In
  <2> QED BY <2>2, <2>3
<1>3. ASSUME s = Head(q)
      PROVE  In(s, q)
  BY <1>1, <1>3 DEF In
<1>4. ASSUME In(s, Tail(q))
      PROVE  In(s, q)
  <2>1. PICK i \in 1..Len(Tail(q)) : Tail(q)[i] = s
    BY <1>4 DEF In
  <2>2. i + 1 \in 1..Len(q) /\ q[i + 1] = s
    BY <1>1, <2>1
  <2> QED BY <2>2 DEF In
<1> QED BY <1>1, <1>2, <1>3, <1>4

LEMMA InFacts ==
  ASSUME NEW s \in Sectors
  PROVE  /\ ~In(s, << >>)
         /\ In(s, <<0, 1>>) /\ In(s, <<0, 1, 0, 1>>)
         /\ \A t \in Sectors : In(s, <<t>>) <=> s = t
         /\ oldest \in Sectors =>
               /\ In(s, Order) /\ Len(Order) = 2 /\ Order # << >>
               /\ Head(Order) = oldest /\ Tail(Order) = <<1 - oldest>>
<1>1. s = 0 \/ s = 1
  BY DEF Sectors
<1>2. ~In(s, << >>)
  BY DEF In
<1>3. In(s, <<0, 1>>)
  BY <1>1 DEF In
<1>4. In(s, <<0, 1, 0, 1>>)
  BY <1>1 DEF In
<1>5. \A t \in Sectors : In(s, <<t>>) <=> s = t
  BY DEF In
<1>6. ASSUME oldest \in Sectors
      PROVE  /\ In(s, Order) /\ Len(Order) = 2 /\ Order # << >>
             /\ Head(Order) = oldest /\ Tail(Order) = <<1 - oldest>>
  <2>1. s = oldest \/ s = 1 - oldest
    BY <1>6, Other
  <2> QED BY <2>1 DEF In, Order
<1> QED BY <1>2, <1>3, <1>4, <1>5, <1>6

(* alloc_kv takes a sector in use before an empty one.                     *)
LEMMA AllocKind ==
  ASSUME TypeOK, oldest # None, NEW g, Alloc(g) # None
  PROVE  /\ Alloc(g) \in Sectors /\ flash[Alloc(g)].ok
         /\ \/ flash[Alloc(g)].store = "USING"
            \/ flash[Alloc(g)].store = "EMPTY" /\ (Empty = Sectors \/ g)
         /\ g => flash[Alloc(g)].dirty # "TRUE" \/ flash[Alloc(g)].store = "EMPTY"
         /\ flash[Alloc(g)].dirty # "GC" \/ flash[Alloc(g)].store = "EMPTY"
<1>1. oldest \in Sectors
  BY DEF TypeOK
<1>2. Usable(g) \in SUBSET Sectors /\ Empty \in SUBSET Sectors
  BY DEF Usable, Empty
<1>3. CASE Usable(g) # {}
  <2>1. Alloc(g) \in Usable(g)
    BY <1>1, <1>2, <1>3, FirstIn DEF Alloc
  <2> QED BY <2>1 DEF Usable
<1>4. CASE Usable(g) = {}
  <2>1. Empty # {} /\ Alloc(g) = First(Empty) /\ (Empty = Sectors \/ g)
    BY <1>4 DEF Alloc
  <2>2. Alloc(g) \in Empty
    BY <2>1, <1>1, <1>2, FirstIn
  <2> QED BY <2>1, <2>2 DEF Empty
<1> QED BY <1>3, <1>4

------------------------------------------------------------------------------
(* What each step does to flash.                                           *)

LEMMA Elsewhere ==
  ASSUME TypeOK, NEW a \in Addresses, NEW r, flash' = Mark(a, r)
  PROVE  \A s \in Sectors : s # a[1] => flash'[s] = flash[s]
BY DEF TypeOK, Mark

LEMMA UpdateSecStatusEffect ==
  ASSUME IInv, UpdateSecStatus
  PROVE  /\ put.to \in Sectors /\ flash[put.to].store \in {"EMPTY", "USING"}
         /\ \A s \in Sectors : /\ flash'[s].ok = flash[s].ok
                               /\ flash'[s].dirty = flash[s].dirty
                               /\ flash'[s].kv = flash[s].kv
         /\ \A s \in Sectors : s # put.to => flash'[s] = flash[s]
         /\ flash'[put.to].store =
               IF flash[put.to].store = "USING" /\ Remain(put.to) - 1 < Reserve
               THEN "FULL" ELSE "USING"
         /\ put'.to = put.to /\ put'.key = put.key /\ put'.val = put.val
<1>1. put.to \in Sectors /\ flash[put.to].store \in {"EMPTY", "USING"}
  BY DEF UpdateSecStatus, IInv, PutInv, Room
<1>2. flash[put.to] \in Sector /\ flash \in [Sectors -> Sector]
  BY <1>1, SectorType DEF IInv, TypeOK
<1>3. put'.to = put.to /\ put'.key = put.key /\ put'.val = put.val
  BY TypeParts DEF UpdateSecStatus, IInv, CallType
<1> DEFINE fills == flash[put.to].store = "USING" /\ Remain(put.to) - 1 < Reserve
           st == IF fills THEN "FULL" ELSE "USING"
<1>4. flash' = [flash EXCEPT ![put.to].store = st]
  BY DEF UpdateSecStatus
<1> HIDE DEF st
<1>5. \A s \in Sectors : flash'[s] = IF s = put.to THEN [flash[s] EXCEPT !.store = st]
                                                 ELSE flash[s]
  BY <1>1, <1>2, <1>4
<1>6. flash'[put.to].store = st
  BY <1>1, <1>2, <1>5 DEF Sector
<1>7. ASSUME NEW s \in Sectors
      PROVE  /\ flash'[s].ok = flash[s].ok /\ flash'[s].dirty = flash[s].dirty
             /\ flash'[s].kv = flash[s].kv
  BY <1>2, <1>5 DEF Sector
<1> QED BY <1>1, <1>3, <1>5, <1>6, <1>7 DEF st

LEMMA PreWriteEffect ==
  ASSUME IInv, PreWrite
  PROVE  /\ put.to \in Sectors /\ put.to = put'.to
         /\ \A s \in Sectors : /\ flash'[s].ok = flash[s].ok
                               /\ flash'[s].store = flash[s].store
                               /\ flash'[s].dirty = flash[s].dirty
         /\ \A s \in Sectors : s # put.to => flash'[s] = flash[s]
         /\ Len(flash'[put.to].kv) = Len(flash[put.to].kv) + 1
         /\ Addresses' = Addresses \cup {Last'} /\ Last' \notin Addresses
         /\ \A a \in Addresses : flash'[a[1]].kv[a[2]] = At(a)
         /\ flash'[Last'[1]].kv[Last'[2]] = Blank("PRE_WRITE")
<1> DEFINE x == put.to
           kv == Append(flash[x].kv, Blank("PRE_WRITE"))
<1>1. /\ x \in Sectors /\ put'.to = x
      /\ flash' = [flash EXCEPT ![x].kv = kv]
  BY DEF PreWrite, IInv, PutInv, Room, frames
<1>2. /\ flash \in [Sectors -> Sector] /\ flash[x] \in Sector
      /\ flash[x].kv \in Seq(Record) /\ Len(flash[x].kv) \in Nat
      /\ DOMAIN flash[x].kv = 1..Len(flash[x].kv)
  BY <1>1, SectorType DEF IInv, TypeOK
<1>3. Blank("PRE_WRITE") \in Record
  BY DEF Record
<1>4. /\ kv \in Seq(Record) /\ Len(kv) = Len(flash[x].kv) + 1
      /\ kv[Len(flash[x].kv) + 1] = Blank("PRE_WRITE")
      /\ \A i \in 1..Len(flash[x].kv) : kv[i] = flash[x].kv[i]
      /\ DOMAIN kv = 1..Len(kv)
  BY <1>2, <1>3, AppendProperties, LenProperties
<1> HIDE DEF kv
<1>5. \A s \in Sectors : flash'[s] = IF s = x THEN [flash[s] EXCEPT !.kv = kv]
                                            ELSE flash[s]
  BY <1>1, <1>2
<1>6. ASSUME NEW s \in Sectors
      PROVE  /\ flash'[s].ok = flash[s].ok /\ flash'[s].store = flash[s].store
             /\ flash'[s].dirty = flash[s].dirty
             /\ flash'[s].kv = IF s = x THEN kv ELSE flash[s].kv
  BY <1>2, <1>5, SectorType DEF IInv, Sector
<1>7. Last' = <<x, Len(flash[x].kv) + 1>>
  BY <1>1, <1>4, <1>6 DEF Last
<1>8. Last' \notin Addresses
  BY <1>2, <1>7, OfAddress DEF IInv
<1>9. Addresses' = Addresses \cup {Last'}
  <2>1. ASSUME NEW a \in Addresses'
        PROVE  a \in Addresses \cup {Last'}
    <3>1. PICK s \in Sectors : a \in {s} \X DOMAIN flash'[s].kv
      BY DEF Addresses
    <3>2. CASE s = x
      <4>1. a = <<x, a[2]>> /\ a[2] \in 1..(Len(flash[x].kv) + 1)
        BY <1>4, <1>6, <3>1, <3>2
      <4>2. a[2] \in 1..Len(flash[x].kv) \/ a[2] = Len(flash[x].kv) + 1
        BY <1>2, <4>1
      <4> QED BY <1>1, <1>2, <1>7, <4>1, <4>2, InAddresses DEF IInv
    <3>3. CASE s # x
      BY <1>6, <3>1, <3>3 DEF Addresses
    <3> QED BY <3>2, <3>3
  <2>2. Last' \in Addresses'
    <3>1. Last' \in {x} \X DOMAIN flash'[x].kv
      BY <1>1, <1>2, <1>4, <1>6, <1>7
    <3> QED BY <1>1, <3>1 DEF Addresses
  <2>3. ASSUME NEW a \in Addresses
        PROVE  a \in Addresses'
    <3>1. PICK s \in Sectors : a \in {s} \X DOMAIN flash[s].kv
      BY DEF Addresses
    <3>2. DOMAIN flash[s].kv \subseteq DOMAIN flash'[s].kv
      BY <1>2, <1>4, <1>6
    <3> QED BY <3>1, <3>2 DEF Addresses
  <2> QED BY <2>1, <2>2, <2>3
<1>10. ASSUME NEW a \in Addresses
       PROVE  flash'[a[1]].kv[a[2]] = At(a)
  <2>1. a[1] \in Sectors /\ a[2] \in 1..Len(flash[a[1]].kv)
    BY OfAddress DEF IInv
  <2> QED BY <1>4, <1>6, <2>1 DEF At
<1>11. flash'[Last'[1]].kv[Last'[2]] = Blank("PRE_WRITE")
  BY <1>1, <1>4, <1>6, <1>7
<1> QED BY <1>1, <1>4, <1>5, <1>6, <1>8, <1>9, <1>10, <1>11

(* The record of each of the steps that write one.                         *)
LEMMA WriteDataEffect ==
  ASSUME IInv, WriteData
  PROVE  /\ Last \in Addresses /\ Last' = Last /\ Last[1] = put.to
         /\ At(Last) = Blank("PRE_WRITE")
         /\ \E r \in Whole : /\ flash' = Mark(Last, r)
                             /\ r.st = "PRE_WRITE" /\ r.key = put.key
<1>1. /\ put.to \in Sectors /\ Len(flash[put.to].kv) > 0 /\ Ready
      /\ At(Last) = Blank("PRE_WRITE") /\ UNCHANGED put
  BY DEF WriteData, IInv, PutInv, frames
<1>2. Last \in Addresses /\ Last[1] = put.to
  BY <1>1, LastAddress DEF IInv
<1> DEFINE r == [st |-> "PRE_WRITE", ok |-> TRUE, key |-> put.key, val |-> put.val]
<1>3. r \in Whole /\ r.st = "PRE_WRITE" /\ r.key = put.key
  BY <1>1 DEF Whole, Statuses, Ready
<1>4. flash' = Mark(Last, r)
  BY DEF WriteData
<1> HIDE DEF r
<1>5. Last' = Last
  BY <1>1, <1>2, <1>3, <1>4, MarkFacts DEF IInv, Record, Last
<1> QED BY <1>1, <1>2, <1>3, <1>4, <1>5

LEMMA CommitWriteEffect ==
  ASSUME IInv, CommitWrite
  PROVE  /\ Last \in Addresses /\ Last[1] = put.to /\ put.key \in Keys
         /\ At(Last).ok /\ At(Last).st = "PRE_WRITE" /\ At(Last).key = put.key
         /\ \E r \in Whole : /\ flash' = Mark(Last, r)
                             /\ r.st = "WRITE" /\ r.key = put.key
<1>1. /\ put.to \in Sectors /\ Len(flash[put.to].kv) > 0 /\ Ready
      /\ At(Last) = [st |-> "PRE_WRITE", ok |-> TRUE, key |-> put.key, val |-> put.val]
  BY DEF CommitWrite, IInv, PutInv
<1>2. Last \in Addresses /\ Last[1] = put.to
  BY <1>1, LastAddress DEF IInv
<1> DEFINE r == [At(Last) EXCEPT !.st = "WRITE"]
<1>3. r \in Whole /\ r.st = "WRITE" /\ r.key = put.key
  <2>1. At(Last) \in Whole /\ At(Last).key = put.key
    BY <1>1 DEF Ready, Whole, Statuses
  <2> QED BY <2>1 DEF Whole, Statuses
<1>4. flash' = Mark(Last, r)
  BY DEF CommitWrite
<1> HIDE DEF r
<1>5. At(Last).ok /\ At(Last).st = "PRE_WRITE" /\ At(Last).key = put.key
  BY <1>1
<1> QED BY <1>1, <1>2, <1>3, <1>4, <1>5 DEF Ready

LEMMA PreDeleteEffect ==
  ASSUME IInv, PreDelete
  PROVE  /\ src \in Addresses /\ At(src) \in Whole /\ UNCHANGED src
         /\ \E r \in Whole : /\ flash' = Mark(src, r)
                             /\ r.st = "PRE_DELETE" /\ r.key = At(src).key
<1>1. src \in Addresses /\ At(src) \in Whole /\ UNCHANGED src
  BY TypeParts DEF PreDelete, IInv, SrcInv, SrcType, frames
<1> DEFINE r == [At(src) EXCEPT !.st = "PRE_DELETE"]
<1>2. r \in Whole /\ r.st = "PRE_DELETE" /\ r.key = At(src).key
  BY <1>1 DEF Whole, Statuses
<1>3. flash' = Mark(src, r)
  BY DEF PreDelete
<1> HIDE DEF r
<1> QED BY <1>1, <1>2, <1>3

LEMMA DeleteEffect ==
  ASSUME IInv, Delete
  PROVE  /\ src \in Addresses /\ UNCHANGED src
         /\ Dead \in Record /\ flash' = Mark(src, Dead)
BY TypeParts DEF Delete, IInv, SrcInv, SrcType, frames, Record

LEMMA MarkDirtyEffect ==
  ASSUME IInv, MarkDirty
  PROVE  /\ src \in Addresses /\ src[1] \in Sectors
         /\ \A s \in Sectors : /\ flash'[s].ok = flash[s].ok
                               /\ flash'[s].store = flash[s].store
                               /\ flash'[s].kv = flash[s].kv
         /\ \A s \in Sectors : s # src[1] => flash'[s] = flash[s]
         /\ flash'[src[1]].dirty = IF Clean(src[1]) THEN "TRUE" ELSE flash[src[1]].dirty
<1>1. src \in Addresses /\ src[1] \in Sectors
  BY TypeParts, OfAddress DEF MarkDirty, IInv, SrcInv, SrcType
<1> DEFINE d == IF flash[src[1]].dirty = "FALSE" THEN "TRUE" ELSE flash[src[1]].dirty
<1>2. flash' = [flash EXCEPT ![src[1]].dirty = d] /\ flash \in [Sectors -> Sector]
  BY DEF MarkDirty, IInv, TypeOK
<1>3. d = IF Clean(src[1]) THEN "TRUE" ELSE flash[src[1]].dirty
  BY DEF Clean
<1> HIDE DEF d
<1>4. \A s \in Sectors : flash'[s] = IF s = src[1] THEN [flash[s] EXCEPT !.dirty = d]
                                                 ELSE flash[s]
  BY <1>1, <1>2
<1>5. flash'[src[1]].dirty = d
  BY <1>1, <1>2, <1>4 DEF Sector
<1>6. ASSUME NEW s \in Sectors
      PROVE  /\ flash'[s].ok = flash[s].ok /\ flash'[s].store = flash[s].store
             /\ flash'[s].kv = flash[s].kv
  BY <1>2, <1>4 DEF Sector
<1> QED BY <1>1, <1>3, <1>4, <1>5, <1>6

LEMMA GcSectorEffect ==
  ASSUME IInv, GcSector
  PROVE  LET x == Head(gc.rest)
             dirty == flash[x].ok /\ flash[x].dirty \in {"TRUE", "GC"}
         IN /\ x \in Sectors /\ gc'.sec = x
            /\ gc'.for = gc.for /\ gc'.rest = Tail(gc.rest) /\ gc'.at = 1
            /\ gc'.trav = gc.trav + 1
            /\ \A s \in Sectors : /\ flash'[s].ok = flash[s].ok
                                  /\ flash'[s].store = flash[s].store
                                  /\ flash'[s].kv = flash[s].kv
            /\ \A s \in Sectors : s # x => flash'[s] = flash[s]
            /\ IF dirty THEN pc' = "gckv" /\ flash'[x].dirty = "GC"
                        ELSE pc' = "gcnext" /\ UNCHANGED flash
<1> DEFINE x == Head(gc.rest)
           dirty == flash[x].ok /\ flash[x].dirty \in {"TRUE", "GC"}
<1>1. /\ gc.rest # << >> /\ GcType /\ flash \in [Sectors -> Sector]
      /\ pc' = IF dirty THEN "gckv" ELSE "gcnext"
      /\ flash' = IF dirty THEN [flash EXCEPT ![x].dirty = "GC"] ELSE flash
      /\ gc' = [gc EXCEPT !.rest = Tail(gc.rest), !.sec = x, !.at = 1,
                          !.trav = gc.trav + 1]
  BY TypeParts DEF GcSector, IInv, FlashType
<1>2. x \in Sectors /\ Tail(gc.rest) \in Seq(Sectors)
  BY <1>1, HeadTailProperties DEF GcType
<1> HIDE DEF x
<1>3. /\ gc'.sec = x /\ gc'.for = gc.for /\ gc'.rest = Tail(gc.rest) /\ gc'.at = 1
      /\ gc'.trav = gc.trav + 1
  BY <1>1 DEF GcType
<1>4. CASE dirty
  <2>1. \A s \in Sectors : flash'[s] = IF s = x THEN [flash[s] EXCEPT !.dirty = "GC"]
                                              ELSE flash[s]
    BY <1>1, <1>2, <1>4
  <2>2. flash'[x].dirty = "GC"
    BY <1>1, <1>2, <2>1 DEF Sector
  <2>3. ASSUME NEW s \in Sectors
        PROVE  /\ flash'[s].ok = flash[s].ok /\ flash'[s].store = flash[s].store
               /\ flash'[s].kv = flash[s].kv
    BY <1>1, <2>1 DEF Sector
  <2> QED BY <1>1, <1>2, <1>3, <1>4, <2>1, <2>2, <2>3 DEF x
<1>5. CASE ~dirty
  BY <1>1, <1>2, <1>3, <1>5 DEF x
<1> QED BY <1>4, <1>5

LEMMA DoomedSector ==
  ASSUME IInv, pc \in {"erase", "header"}
  PROVE  Doomed \in Sectors
<1>1. CASE phase = "format"
  BY <1>1, TypeParts, HeadTailProperties DEF Doomed, IInv, GcInv, ScanType
<1>2. CASE phase # "format"
  BY <1>2, TypeParts DEF Doomed, IInv, GcInv, GcType
<1> QED BY <1>1, <1>2

LEMMA FormatEffect ==
  ASSUME IInv, Erase \/ WriteHeader
  PROVE  /\ Doomed \in Sectors
         /\ \A s \in Sectors : s # Doomed => flash'[s] = flash[s]
         /\ Erase => flash'[Doomed] = Erased
         /\ WriteHeader => flash[Doomed] = Erased /\ flash'[Doomed] = Formatted
<1>1. Doomed \in Sectors
  BY DoomedSector DEF Erase, WriteHeader
<1>2. flash \in [Sectors -> Sector]
  BY DEF IInv, TypeOK
<1>3. WriteHeader => flash[Doomed] = Erased
  BY DEF WriteHeader, IInv, GcInv
<1> QED BY <1>1, <1>2, <1>3 DEF Erase, WriteHeader

------------------------------------------------------------------------------
(* ShapeInv, step by step.  The steps that leave flash alone come first.   *)

LEMMA TypePartsOut ==
  TypeOK' => FlashType' /\ LogType' /\ CallType' /\ GcType' /\ ScanType' /\ SrcType'
BY DEF TypeOK, FlashType, LogType, CallType, GcType, ScanType, SrcType

LEMMA HaltShape ==
  ASSUME IInv, ShapeInv, oldest = None, Halt, UNCHANGED flash
  PROVE  ShapeInv'
<1> USE DEF Halt, Lost
<1>1. gc'.for = "none" /\ put'.to = None /\ oldest' # None
  BY Blanks, Constant DEF Sectors
<1>2. LayoutInv'
  BY DEF ShapeInv, LayoutInv, InUse, Clean
<1>3. FormatInv'
  BY DEF FormatInv
<1>4. MarkedInv'
  BY <1>1 DEF ShapeInv, MarkedInv, Collecting
<1>5. WalkInv'
  BY <1>1 DEF WalkInv
<1>6. AimInv'
  BY <1>1 DEF AimInv, Creating, Placed
<1> QED BY <1>2, <1>3, <1>4, <1>5, <1>6 DEF ShapeInv

LEMMA FormatNextShape ==
  ASSUME IInv, IInv', ShapeInv, FormatNext
  PROVE  ShapeInv'
<1> USE DEF FormatNext, ram, frames, loading
<1>0. LogType /\ CallType /\ GcType /\ ScanType /\ LogType' /\ GcType'
  BY TypeParts, TypePartsOut DEF IInv
<1>1. UNCHANGED flash
  OBVIOUS
<1>2. LayoutInv'
  BY <1>1 DEF ShapeInv, LayoutInv, InUse, Clean
<1>3. /\ pc = "formatnext" /\ phase = "format" /\ gc.for = "none" /\ oldest \in Sectors
      /\ pc' \in {"erase", "default", "gccheck"}
      /\ UNCHANGED <<oldest, gcRequest, src, put, gc, todo, missing, alreadyGc>>
      /\ \/ UNCHANGED phase
         \/ todo = << >> /\ missing # {} /\ phase' = "default"
         \/ todo = << >> /\ missing = {} /\ phase' = "gccheck" /\ scan'.rest = Order
  BY <1>0 DEF IInv, PhaseInv, LogType
<1> HIDE DEF FormatNext
<1>4. \A s \in Sectors : In(s, Order) /\ ~In(s, << >>)
  BY <1>3, InFacts
<1>5. FormatInv'
  <2>1. missing # {} => \A s \in Sectors : flash[s] \in {Erased, Formatted}
    BY <1>3 DEF ShapeInv, FormatInv
  <2>2. \A s \in Sectors : ~flash[s].ok => In(s, todo)
    BY <1>3 DEF ShapeInv, FormatInv
  <2>3. CASE phase' = "default"
    <3>1. \A s \in Sectors : flash[s].ok /\ flash[s] \in {Erased, Formatted}
      BY <1>3, <1>4, <2>1, <2>2, <2>3
    <3>2. Erased.ok = FALSE /\ Formatted.dirty = "FALSE"
      BY DEF Erased, Formatted
    <3>3. \A s \in Sectors : Clean(s)
      BY <3>1, <3>2 DEF Clean
    <3> QED BY <1>1, <1>3, <2>3, <3>3 DEF FormatInv, Clean
  <2>4. CASE phase' = "gccheck"
    BY <1>1, <1>3, <1>4, <2>2, <2>4 DEF FormatInv
  <2>5. CASE UNCHANGED phase
    BY <1>1, <1>3, <2>5 DEF ShapeInv, FormatInv, In
  <2> QED BY <1>3, <2>3, <2>4, <2>5
<1>6. MarkedInv'
  BY <1>1, <1>3, <1>4, Constant DEF ShapeInv, MarkedInv, Collecting, In
<1>7. WalkInv'
  BY <1>3, Constant DEF ShapeInv, WalkInv
<1>8. AimInv'
  BY <1>3 DEF AimInv, Creating, Placed
<1> QED BY <1>2, <1>5, <1>6, <1>7, <1>8 DEF ShapeInv

LEMMA DefaultNextShape ==
  ASSUME IInv, IInv', ShapeInv, DefaultNext
  PROVE  ShapeInv'
<1> USE DEF DefaultNext, ram, frames, loading
<1>0. LogType /\ CallType /\ GcType /\ ScanType /\ LogType' /\ GcType'
  BY TypeParts, TypePartsOut DEF IInv
<1>1. UNCHANGED flash
  OBVIOUS
<1>2. LayoutInv'
  BY <1>1 DEF ShapeInv, LayoutInv, InUse, Clean
<1>3. /\ pc = "default" /\ phase = "default" /\ gc.for = "none" /\ src = None
      /\ pc' \in {"new", "gccheck"} /\ oldest # None
      /\ UNCHANGED <<gcRequest, src, gc, alreadyGc>>
      /\ \/ UNCHANGED <<phase, oldest>>
         \/ /\ phase' = "gccheck" /\ oldest' = 0 /\ scan'.rest = <<0, 1>>
  BY DEF IInv, PhaseInv, SrcInv, ShapeInv, WalkInv
<1> HIDE DEF DefaultNext
<1>4. \A s \in Sectors : Clean(s)
  BY <1>3 DEF ShapeInv, FormatInv
<1>5. \A s \in Sectors : flash[s].ok
  BY <1>4 DEF ShapeInv, LayoutInv, Clean, Erased
<1>6. oldest' # None
  BY <1>3, Constant DEF Sectors
<1>7. FormatInv' /\ MarkedInv'
  BY <1>1, <1>3, <1>4, <1>5, <1>6 DEF FormatInv, MarkedInv, Clean, Collecting
<1>8. WalkInv'
  BY <1>1, <1>3, <1>4, <1>6 DEF ShapeInv, WalkInv, Clean
<1>9. AimInv'
  BY <1>3 DEF AimInv, Creating, Placed
<1> QED BY <1>2, <1>7, <1>8, <1>9 DEF ShapeInv

LEMMA NewKvShape ==
  ASSUME IInv, IInv', ShapeInv, NewKv
  PROVE  ShapeInv'
<1> USE DEF NewKv, ram, frames, loading
<1>0. LogType /\ CallType /\ GcType /\ ScanType /\ LogType' /\ GcType'
  BY TypeParts, TypePartsOut DEF IInv
<1>1. UNCHANGED flash
  OBVIOUS
<1>2. LayoutInv'
  BY <1>1 DEF ShapeInv, LayoutInv, InUse, Clean
<1>3. CASE oldest = None
  BY <1>1, <1>3, HaltShape
<1>4. CASE oldest # None
  <2>1. /\ pc = "new" /\ phase \in {"default", "run"} /\ gc.for = "none"
        /\ src = None /\ UNCHANGED <<phase, src, oldest>>
    BY <1>4 DEF IInv, PhaseInv, SrcInv
  <2>2. gcRequest = FALSE
    BY <1>0, <2>1 DEF ShapeInv, WalkInv, LogType
  <2>3. oldest' # None
    BY <1>4, <2>1
  <2>4. \/ /\ Alloc(FALSE) # None /\ put'.to = Alloc(FALSE)
           /\ pc' \in {"status", "find"} /\ UNCHANGED <<gc, gcRequest>>
           /\ ~alreadyGc' /\ (pc' = "status" => phase = "default")
        \/ /\ gcRequest' /\ gc' = [NoGc EXCEPT !.for = "new"] /\ pc' = "gc"
        \/ /\ ~gcRequest' /\ put' = NoPut /\ pc' \in {"default", "full"}
           /\ UNCHANGED gc /\ ~alreadyGc'
    BY <1>0, <1>4, <2>2 DEF CallType
  <2> HIDE DEF NewKv
  <2>5. /\ gc'.for = "new" => pc' = "gc" /\ gc'.trav = 0 /\ gcRequest'
        /\ gc'.for # "new" => gc'.for = "none" /\ ~gcRequest'
                              /\ pc' \in {"status", "find", "default", "full"}
                              /\ ~alreadyGc' /\ (pc' = "status" => phase = "default")
    BY <2>1, <2>2, <2>4, Blanks DEF NoGc
  <2>6. pc' \in {"status", "find"} => InUse(put'.to) \/ Empty = Sectors
    BY <1>4, <2>4, <2>5, AllocKind, Blanks, Collect DEF IInv, InUse
  <2>7. FormatInv'
    BY <1>1, <2>1, <2>5 DEF ShapeInv, FormatInv, Clean
  <2>8. MarkedInv'
    BY <1>1, <1>4, <2>1, <2>3, <2>5 DEF ShapeInv, MarkedInv, Collecting
  <2>9. WalkInv'
    BY <2>1, <2>3, <2>5 DEF WalkInv
  <2>10. AimInv'
    BY <1>1, <2>1, <2>5, <2>6 DEF AimInv, Creating, Placed, InUse, Empty
  <2> QED BY <1>2, <2>7, <2>8, <2>9, <2>10 DEF ShapeInv
<1> QED BY <1>3, <1>4

LEMMA FindOldShape ==
  ASSUME IInv, IInv', ShapeInv, FindOld
  PROVE  ShapeInv'
<1> USE DEF FindOld, ram, frames, loading
<1>0. LogType /\ GcType /\ ScanType /\ LogType' /\ GcType' /\ ScanType'
  BY TypeParts, TypePartsOut DEF IInv
<1>1. UNCHANGED flash
  OBVIOUS
<1>2. LayoutInv'
  BY <1>1 DEF ShapeInv, LayoutInv, InUse, Clean
<1>3. CASE oldest = None /\ ~Hit(req.key)
  BY <1>1, <1>3, HaltShape DEF Halt
<1>4. CASE ~(oldest = None /\ ~Hit(req.key))
  <2>10. FormatInv'
    BY <1>0, <1>1, <1>4, Constant
       DEF IInv, PhaseInv, SrcInv, ShapeInv, FormatInv, LayoutInv, MarkedInv,
           Collecting, Creating, Placed, InUse, Clean, Empty, Moving, LogType, GcType,
           ScanType
  <2>11. MarkedInv'
    BY <1>0, <1>1, <1>4, Constant
       DEF IInv, PhaseInv, SrcInv, ShapeInv, MarkedInv, FormatInv, WalkInv, Collecting,
           Creating, Placed, InUse, Clean, Empty, Moving, LogType, GcType, ScanType
  <2>12. WalkInv'
    BY <1>0, <1>1, <1>4, Constant
       DEF IInv, PhaseInv, SrcInv, ShapeInv, WalkInv, FormatInv, MarkedInv, Collecting,
           Creating, Placed, InUse, Clean, Empty, Moving, LogType, GcType, ScanType
  <2>13. AimInv'
    BY <1>0, <1>1, <1>4, Constant
       DEF IInv, PhaseInv, SrcInv, ShapeInv, AimInv, WalkInv, MarkedInv, Collecting,
           Creating, Placed, InUse, Clean, Empty, Moving, LogType, GcType, ScanType
  <2> QED BY <1>2, <2>10, <2>11, <2>12, <2>13 DEF ShapeInv
<1> QED BY <1>3, <1>4

LEMMA ReturnShape ==
  ASSUME IInv, IInv', ShapeInv, Return
  PROVE  ShapeInv'
<1> USE DEF Return, ram, frames, loading
<1>0. LogType /\ GcType /\ ScanType /\ LogType' /\ GcType' /\ ScanType'
  BY TypeParts, TypePartsOut DEF IInv
<1>1. UNCHANGED flash
  OBVIOUS
<1>2. LayoutInv'
  BY <1>1 DEF ShapeInv, LayoutInv, InUse, Clean
<1>10. FormatInv'
  BY <1>0, <1>1, Constant, Blanks
     DEF IInv, PhaseInv, SrcInv, ShapeInv, FormatInv, LayoutInv, MarkedInv, Collecting,
         Creating, Placed, InUse, Clean, Empty, Moving, LogType, GcType, ScanType
<1>11. MarkedInv'
  BY <1>0, <1>1, Constant, Blanks
     DEF IInv, PhaseInv, SrcInv, ShapeInv, MarkedInv, FormatInv, WalkInv, Collecting,
         Creating, Placed, InUse, Clean, Empty, Moving, LogType, GcType, ScanType
<1>12. WalkInv'
  BY <1>0, <1>1, Constant, Blanks
     DEF IInv, PhaseInv, SrcInv, ShapeInv, WalkInv, FormatInv, MarkedInv, Collecting,
         Creating, Placed, InUse, Clean, Empty, Moving, LogType, GcType, ScanType
<1>13. AimInv'
  BY <1>0, <1>1, Constant, Blanks
     DEF IInv, PhaseInv, SrcInv, ShapeInv, AimInv, WalkInv, MarkedInv, Collecting,
         Creating, Placed, InUse, Clean, Empty, Moving, LogType, GcType, ScanType
<1> QED BY <1>2, <1>10, <1>11, <1>12, <1>13 DEF ShapeInv

LEMMA EndSetShape ==
  ASSUME IInv, IInv', ShapeInv, EndSet
  PROVE  ShapeInv'
<1> USE DEF EndSet, ram, frames, loading
<1>0. LogType /\ CallType /\ GcType /\ ScanType /\ LogType' /\ GcType'
  BY TypeParts, TypePartsOut DEF IInv
<1>1. UNCHANGED flash
  OBVIOUS
<1>2. LayoutInv'
  BY <1>1 DEF ShapeInv, LayoutInv, InUse, Clean
<1>3. /\ pc = "endset" /\ phase = "run" /\ gc.for = "none" /\ src = None
      /\ UNCHANGED <<phase, src, oldest, gcRequest, alreadyGc>>
      /\ \/ ~gcRequest /\ pc' = "done" /\ UNCHANGED gc
         \/ gcRequest /\ pc' = "gc" /\ gc' = [NoGc EXCEPT !.for = "set"]
  BY <1>0 DEF IInv, PhaseInv, SrcInv
<1>4. /\ gc'.for = "set" => pc' = "gc" /\ gc'.trav = 0 /\ gcRequest'
      /\ gc'.for # "set" => gc'.for = "none" /\ ~gcRequest' /\ pc' = "done"
  BY <1>3 DEF NoGc
<1> HIDE DEF EndSet
<1>5. FormatInv'
  BY <1>1, <1>3, <1>4 DEF ShapeInv, FormatInv
<1>6. MarkedInv'
  BY <1>1, <1>3, <1>4 DEF ShapeInv, MarkedInv, Collecting
<1>7. WalkInv'
  BY <1>3, <1>4 DEF ShapeInv, WalkInv
<1>8. AimInv'
  BY <1>3, <1>4 DEF AimInv, Creating, Placed
<1> QED BY <1>2, <1>5, <1>6, <1>7, <1>8 DEF ShapeInv

LEMMA GcStartShape ==
  ASSUME IInv, IInv', ShapeInv, GcStart
  PROVE  ShapeInv'
<1> USE DEF GcStart, ram, frames, loading
<1>0. LogType /\ CallType /\ GcType /\ ScanType /\ LogType' /\ GcType'
  BY TypeParts, TypePartsOut DEF IInv
<1>1. UNCHANGED flash
  OBVIOUS
<1>2. LayoutInv'
  BY <1>1 DEF ShapeInv, LayoutInv, InUse, Clean
<1>3. CASE oldest = None
  BY <1>1, <1>3, HaltShape
<1>4. CASE oldest # None
  <2>1. /\ pc = "gc" /\ gc.for # "none" /\ src = None /\ pc' = "gcnext"
        /\ UNCHANGED <<phase, src, oldest, gcRequest, scan, todo, missing, alreadyGc>>
        /\ gc'.rest = IF Empty = Sectors THEN << >> ELSE Order
        /\ gc'.for = gc.for /\ gc'.trav = gc.trav /\ oldest \in Sectors
    BY <1>0, <1>4 DEF IInv, PhaseInv, SrcInv, GcType, LogType
  <2> HIDE DEF GcStart
  <2>2. Empty = Sectors => \A s \in Sectors : Clean(s)
    BY DEF ShapeInv, LayoutInv, Empty
  <2>3. \A s \in Sectors : In(s, Order)
    BY <2>1, InFacts
  <2>4. \A s \in Sectors : In(s, gc'.rest) \/ Clean(s)
    BY <2>1, <2>2, <2>3
  <2>5. FormatInv'
    BY <1>1, <2>1 DEF ShapeInv, FormatInv, Clean, In
  <2>6. MarkedInv'
    BY <1>1, <1>4, <2>1, <2>4 DEF ShapeInv, MarkedInv, Collecting, Clean
  <2>7. WalkInv'
    <3>1. gc'.rest = << >> \/ Len(gc'.rest) = 2
      BY <2>1, InFacts
    <3>2. gc.trav = 0
      BY <2>1 DEF ShapeInv, WalkInv
    <3> QED BY <1>1, <1>4, <2>1, <2>4, <3>1, <3>2 DEF ShapeInv, WalkInv, Clean, In
  <2>8. AimInv'
    BY <2>1 DEF AimInv, Creating, Placed
  <2> QED BY <1>2, <2>5, <2>6, <2>7, <2>8 DEF ShapeInv
<1> QED BY <1>3, <1>4

LEMMA GcRecordShape ==
  ASSUME IInv, IInv', ShapeInv, GcRecord
  PROVE  ShapeInv'
<1> USE DEF GcRecord, ram, frames, loading
<1>0. LogType /\ CallType /\ GcType /\ ScanType /\ LogType' /\ GcType'
  BY TypeParts, TypePartsOut DEF IInv
<1>1. UNCHANGED flash
  OBVIOUS
<1>2. LayoutInv'
  BY <1>1 DEF ShapeInv, LayoutInv, InUse, Clean
<1>3. /\ pc = "gckv" /\ gc.for # "none" /\ src = None
      /\ gc'.for = gc.for /\ gc'.rest = gc.rest /\ gc'.sec = gc.sec /\ gc'.trav = gc.trav
      /\ pc' \in {"erase", "predelete", "movealloc"}
      /\ src' = None \/ src'[1] = gc.sec
      /\ UNCHANGED <<phase, oldest, gcRequest, alreadyGc, scan, todo, missing>>
  BY <1>0 DEF IInv, PhaseInv, SrcInv, GcType
<1>4. Collecting /\ Collecting'
  BY <1>3 DEF Collecting
<1> HIDE DEF GcRecord
<1>5. FormatInv'
  BY <1>1, <1>3 DEF ShapeInv, FormatInv, Clean, In
<1>6. MarkedInv'
  BY <1>1, <1>3, <1>4 DEF ShapeInv, MarkedInv, In
<1>7. WalkInv'
  BY <1>3 DEF ShapeInv, WalkInv
<1>8. AimInv'
  BY <1>3 DEF AimInv, Creating, Placed
<1> QED BY <1>2, <1>5, <1>6, <1>7, <1>8 DEF ShapeInv

LEMMA GcDoneShape ==
  ASSUME IInv, IInv', ShapeInv, GcDone
  PROVE  ShapeInv'
<1> USE DEF GcDone, ram, frames, loading
<1>0. LogType /\ CallType /\ GcType /\ ScanType /\ LogType' /\ GcType'
  BY TypeParts, TypePartsOut DEF IInv
<1>1. UNCHANGED flash
  OBVIOUS
<1>2. LayoutInv'
  BY <1>1 DEF ShapeInv, LayoutInv, InUse, Clean
<1>3. /\ pc = "gcnext" /\ gc.rest = << >> /\ gc.for # "none" /\ src = None
      /\ UNCHANGED <<flash, phase, src, oldest, scan, missing>> /\ gc'.for = "none"
      /\ ~gcRequest' /\ pc' = GcReturn /\ UNCHANGED alreadyGc
  BY Blanks DEF IInv, PhaseInv, SrcInv
<1>4. /\ gc.for = "new" => phase \in {"default", "run"} /\ pc' = "new"
      /\ gc.for = "set" => phase = "run" /\ pc' = "done"
      /\ gc.for = "gccheck" => phase = "gccheck" /\ pc' = "gccheck"
      /\ gc.for = "kvcheck" => phase = "kvcheck" /\ pc' = "kvstart"
      /\ gc.for \in {"new", "set", "gccheck", "kvcheck"}
  BY <1>0, <1>3 DEF IInv, PhaseInv, GcReturn, GcType
<1>5. /\ phase \in {"default", "run", "gccheck", "kvcheck"}
      /\ pc' \in {"new", "done", "gccheck", "kvstart"}
      /\ pc' # "kvstart" => phase # "kvcheck"
      /\ gc.for = "new" => pc' = "new"
  BY <1>4
<1> HIDE DEF GcDone
<1>6. \A s \in Sectors : Clean(s)
  BY <1>3, InFacts DEF ShapeInv, WalkInv
<1>7. FormatInv'
  BY <1>1, <1>3, <1>5, <1>6 DEF ShapeInv, FormatInv, Clean
<1>8. MarkedInv'
  BY <1>1, <1>3, <1>5, <1>6 DEF ShapeInv, MarkedInv, Collecting, Clean
<1>9. WalkInv'
  <2>1. alreadyGc => pc' = "new"
    BY <1>3, <1>5 DEF ShapeInv, WalkInv
  <2>2. oldest = None => phase # "default"
    BY DEF ShapeInv, WalkInv
  <2> QED BY <1>1, <1>3, <1>5, <1>6, <2>1, <2>2 DEF WalkInv, Clean
<1>10. AimInv'
  BY <1>3, <1>5 DEF AimInv, Creating, Placed
<1> QED BY <1>2, <1>7, <1>8, <1>9, <1>10 DEF ShapeInv

LEMMA MoveAllocShape ==
  ASSUME IInv, IInv', ShapeInv, MoveAlloc
  PROVE  ShapeInv'
<1> USE DEF MoveAlloc, ram, frames, loading
<1>0. LogType /\ CallType /\ GcType /\ ScanType /\ LogType' /\ GcType'
  BY TypeParts, TypePartsOut DEF IInv
<1>1. UNCHANGED flash
  OBVIOUS
<1>2. LayoutInv'
  BY <1>1 DEF ShapeInv, LayoutInv, InUse, Clean
<1>3. CASE oldest = None
  BY <1>1, <1>3, HaltShape
<1>4. CASE oldest # None
  <2>1. /\ pc = "movealloc" /\ src \in Addresses
        /\ gc.for # "none" \/ phase = "kvcheck"
        /\ UNCHANGED <<phase, oldest, gc, scan, todo, missing, alreadyGc>>
        /\ gcRequest' = Raised(gcRequest)
    BY <1>4, TypeParts DEF IInv, PhaseInv, SrcInv, SrcType, Moving
  <2>2. \/ /\ Alloc(gcRequest) = None /\ src' = None
           /\ pc' = IF gc.for # "none" THEN "gckv" ELSE "kvend"
        \/ /\ Alloc(gcRequest) # None /\ UNCHANGED src /\ gcRequest' = gcRequest
           /\ pc' = "delete"
        \/ /\ Alloc(gcRequest) # None /\ UNCHANGED src /\ gcRequest' = gcRequest
           /\ pc' = "status" /\ put'.to = Alloc(gcRequest)
    BY <1>0, <1>4, <2>1 DEF Raised, LogType
  <2> HIDE DEF MoveAlloc
  <2>3. gc.for # "none" => gcRequest' /\ gcRequest
    BY <2>1 DEF ShapeInv, WalkInv, Raised
  <2>4. gc.for = "none" => ~gcRequest
    BY <2>1 DEF ShapeInv, WalkInv
  <2>5. /\ gc.for # "none" => Collecting /\ Collecting' /\ flash[gc.sec].dirty = "GC"
        /\ gc.for = "none" => ~Collecting /\ ~Collecting'
    BY <2>1, <2>2 DEF Collecting, ShapeInv, MarkedInv
  <2>6. src[1] \in Sectors /\ InUse(src[1])
    <3>1. src[1] \in Sectors /\ flash[src[1]].kv # << >>
      BY <2>1, OfAddress, SectorType, EmptySeq DEF IInv
    <3>2. flash[src[1]].store \in {"UNUSED", "EMPTY", "USING", "FULL"}
      BY <3>1, SectorType DEF IInv, Sector
    <3> QED BY <3>1, <3>2 DEF IInv, SectorInv, InUse
  <2>7. FormatInv'
    BY <1>1, <2>1, <2>2 DEF ShapeInv, FormatInv, IInv, PhaseInv, Clean
  <2>8. MarkedInv'
    BY <1>1, <1>4, <2>1, <2>5 DEF ShapeInv, MarkedInv, Collecting
  <2>9. WalkInv'
    <3>1. pc' \in {"gckv", "kvend", "delete", "status"} /\ (pc' = "gckv" => gc.for # "none")
          /\ (gcRequest' => gc.for # "none" \/ pc' = "kvend")
      BY <2>2, <2>3, <2>4
    <3> QED BY <1>4, <2>1, <2>3, <3>1 DEF ShapeInv, WalkInv
  <2>10. AimInv'
    <3>1. CASE pc' # "status"
      BY <1>1, <2>1, <2>2, <3>1 DEF ShapeInv, AimInv, Creating, Placed
    <3>2. CASE pc' = "status"
      <4>1. put'.to = Alloc(gcRequest) /\ Alloc(gcRequest) # None /\ UNCHANGED src
        BY <2>2, <3>2
      <4>2. CASE gc.for # "none"
        <5>1. src[1] = gc.sec
          BY <2>1, <4>2, OfAddress DEF ShapeInv, AimInv, IInv
        <5>2. put'.to \in Sectors /\ put'.to # gc.sec
          BY <1>4, <2>3, <2>5, <2>6, <4>1, <4>2, <5>1, AllocKind DEF IInv, InUse
        <5>3. put'.to = 1 - gc.sec
          BY <2>6, <5>1, <5>2, Other
        <5> QED BY <1>1, <2>1, <3>2, <4>1, <4>2, <5>1, <5>3 DEF AimInv, Creating, Placed
      <4>3. CASE gc.for = "none"
        <5>1. Empty # Sectors
          BY <2>6 DEF Empty, InUse
        <5>2. InUse(put'.to)
          BY <1>4, <2>4, <4>1, <4>3, <5>1, AllocKind DEF IInv, InUse
        <5> QED BY <1>1, <2>1, <3>2, <4>1, <4>3, <5>2 DEF AimInv, Creating, Placed, InUse
      <4> QED BY <4>2, <4>3
    <3> QED BY <3>1, <3>2
  <2> QED BY <1>2, <2>7, <2>8, <2>9, <2>10 DEF ShapeInv
<1> QED BY <1>3, <1>4

LEMMA GcCheckShape ==
  ASSUME IInv, IInv', ShapeInv, GcCheck
  PROVE  ShapeInv'
<1> USE DEF GcCheck, ram, frames, loading
<1>0. LogType /\ CallType /\ GcType /\ ScanType /\ LogType' /\ GcType'
  BY TypeParts, TypePartsOut DEF IInv
<1>1. UNCHANGED flash
  OBVIOUS
<1>2. LayoutInv'
  BY <1>1 DEF ShapeInv, LayoutInv, InUse, Clean
<1>3. /\ pc = "gccheck" /\ phase = "gccheck" /\ gc.for = "none" /\ src = None
      /\ UNCHANGED <<oldest, src, alreadyGc>> /\ ~gcRequest
  BY DEF IInv, PhaseInv, SrcInv, ShapeInv, WalkInv
<1>4. CASE scan.rest = << >>
  <2>1. /\ phase' = "kvcheck" /\ pc' = "kvstart" /\ UNCHANGED <<gc, gcRequest>>
    BY <1>4
  <2>2. \A s \in Sectors : flash[s].dirty # "GC"
    BY <1>3, <1>4, InFacts DEF ShapeInv, MarkedInv
  <2> HIDE DEF GcCheck
  <2>3. FormatInv'
    BY <1>1, <1>3, <2>1 DEF ShapeInv, FormatInv
  <2>4. MarkedInv'
    BY <1>1, <1>3, <2>1, <2>2 DEF ShapeInv, MarkedInv, Collecting
  <2>5. WalkInv' /\ AimInv'
    BY <1>3, <2>1 DEF ShapeInv, WalkInv, AimInv, Creating, Placed
  <2> QED BY <1>2, <2>3, <2>4, <2>5 DEF ShapeInv
<1>5. CASE scan.rest # << >>
  <2> DEFINE x == Head(scan.rest)
  <2>1. /\ UNCHANGED phase /\ scan'.rest = Tail(scan.rest)
        /\ \/ /\ flash[x].ok /\ flash[x].dirty = "GC" /\ gcRequest'
              /\ gc' = [NoGc EXCEPT !.for = "gccheck"] /\ pc' = "gc"
           \/ ~(flash[x].ok /\ flash[x].dirty = "GC") /\ UNCHANGED <<gc, gcRequest, pc>>
    BY <1>0, <1>5 DEF ScanType
  <2> HIDE DEF GcCheck
  <2>2. \A s \in Sectors : flash[s].dirty = "GC" => s = x \/ In(s, Tail(scan.rest))
    BY <1>0, <1>3, <1>5, InQueue DEF ShapeInv, MarkedInv, ScanType
  <2> HIDE DEF x
  <2>3. /\ gc'.for # "none" => pc' = "gc" /\ gc'.trav = 0 /\ gcRequest'
        /\ gc'.for = "none" => ~gcRequest' /\ pc' = "gccheck"
    BY <1>3, <2>1 DEF NoGc
  <2>4. \A s \in Sectors : flash[s].ok
    BY <1>3 DEF ShapeInv, FormatInv
  <2>5. FormatInv'
    BY <1>1, <1>3, <2>1, <2>3, <2>4 DEF FormatInv
  <2>6. MarkedInv'
    <3>1. \A s \in Sectors : flash[s].dirty = "GC" =>
             In(s, Tail(scan.rest)) \/ (gc'.for # "none" /\ pc' = "gc")
      <4>1. [NoGc EXCEPT !.for = "gccheck"].for = "gccheck"
        BY Collect
      <4> QED BY <2>1, <2>2, <2>4, <4>1
    <3>2. \A s \in Sectors : flash'[s].dirty = "GC" =>
             In(s, scan'.rest) \/ (gc'.for # "none" /\ pc' = "gc")
      BY <1>1, <2>1, <3>1
    <3> QED BY <1>1, <1>3, <2>1, <2>3, <3>2 DEF ShapeInv, MarkedInv, Collecting
  <2>7. WalkInv' /\ AimInv'
    BY <1>3, <2>1, <2>3 DEF ShapeInv, WalkInv, AimInv, Creating, Placed
  <2> QED BY <1>2, <2>5, <2>6, <2>7 DEF ShapeInv
<1> QED BY <1>4, <1>5

LEMMA KvStartShape ==
  ASSUME IInv, IInv', ShapeInv, KvStart
  PROVE  ShapeInv'
<1> USE DEF KvStart, ram, frames, loading
<1>0. LogType /\ GcType /\ ScanType /\ LogType' /\ GcType' /\ ScanType'
  BY TypeParts, TypePartsOut DEF IInv
<1>1. UNCHANGED flash
  OBVIOUS
<1>2. LayoutInv'
  BY <1>1 DEF ShapeInv, LayoutInv, InUse, Clean
<1>3. CASE oldest = None
  BY <1>1, <1>3, HaltShape DEF Halt
<1>4. CASE ~(oldest = None)
  <2>10. FormatInv'
    BY <1>0, <1>1, <1>4, Constant
       DEF IInv, PhaseInv, SrcInv, ShapeInv, FormatInv, LayoutInv, MarkedInv,
           Collecting, Creating, Placed, InUse, Clean, Empty, Moving, LogType, GcType,
           ScanType
  <2>11. MarkedInv'
    BY <1>0, <1>1, <1>4, Constant
       DEF IInv, PhaseInv, SrcInv, ShapeInv, MarkedInv, FormatInv, WalkInv, Collecting,
           Creating, Placed, InUse, Clean, Empty, Moving, LogType, GcType, ScanType
  <2>12. WalkInv'
    BY <1>0, <1>1, <1>4, Constant
       DEF IInv, PhaseInv, SrcInv, ShapeInv, WalkInv, FormatInv, MarkedInv, Collecting,
           Creating, Placed, InUse, Clean, Empty, Moving, LogType, GcType, ScanType
  <2>13. AimInv'
    BY <1>0, <1>1, <1>4, Constant
       DEF IInv, PhaseInv, SrcInv, ShapeInv, AimInv, WalkInv, MarkedInv, Collecting,
           Creating, Placed, InUse, Clean, Empty, Moving, LogType, GcType, ScanType
  <2> QED BY <1>2, <2>10, <2>11, <2>12, <2>13 DEF ShapeInv
<1> QED BY <1>3, <1>4

LEMMA KvEndShape ==
  ASSUME IInv, IInv', ShapeInv, KvEnd
  PROVE  ShapeInv'
<1> USE DEF KvEnd, ram, frames, loading
<1>0. LogType /\ CallType /\ GcType /\ ScanType /\ LogType' /\ GcType'
  BY TypeParts, TypePartsOut DEF IInv
<1>1. UNCHANGED flash
  OBVIOUS
<1>2. LayoutInv'
  BY <1>1 DEF ShapeInv, LayoutInv, InUse, Clean
<1>3. /\ pc = "kvend" /\ phase = "kvcheck" /\ gc.for = "none" /\ src = None
      /\ UNCHANGED <<src, oldest, gcRequest, alreadyGc>>
      /\ \/ ~gcRequest /\ phase' = "run" /\ pc' = "idle" /\ UNCHANGED gc
         \/ gcRequest /\ UNCHANGED phase /\ pc' = "gc" /\ gc' = [NoGc EXCEPT !.for = "kvcheck"]
  BY <1>0 DEF IInv, PhaseInv, SrcInv
<1>4. /\ gc'.for # "none" => pc' = "gc" /\ gc'.trav = 0 /\ gcRequest' /\ phase' = "kvcheck"
      /\ gc'.for = "none" => ~gcRequest' /\ pc' = "idle" /\ phase' = "run"
  BY <1>3 DEF NoGc
<1> HIDE DEF KvEnd
<1>5. FormatInv'
  BY <1>1, <1>3, <1>4 DEF ShapeInv, FormatInv
<1>6. MarkedInv'
  BY <1>1, <1>3, <1>4 DEF ShapeInv, MarkedInv, Collecting
<1>7. WalkInv'
  BY <1>3, <1>4 DEF ShapeInv, WalkInv
<1>8. AimInv'
  BY <1>3, <1>4 DEF AimInv, Creating, Placed
<1> QED BY <1>2, <1>5, <1>6, <1>7, <1>8 DEF ShapeInv

LEMMA CallShape ==
  ASSUME NEW k \in Keys, NEW v \in Values \cup {None}, IInv, IInv', ShapeInv, Call(k, v)
  PROVE  ShapeInv'
<1> USE DEF Call, ram, frames, loading
<1>0. LogType /\ GcType /\ ScanType /\ LogType' /\ GcType' /\ ScanType'
  BY TypeParts, TypePartsOut DEF IInv
<1>1. UNCHANGED flash
  OBVIOUS
<1>2. LayoutInv'
  BY <1>1 DEF ShapeInv, LayoutInv, InUse, Clean
<1>10. FormatInv'
  BY <1>0, <1>1, Constant, Created
     DEF IInv, PhaseInv, SrcInv, ShapeInv, FormatInv, LayoutInv, MarkedInv, Collecting,
         Creating, Placed, InUse, Clean, Empty, Moving, LogType, GcType, ScanType
<1>11. MarkedInv'
  BY <1>0, <1>1, Constant, Created
     DEF IInv, PhaseInv, SrcInv, ShapeInv, MarkedInv, FormatInv, WalkInv, Collecting,
         Creating, Placed, InUse, Clean, Empty, Moving, LogType, GcType, ScanType
<1>12. WalkInv'
  BY <1>0, <1>1, Constant, Created
     DEF IInv, PhaseInv, SrcInv, ShapeInv, WalkInv, FormatInv, MarkedInv, Collecting,
         Creating, Placed, InUse, Clean, Empty, Moving, LogType, GcType, ScanType
<1>13. AimInv'
  BY <1>0, <1>1, Constant, Created
     DEF IInv, PhaseInv, SrcInv, ShapeInv, AimInv, WalkInv, MarkedInv, Collecting,
         Creating, Placed, InUse, Clean, Empty, Moving, LogType, GcType, ScanType
<1> QED BY <1>2, <1>10, <1>11, <1>12, <1>13 DEF ShapeInv

LEMMA GetShape ==
  ASSUME NEW k \in Keys, IInv, IInv', ShapeInv, Get(k)
  PROVE  ShapeInv'
<1> USE DEF Get, ram, frames, loading
<1>0. LogType /\ GcType /\ ScanType /\ LogType' /\ GcType' /\ ScanType'
  BY TypeParts, TypePartsOut DEF IInv
<1>1. UNCHANGED flash
  OBVIOUS
<1>2. LayoutInv'
  BY <1>1 DEF ShapeInv, LayoutInv, InUse, Clean
<1>3. CASE oldest = None /\ ~Hit(k)
  BY <1>1, <1>3, HaltShape DEF Halt
<1>4. CASE ~(oldest = None /\ ~Hit(k))
  <2>10. FormatInv'
    BY <1>0, <1>1, <1>4, Constant
       DEF IInv, PhaseInv, SrcInv, ShapeInv, FormatInv, LayoutInv, MarkedInv,
           Collecting, Creating, Placed, InUse, Clean, Empty, Moving, LogType, GcType,
           ScanType
  <2>11. MarkedInv'
    BY <1>0, <1>1, <1>4, Constant
       DEF IInv, PhaseInv, SrcInv, ShapeInv, MarkedInv, FormatInv, WalkInv, Collecting,
           Creating, Placed, InUse, Clean, Empty, Moving, LogType, GcType, ScanType
  <2>12. WalkInv'
    BY <1>0, <1>1, <1>4, Constant
       DEF IInv, PhaseInv, SrcInv, ShapeInv, WalkInv, FormatInv, MarkedInv, Collecting,
           Creating, Placed, InUse, Clean, Empty, Moving, LogType, GcType, ScanType
  <2>13. AimInv'
    BY <1>0, <1>1, <1>4, Constant
       DEF IInv, PhaseInv, SrcInv, ShapeInv, AimInv, WalkInv, MarkedInv, Collecting,
           Creating, Placed, InUse, Clean, Empty, Moving, LogType, GcType, ScanType
  <2> QED BY <1>2, <2>10, <2>11, <2>12, <2>13 DEF ShapeInv
<1> QED BY <1>3, <1>4

(* The steps that write flash.                                             *)

LEMMA MarkShape ==
  ASSUME IInv, LayoutInv, NEW a \in Addresses, NEW r \in Record, flash' = Mark(a, r)
  PROVE  /\ LayoutInv'
         /\ \A s \in Sectors : /\ flash'[s].ok = flash[s].ok
                               /\ flash'[s].store = flash[s].store
                               /\ flash'[s].dirty = flash[s].dirty
<1>1. \A s \in Sectors : /\ flash'[s].ok = flash[s].ok
                         /\ flash'[s].store = flash[s].store
                         /\ flash'[s].dirty = flash[s].dirty
  BY MarkFacts DEF IInv
<1>2. \A s \in Sectors : s # a[1] => flash'[s] = flash[s]
  BY Elsewhere DEF IInv
<1>3. a[1] \in Sectors /\ flash[a[1]].kv # << >>
  BY OfAddress, SectorType, EmptySeq DEF IInv
<1>4. flash[a[1]].ok
  BY <1>3, Blanks DEF LayoutInv
<1>5. LayoutInv'
  BY <1>1, <1>2, <1>3, <1>4, Other DEF LayoutInv, InUse, Clean
<1> QED BY <1>1, <1>5

(* A step in the middle of a call, a move or the recovery.                 *)
LEMMA StayShape ==
  ASSUME IInv, ShapeInv, LayoutInv', AimInv',
         phase \in {"default", "gccheck", "kvcheck", "run"},
         UNCHANGED <<phase, oldest, gc, alreadyGc>>,
         UNCHANGED scan \/ phase = "kvcheck",
         pc \notin {"gc", "gcnext", "header", "new", "kvstart"},
         pc' \notin {"gc", "gcnext", "header", "new"},
         \A s \in Sectors : /\ flash'[s].ok = flash[s].ok
                            /\ flash'[s].dirty = "GC" <=> flash[s].dirty = "GC"
                            /\ phase = "default" => flash'[s].dirty = flash[s].dirty,
         gc.for # "none" => gcRequest',
         gcRequest' => \/ gc.for # "none"
                       \/ phase = "run" /\ pc' = "endset"
                       \/ phase = "run" /\ pc' \in {"delete", "dirty"} /\ req'.val # None
                       \/ pc' = "kvend"
  PROVE  ShapeInv'
<1>1. FormatInv'
  BY DEF ShapeInv, FormatInv, Clean
<1>2. MarkedInv'
  <2>1. /\ Collecting <=> Collecting'
        /\ gc.for # "none" => gc.sec \in Sectors
    BY TypeParts DEF Collecting, IInv, GcInv, GcType
  <2> QED BY <2>1 DEF ShapeInv, MarkedInv, Collecting
<1>3. WalkInv'
  BY DEF ShapeInv, WalkInv
<1> QED BY <1>1, <1>2, <1>3 DEF ShapeInv

LEMMA PhaseOfSteps ==
  ASSUME IInv, pc \in {"predelete", "predirty", "movealloc", "status", "prewrite",
                       "data", "write", "delete", "dirty", "kvcheck"} \/ gc.for # "none"
  PROVE  phase \in {"default", "gccheck", "kvcheck", "run"}
BY TypeParts DEF IInv, PhaseInv, Moving, GcType

LEMMA RequestOf ==
  ASSUME ShapeInv, pc \notin {"delete", "dirty", "endset", "kvend"}
  PROVE  gcRequest <=> gc.for # "none"
BY DEF ShapeInv, WalkInv

LEMMA UpdateSecStatusShape ==
  ASSUME IInv, ShapeInv, UpdateSecStatus
  PROVE  ShapeInv'
<1>1. /\ pc = "status" /\ pc' = "prewrite"
      /\ UNCHANGED <<phase, oldest, gc, alreadyGc, scan, gcRequest, src, req>>
  BY DEF UpdateSecStatus, ram, loading
<1>2. /\ put.to \in Sectors /\ flash[put.to].store \in {"EMPTY", "USING"}
      /\ \A s \in Sectors : /\ flash'[s].ok = flash[s].ok
                            /\ flash'[s].dirty = flash[s].dirty
                            /\ flash'[s].kv = flash[s].kv
      /\ \A s \in Sectors : s # put.to => flash'[s] = flash[s]
      /\ flash'[put.to].store \in {"USING", "FULL"}
      /\ put'.to = put.to
  BY UpdateSecStatusEffect
<1>3. phase \in {"default", "gccheck", "kvcheck", "run"}
  BY <1>1, PhaseOfSteps
<1>4. gcRequest <=> gc.for # "none"
  BY <1>1, RequestOf
<1>5. flash[put.to].ok
  BY <1>2 DEF ShapeInv, LayoutInv, Erased
<1>6. InUse(1 - put.to) => \/ InUse(put.to)
                           \/ flash[1 - put.to].dirty = "GC"
  <2>1. CASE gc.for # "none"
    <3>1. put.to = 1 - gc.sec /\ gc.sec \in Sectors /\ flash[gc.sec].dirty = "GC"
      BY <1>1, <2>1, TypeParts
         DEF ShapeInv, AimInv, Creating, IInv, GcInv, GcType, MarkedInv, Collecting
    <3> QED BY <3>1, Other
  <2>2. CASE gc.for = "none"
    <3>1. InUse(put.to) \/ Empty = Sectors
      BY <1>1, <2>2 DEF ShapeInv, AimInv, Placed
    <3> QED BY <1>2, <3>1, Other DEF Empty, InUse
  <2> QED BY <2>1, <2>2
<1>7. LayoutInv'
  <2>1. \A s \in Sectors : s = put.to \/ s = 1 - put.to
    BY <1>2, Other
  <2>2. 1 - put.to \in Sectors /\ 1 - put.to # put.to /\ 1 - (1 - put.to) = put.to
    BY <1>2, Other
  <2>3. \A s \in Sectors : /\ ~flash'[s].ok => flash'[s] = Erased
                           /\ flash'[s].ok => /\ flash'[s].store # "UNUSED"
                                              /\ flash'[s].dirty # "UNUSED"
                           /\ flash'[s].store = "EMPTY" => flash'[s].dirty = "FALSE"
                           /\ flash'[s].dirty = "GC" => flash'[1 - s].dirty = "FALSE"
    BY <1>2, <1>5, <2>1, <2>2 DEF ShapeInv, LayoutInv, Clean
  <2>4. flash'[1 - put.to].store \in {"USING", "FULL"} =>
           flash'[put.to].dirty = "GC" \/ flash'[1 - put.to].dirty = "GC"
    BY <1>2, <1>6, <2>2 DEF ShapeInv, LayoutInv, InUse
  <2> QED BY <2>1, <2>2, <2>3, <2>4 DEF LayoutInv, InUse, Clean
<1>8. AimInv'
  BY <1>1, <1>2, TypeParts, OfAddress
     DEF ShapeInv, AimInv, Creating, Placed, InUse, Clean, IInv, SrcType
<1> QED BY <1>1, <1>2, <1>3, <1>4, <1>7, <1>8, StayShape

LEMMA PreWriteShape ==
  ASSUME IInv, ShapeInv, PreWrite
  PROVE  ShapeInv'
<1>1. /\ pc = "prewrite" /\ pc' = "data"
      /\ UNCHANGED <<phase, oldest, gc, alreadyGc, scan, gcRequest, src, put, req>>
  BY DEF PreWrite, ram, frames, loading
<1>2. /\ put.to \in Sectors
      /\ \A s \in Sectors : /\ flash'[s].ok = flash[s].ok
                            /\ flash'[s].store = flash[s].store
                            /\ flash'[s].dirty = flash[s].dirty
      /\ \A s \in Sectors : s # put.to => flash'[s] = flash[s]
  BY PreWriteEffect
<1>3. phase \in {"default", "gccheck", "kvcheck", "run"}
  BY <1>1, PhaseOfSteps
<1>4. gcRequest <=> gc.for # "none"
  BY <1>1, RequestOf
<1>5. flash[put.to].ok
  BY <1>1 DEF ShapeInv, LayoutInv, AimInv, InUse, Erased, IInv, PutInv, Room
<1>6. LayoutInv'
  BY <1>2, <1>5, Other DEF ShapeInv, LayoutInv, InUse, Clean
<1>7. AimInv'
  BY <1>1, <1>2, TypeParts, OfAddress
     DEF ShapeInv, AimInv, Creating, Placed, InUse, Clean, IInv, SrcType
<1> QED BY <1>1, <1>2, <1>3, <1>4, <1>6, <1>7, StayShape

LEMMA WriteDataShape ==
  ASSUME IInv, ShapeInv, WriteData
  PROVE  ShapeInv'
<1>1. /\ pc = "data" /\ pc' = "write"
      /\ UNCHANGED <<phase, oldest, gc, alreadyGc, scan, gcRequest, src, put, req>>
  BY DEF WriteData, ram, frames, loading
<1>2. /\ LayoutInv' /\ put.to \in Sectors
      /\ \A s \in Sectors : /\ flash'[s].ok = flash[s].ok
                            /\ flash'[s].store = flash[s].store
                            /\ flash'[s].dirty = flash[s].dirty
  BY WriteDataEffect, MarkShape, OfAddress DEF ShapeInv, Record, IInv
<1>3. phase \in {"default", "gccheck", "kvcheck", "run"}
  BY <1>1, PhaseOfSteps
<1>4. gcRequest <=> gc.for # "none"
  BY <1>1, RequestOf
<1>5. AimInv'
  BY <1>1, <1>2, TypeParts, OfAddress
     DEF ShapeInv, AimInv, Creating, Placed, InUse, Clean, IInv, SrcType
<1> QED BY <1>1, <1>2, <1>3, <1>4, <1>5, StayShape

LEMMA CommitWriteShape ==
  ASSUME IInv, ShapeInv, CommitWrite, phase = "default" => ~put.full
  PROVE  ShapeInv'
<1>1. /\ pc = "write" /\ pc' \in {"delete", "default", "endset"}
      /\ Moving => pc' = "delete"
      /\ ~Moving /\ phase # "default" => pc' \in {"delete", "endset"}
      /\ gcRequest' = (gcRequest \/ (put.full /\ ~Moving))
      /\ UNCHANGED <<phase, oldest, gc, alreadyGc, scan, src, req>>
  BY DEF CommitWrite, ram, loading
<1>2. /\ LayoutInv' /\ put.to \in Sectors
      /\ \A s \in Sectors : /\ flash'[s].ok = flash[s].ok
                            /\ flash'[s].store = flash[s].store
                            /\ flash'[s].dirty = flash[s].dirty
  BY CommitWriteEffect, MarkShape, OfAddress DEF ShapeInv, Record, IInv
<1>3. phase \in {"default", "gccheck", "kvcheck", "run"}
  BY <1>1, PhaseOfSteps
<1>4. gcRequest <=> gc.for # "none"
  BY <1>1, RequestOf
<1>5. AimInv'
  BY <1>1, <1>2 DEF ShapeInv, AimInv, Creating, Placed
<1>6. gcRequest' => \/ gc.for # "none"
                    \/ phase = "run" /\ pc' \in {"delete", "endset"} /\ req'.val # None
  <2>1. Moving => gcRequest' = gcRequest
    BY <1>1, TypeParts DEF IInv, LogType
  <2>2. ~Moving => phase \in {"default", "gccheck", "run"} /\ gc.for = "none"
    BY <1>3 DEF Moving
  <2>3. ~Moving => phase \in {"default", "run"}
    BY <1>1, <2>2 DEF IInv, PhaseInv
  <2>4. phase = "run" /\ gc.for = "none" => req.val # None
    BY <1>1 DEF ShapeInv, AimInv, Creating
  <2> QED BY <1>1, <1>4, <2>1, <2>2, <2>3, <2>4
<1>7. pc' \notin {"gc", "gcnext", "header", "new"} /\ (gc.for # "none" => gcRequest')
  BY <1>1, <1>4
<1> HIDE DEF CommitWrite
<1> QED BY <1>1, <1>2, <1>3, <1>4, <1>5, <1>6, <1>7, StayShape

LEMMA PreDeleteShape ==
  ASSUME IInv, ShapeInv, PreDelete
  PROVE  ShapeInv'
<1>1. /\ pc = "predelete" /\ pc' = "predirty"
      /\ UNCHANGED <<phase, oldest, gc, alreadyGc, scan, gcRequest, src, put, req>>
  BY DEF PreDelete, frames, loading
<1>2. /\ LayoutInv'
      /\ \A s \in Sectors : /\ flash'[s].ok = flash[s].ok
                            /\ flash'[s].store = flash[s].store
                            /\ flash'[s].dirty = flash[s].dirty
  BY PreDeleteEffect, MarkShape, OfAddress DEF ShapeInv, Record, IInv
<1>3. phase \in {"default", "gccheck", "kvcheck", "run"}
  BY <1>1, PhaseOfSteps
<1>4. gcRequest <=> gc.for # "none"
  BY <1>1, RequestOf
<1>5. gc.for = "none" => put.to \in Sectors
  BY <1>1 DEF IInv, PutInv, Room, Moving, ShapeInv, AimInv
<1>6. AimInv'
  <2>1. Empty' = Empty
    BY <1>2 DEF Empty
  <2>3. Placed => InUse(put.to)' \/ Empty = Sectors
    BY <1>1, <1>2, <1>5 DEF ShapeInv, AimInv, Placed, InUse
  <2> QED BY <1>1, <2>1, <2>3 DEF ShapeInv, AimInv, Creating, Placed
<1> QED BY <1>1, <1>2, <1>3, <1>4, <1>6, StayShape

LEMMA DeleteShape ==
  ASSUME IInv, ShapeInv, Delete
  PROVE  ShapeInv'
<1>1. /\ pc = "delete" /\ pc' = "dirty"
      /\ UNCHANGED <<phase, oldest, gc, alreadyGc, scan, gcRequest, src, put, req>>
  BY DEF Delete, frames, loading
<1>2. /\ LayoutInv'
      /\ \A s \in Sectors : /\ flash'[s].ok = flash[s].ok
                            /\ flash'[s].store = flash[s].store
                            /\ flash'[s].dirty = flash[s].dirty
  BY DeleteEffect, MarkShape DEF ShapeInv, IInv
<1>3. phase \in {"default", "gccheck", "kvcheck", "run"}
  BY <1>1, PhaseOfSteps
<1>4. AimInv'
  BY <1>1 DEF ShapeInv, AimInv, Creating, Placed
<1>5. /\ gc.for # "none" => gcRequest'
      /\ gcRequest' => \/ gc.for # "none"
                       \/ phase = "run" /\ pc' = "endset"
                       \/ phase = "run" /\ pc' \in {"delete", "dirty"} /\ req'.val # None
                       \/ pc' = "kvend"
  BY <1>1 DEF ShapeInv, WalkInv
<1> QED BY <1>1, <1>2, <1>3, <1>4, <1>5, StayShape

LEMMA KvCheckShape ==
  ASSUME IInv, ShapeInv, KvCheck
  PROVE  ShapeInv'
<1>1. /\ pc = "kvcheck" /\ pc' \in {"kvend", "kvcheck", "movealloc"}
      /\ phase = "kvcheck" /\ gc.for = "none"
      /\ UNCHANGED <<phase, oldest, gc, alreadyGc, gcRequest, put>>
      /\ \/ UNCHANGED flash
         \/ \E a \in Addresses : flash' = Mark(a, Dead)
  BY DEF KvCheck, IInv, PhaseInv
<1>2. /\ LayoutInv'
      /\ \A s \in Sectors : flash'[s].ok = flash[s].ok /\ flash'[s].dirty = flash[s].dirty
  <2>1. CASE UNCHANGED flash
    BY <2>1 DEF ShapeInv, LayoutInv, InUse, Clean
  <2>2. CASE \E a \in Addresses : flash' = Mark(a, Dead)
    BY <2>2, MarkShape DEF ShapeInv, Record
  <2> QED BY <1>1, <2>1, <2>2
<1>3. gcRequest <=> gc.for # "none"
  BY <1>1, RequestOf
<1>4. AimInv'
  BY <1>1 DEF AimInv, Creating, Placed
<1> QED BY <1>1, <1>2, <1>3, <1>4, StayShape

LEMMA MarkDirtyShape ==
  ASSUME IInv, ShapeInv, MarkDirty
  PROVE  ShapeInv'
<1>1. /\ pc \in {"predirty", "dirty"}
      /\ UNCHANGED <<phase, oldest, gc, alreadyGc, scan, gcRequest, put, req>>
      /\ src' = IF pc = "dirty" THEN None ELSE src
      /\ pc' = IF pc = "predirty" THEN IF Moving THEN "movealloc" ELSE "status"
               ELSE IF gc.for # "none" THEN "gckv"
               ELSE IF phase = "kvcheck" THEN "kvcheck"
               ELSE IF req.val = None THEN "done" ELSE "endset"
  BY DEF MarkDirty, ram, loading
<1> DEFINE x == src[1]
<1>2. /\ src \in Addresses /\ x \in Sectors
      /\ \A s \in Sectors : /\ flash'[s].ok = flash[s].ok
                            /\ flash'[s].store = flash[s].store
                            /\ flash'[s].kv = flash[s].kv
      /\ \A s \in Sectors : s # x => flash'[s] = flash[s]
      /\ flash'[x].dirty = IF Clean(x) THEN "TRUE" ELSE flash[x].dirty
  BY MarkDirtyEffect
<1> HIDE DEF x
<1>3. phase \in {"default", "gccheck", "kvcheck", "run"}
  BY <1>1, PhaseOfSteps
<1>4. /\ InUse(x) /\ flash[x].ok
  <2>1. flash[x].kv # << >>
    BY <1>2, OfAddress, SectorType, EmptySeq DEF IInv, x
  <2>2. flash[x].ok
    BY <1>2, <2>1, Blanks DEF ShapeInv, LayoutInv
  <2>3. flash[x].store \in {"UNUSED", "EMPTY", "USING", "FULL"}
    BY <1>2, SectorType DEF IInv, Sector
  <2> QED BY <1>2, <2>1, <2>2, <2>3 DEF IInv, SectorInv, InUse
<1>5. gc.for # "none" => flash[x].dirty = "GC"
  <2>1. src # None
    BY <1>2, OfAddress DEF IInv
  <2> QED BY <1>1, <2>1 DEF ShapeInv, AimInv, MarkedInv, Collecting, x
<1>6. \A s \in Sectors : /\ flash'[s].dirty = "GC" <=> flash[s].dirty = "GC"
                         /\ gc.for # "none" => flash'[s].dirty = flash[s].dirty
  BY <1>2, <1>5 DEF Clean
<1>7. phase = "default" => gc.for # "none"
  BY <1>1 DEF IInv, PhaseInv, Moving
<1>8. LayoutInv'
  <2>1. \A s \in Sectors : /\ flash'[s].dirty # "UNUSED" \/ ~flash[s].ok
                           /\ flash'[s].dirty = "FALSE" => Clean(s)
    BY <1>2 DEF ShapeInv, LayoutInv, Clean
  <2>2. \A s \in Sectors : s # x /\ Clean(s) => flash'[s].dirty = "FALSE"
    BY <1>2 DEF Clean
  <2>3. flash[1 - x].dirty = "GC" => gc.for # "none"
    <3>1. CASE gc.for = "none"
      <4>1. phase \in {"kvcheck", "run"} /\ ~Collecting
        BY <1>1, <1>3, <1>7, <3>1 DEF IInv, PhaseInv, Moving, Collecting
      <4> QED BY <1>2, <4>1, Other DEF ShapeInv, MarkedInv
    <3> QED BY <3>1
  <2>4. \A s \in Sectors : flash'[s].dirty = "GC" => flash'[1 - s].dirty = "FALSE"
    <3>1. TAKE s \in Sectors
    <3>2. CASE gc.for # "none"
      BY <1>6, <3>2, Other DEF ShapeInv, LayoutInv, Clean
    <3>3. CASE gc.for = "none"
      <4>1. flash[s].dirty # "GC"
        BY <1>1, <1>3, <1>7, <3>3 DEF IInv, PhaseInv, Moving, ShapeInv, MarkedInv,
                                      Collecting
      <4> QED BY <1>6, <4>1
    <3> QED BY <3>2, <3>3
  <2>5. \A s \in Sectors : /\ ~flash'[s].ok => flash'[s] = Erased
                           /\ flash'[s].store = "EMPTY" => flash'[s].dirty = "FALSE"
    BY <1>2, <1>4, <2>2 DEF ShapeInv, LayoutInv, InUse, Clean
  <2> QED BY <1>2, <1>6, <2>1, <2>4, <2>5, Other DEF ShapeInv, LayoutInv, InUse, Clean
<1>9. AimInv'
  <2>1. Empty' = Empty /\ \A s \in Sectors : InUse(s)' = InUse(s)
    BY <1>2 DEF Empty, InUse
  <2>2. gc.for # "none" /\ src' # None => src'[1] = gc.sec
    BY <1>1 DEF ShapeInv, AimInv
  <2>3. gc.for # "none" => pc' \in {"movealloc", "gckv"}
    BY <1>1 DEF Moving
  <2>4. flash'[x].dirty # "FALSE"
    BY <1>2 DEF Clean
  <2>5. Placed' => Placed /\ put.to \in Sectors
    <3>1. Placed' => pc = "predirty" /\ gc.for = "none" /\ ~Moving
      BY <1>1 DEF Placed
    <3> QED BY <1>1, <3>1 DEF Placed, IInv, PutInv, Room, Moving
  <2>6. Placed' => InUse(put.to)' \/ Empty' = Sectors
    BY <1>1, <2>1, <2>5 DEF ShapeInv, AimInv, InUse
  <2>7. pc' \notin {"prewrite", "data", "write"}
    BY <1>1
  <2>8. pc' = "status" => src' = src
    BY <1>1
  <2>9. pc' \notin {"predelete", "predirty"}
    BY <1>1
  <2>10. pc' = "status" => req'.val # None
    BY <1>1 DEF IInv, PutInv
  <2> QED BY <1>1, <2>2, <2>3, <2>4, <2>6, <2>7, <2>8, <2>9, <2>10
          DEF AimInv, Creating, Clean, x
<1>10. /\ gc.for # "none" => gcRequest'
       /\ gcRequest' => \/ gc.for # "none"
                        \/ phase = "run" /\ pc' = "endset"
                        \/ phase = "run" /\ pc' \in {"delete", "dirty"} /\ req'.val # None
                        \/ pc' = "kvend"
  BY <1>1 DEF ShapeInv, WalkInv
<1>11. pc' \notin {"gc", "gcnext", "header", "new"}
  BY <1>1
<1> QED BY <1>1, <1>2, <1>3, <1>6, <1>7, <1>8, <1>9, <1>10, <1>11, StayShape

LEMMA GcSectorShape ==
  ASSUME IInv, ShapeInv, GcSector
  PROVE  ShapeInv'
<1> DEFINE x == Head(gc.rest)
           dirty == flash[x].ok /\ flash[x].dirty \in {"TRUE", "GC"}
<1>1. /\ pc = "gcnext" /\ gc.for # "none" /\ src = None /\ gc.rest # << >>
      /\ GcType /\ LogType /\ gcRequest
      /\ UNCHANGED <<phase, oldest, alreadyGc, scan, gcRequest, src, put, req, todo, missing>>
  BY TypeParts DEF GcSector, IInv, PhaseInv, SrcInv, ram, loading, ShapeInv, WalkInv
<1>2. /\ x \in Sectors /\ gc'.sec = x
      /\ gc'.for = gc.for /\ gc'.rest = Tail(gc.rest) /\ gc'.trav = gc.trav + 1
      /\ \A s \in Sectors : /\ flash'[s].ok = flash[s].ok
                            /\ flash'[s].store = flash[s].store
                            /\ flash'[s].kv = flash[s].kv
      /\ \A s \in Sectors : s # x => flash'[s] = flash[s]
      /\ IF dirty THEN pc' = "gckv" /\ flash'[x].dirty = "GC"
                  ELSE pc' = "gcnext" /\ UNCHANGED flash
  BY GcSectorEffect
<1>3. /\ \A s \in Sectors : In(s, gc.rest) <=> s = x \/ In(s, Tail(gc.rest))
      /\ Len(Tail(gc.rest)) = Len(gc.rest) - 1
  BY <1>1, InQueue DEF GcType
<1> HIDE DEF x, dirty
<1>4. phase \in {"default", "gccheck", "kvcheck", "run"}
  BY <1>1, PhaseOfSteps
<1>5. oldest # None
  BY <1>1 DEF ShapeInv, WalkInv
<1>6. /\ \A s \in Sectors : s # x /\ ~In(s, Tail(gc.rest)) => Clean(s)
      /\ ~dirty => (flash[x].ok => Clean(x))
  <2>1. flash[x].ok /\ ~dirty => Clean(x)
    BY <1>2, SectorType DEF ShapeInv, LayoutInv, Sector, IInv, Clean, dirty
  <2> QED BY <1>1, <1>3, <2>1 DEF ShapeInv, WalkInv
<1>7. \A s \in Sectors : flash[s].ok
  <2>1. CASE phase = "default"
    BY <2>1 DEF ShapeInv, FormatInv, LayoutInv, Clean, Erased
  <2>2. CASE phase # "default"
    BY <1>1, <1>4, <2>2 DEF ShapeInv, FormatInv
  <2> QED BY <2>1, <2>2
<1>8. gc'.rest = << >> \/ Len(gc'.rest) + gc'.trav = 2
  <2>1. Len(gc.rest) \in Nat /\ gc.trav \in Nat
    BY <1>1, LenProperties DEF GcType
  <2> QED BY <1>1, <1>2, <1>3, <2>1 DEF ShapeInv, WalkInv
<1>9. CASE ~dirty
  <2>1. pc' = "gcnext" /\ UNCHANGED flash
    BY <1>2, <1>9
  <2>2. LayoutInv'
    BY <2>1 DEF ShapeInv, LayoutInv, InUse, Clean
  <2>3. FormatInv'
    BY <1>1, <2>1, <1>4, <1>7 DEF ShapeInv, FormatInv, Clean
  <2>4. \A s \in Sectors : In(s, gc'.rest) \/ Clean(s)
    BY <1>2, <1>3, <1>6, <1>7, <1>9
  <2>5. MarkedInv'
    BY <1>1, <1>2, <1>5, <2>1, <2>4, <1>4 DEF ShapeInv, MarkedInv, Collecting, Clean
  <2>6. WalkInv'
    BY <1>1, <1>2, <1>5, <1>8, <2>1, <2>4 DEF ShapeInv, WalkInv, Clean
  <2>7. AimInv'
    BY <1>1, <1>2, <2>1 DEF AimInv, Creating, Placed
  <2> QED BY <2>2, <2>3, <2>5, <2>6, <2>7 DEF ShapeInv
<1>10. CASE dirty
  <2>1. pc' = "gckv" /\ flash'[x].dirty = "GC" /\ Collecting'
    BY <1>1, <1>2, <1>10 DEF Collecting
  <2>2. ~Clean(x) /\ phase # "default" /\ flash[x].ok
    BY <1>2, <1>10 DEF dirty, Clean, ShapeInv, FormatInv
  <2>3. /\ 1 - x \in Sectors /\ 1 - x # x /\ 1 - (1 - x) = x
        /\ \A s \in Sectors : s = x \/ s = 1 - x
    BY <1>2, Other
  <2>4. InUse(x)
    BY <1>2, <2>2, SectorType DEF IInv, Sector, InUse, ShapeInv, LayoutInv
  <2>5. ~InUse(1 - x) \/ flash[x].dirty = "GC" => Clean(1 - x)
    BY <1>2, <1>7, <2>3, SectorType DEF IInv, Sector, InUse, ShapeInv, LayoutInv, Clean
  <2>6. Clean(1 - x)
    <3>1. CASE phase \in {"kvcheck", "run"}
      <4>1. \A s \in Sectors : flash[s].dirty # "GC"
        BY <1>1, <3>1 DEF ShapeInv, MarkedInv, Collecting
      <4> QED BY <1>2, <2>3, <2>4, <2>5, <4>1 DEF ShapeInv, LayoutInv
    <3>2. CASE phase = "gccheck"
      <4>1. InUse(1 - x) /\ flash[x].dirty # "GC" => flash[1 - x].dirty = "GC"
        BY <1>2, <2>3, <2>4 DEF ShapeInv, LayoutInv
      <4>2. flash[1 - x].dirty # "GC"
        BY <2>2, <2>3 DEF ShapeInv, LayoutInv
      <4> QED BY <4>1, <4>2, <2>5
    <3> QED BY <1>4, <2>2, <3>1, <3>2
  <2>7. LayoutInv'
    BY <1>2, <2>1, <2>2, <2>3, <2>4, <2>6 DEF ShapeInv, LayoutInv, InUse, Clean
  <2>8. FormatInv'
    BY <1>1, <1>2, <1>4, <1>7, <2>1, <2>2 DEF FormatInv
  <2>9. MarkedInv'
    BY <1>1, <1>2, <1>5, <2>1, <2>3, <2>6, <1>4 DEF ShapeInv, MarkedInv, Clean
  <2>10. WalkInv'
    BY <1>1, <1>2, <1>5, <1>8, <2>1 DEF ShapeInv, WalkInv
  <2>11. AimInv'
    BY <1>1, <1>2, <2>1 DEF AimInv, Creating, Placed
  <2> QED BY <2>7, <2>8, <2>9, <2>10, <2>11 DEF ShapeInv
<1> QED BY <1>9, <1>10

(* A sector that is formatted is empty, or it was just collected.          *)
LEMMA FormatShape ==
  ASSUME IInv, ShapeInv, NEW x \in Sectors,
         \A s \in Sectors : s # x => flash'[s] = flash[s],
         flash'[x] = Erased \/ (flash[x] = Erased /\ flash'[x] = Formatted),
         flash[1 - x].dirty # "GC"
  PROVE  /\ LayoutInv'
         /\ \A s \in Sectors : s # x => Clean(s)' = Clean(s)
<1>1. /\ Erased.ok = FALSE /\ Erased.store = "UNUSED" /\ Erased.dirty = "UNUSED"
      /\ Formatted.ok = TRUE /\ Formatted.store = "EMPTY" /\ Formatted.dirty = "FALSE"
  BY DEF Erased, Formatted
<1>2. /\ 1 - x \in Sectors /\ 1 - x # x /\ 1 - (1 - x) = x
      /\ \A s \in Sectors : s = x \/ s = 1 - x
  BY Other
<1>3. LayoutInv'
  BY <1>1, <1>2 DEF ShapeInv, LayoutInv, InUse, Clean
<1> QED BY <1>3 DEF Clean

LEMMA DoomedShape ==
  ASSUME IInv, ShapeInv, pc \in {"erase", "header"}
  PROVE  /\ Doomed \in Sectors
         /\ flash[1 - Doomed].dirty # "GC"
         /\ phase # "format" => /\ Doomed = gc.sec /\ gc.for # "none" /\ Clean(1 - gc.sec)
                               /\ phase \in {"gccheck", "kvcheck", "run"} /\ oldest # None
<1>1. Doomed \in Sectors /\ 1 - Doomed \in Sectors
  BY DoomedSector, Other
<1>2. CASE phase = "format"
  BY <1>1, <1>2 DEF IInv, GcInv, ShapeInv, FormatInv
<1>3. CASE phase # "format"
  <2>1. Doomed = gc.sec /\ gc.for # "none" /\ phase \in {"default", "gccheck", "kvcheck", "run"}
    BY <1>3, PhaseOfSteps DEF Doomed, IInv, GcInv
  <2>2. Clean(1 - gc.sec)
    BY <1>1, <1>3, <2>1 DEF ShapeInv, FormatInv, MarkedInv, LayoutInv, Collecting
  <2>3. phase # "default"
    <3>1. pc = "erase" => ~Clean(gc.sec)
      BY <2>1 DEF ShapeInv, MarkedInv, Collecting, Clean
    <3>2. pc = "header" => ~Clean(gc.sec)
      BY <2>1 DEF IInv, GcInv, Clean, Erased
    <3> QED BY <1>1, <2>1, <3>1, <3>2 DEF ShapeInv, FormatInv
  <2>4. oldest # None
    BY <2>1 DEF ShapeInv, WalkInv
  <2> QED BY <1>1, <1>3, <2>1, <2>2, <2>3, <2>4 DEF Clean
<1> QED BY <1>2, <1>3

LEMMA EraseShape ==
  ASSUME IInv, ShapeInv, Erase
  PROVE  ShapeInv'
<1>1. /\ pc = "erase" /\ pc' = "header" /\ src = None
      /\ UNCHANGED <<phase, oldest, alreadyGc, scan, gcRequest, src, put, req, todo,
                     missing, gc>>
  BY DEF Erase, IInv, SrcInv, ram, frames, loading
<1> DEFINE x == Doomed
<1>2. /\ x \in Sectors /\ flash[1 - x].dirty # "GC"
      /\ phase # "format" => /\ x = gc.sec /\ gc.for # "none" /\ Clean(1 - gc.sec)
                            /\ phase \in {"gccheck", "kvcheck", "run"} /\ oldest # None
  BY <1>1, DoomedShape
<1>3. /\ \A s \in Sectors : s # x => flash'[s] = flash[s]
      /\ flash'[x] = Erased
  BY FormatEffect
<1>4. phase = "format" => In(x, todo) /\ gc.for = "none"
  BY <1>1, <1>2, InQueue, TypeParts DEF Doomed, IInv, GcInv, ScanType
<1> HIDE DEF x
<1>5. LayoutInv' /\ \A s \in Sectors : s # x => Clean(s)' = Clean(s)
  BY <1>2, <1>3, FormatShape
<1>6. /\ 1 - x \in Sectors /\ 1 - x # x /\ 1 - (1 - x) = x
      /\ \A s \in Sectors : s = x \/ s = 1 - x
  BY <1>2, Other
<1>7. Erased.dirty = "UNUSED"
  BY DEF Erased
<1>8. phase = "default" \/ oldest = None \/ phase = "halted" => phase = "format"
  BY <1>2
<1>9. phase = "format" => oldest # None
  BY DEF IInv, PhaseInv
<1>10. FormatInv'
  <2>1. CASE phase = "format"
    BY <1>1, <1>3, <1>4, <1>6, <1>7, <2>1 DEF ShapeInv, FormatInv, In
  <2>2. CASE phase # "format"
    <3>1. \A s \in Sectors : flash'[s].ok \/ s = gc'.sec
      BY <1>1, <1>2, <1>3, <2>2 DEF ShapeInv, FormatInv
    <3>2. Clean(1 - gc.sec)'
      BY <1>1, <1>2, <1>3, <1>6, <2>2 DEF Clean
    <3> QED BY <1>1, <1>2, <2>2, <3>1, <3>2 DEF FormatInv, Clean
  <2> QED BY <2>1, <2>2
<1>11. MarkedInv'
  <2>1. ~Collecting'
    BY <1>1 DEF Collecting
  <2>2. \A s \in Sectors : flash'[s].dirty # "GC"
    BY <1>2, <1>3, <1>6, <1>7
  <2> QED BY <1>1, <1>8, <1>9, <2>1, <2>2 DEF MarkedInv
<1>12. WalkInv'
  BY <1>1, <1>8, <1>9 DEF ShapeInv, WalkInv
<1>13. AimInv'
  BY <1>1 DEF AimInv, Creating, Placed
<1> QED BY <1>5, <1>10, <1>11, <1>12, <1>13 DEF ShapeInv

LEMMA WriteHeaderShape ==
  ASSUME IInv, ShapeInv, WriteHeader
  PROVE  ShapeInv'
<1>1. /\ pc = "header" /\ src = None /\ GcType /\ ScanType
      /\ UNCHANGED <<phase, alreadyGc, scan, gcRequest, src, put, req, missing>>
      /\ phase = "format" => todo' = Tail(todo) /\ pc' = "formatnext" /\ UNCHANGED <<oldest, gc>>
      /\ phase # "format" =>
            /\ oldest' = IF gc.trav < Cardinality(Sectors) THEN 1 - gc.sec ELSE None
            /\ pc' = "gcnext"
            /\ gc' = [gc EXCEPT !.rest = IF gc.for \in {"new", "set"} THEN << >> ELSE gc.rest]
  BY TypeParts DEF WriteHeader, IInv, SrcInv
<1> DEFINE x == Doomed
<1>2. /\ x \in Sectors /\ flash[1 - x].dirty # "GC"
      /\ phase # "format" => /\ x = gc.sec /\ gc.for # "none" /\ Clean(1 - gc.sec)
                            /\ phase \in {"gccheck", "kvcheck", "run"} /\ oldest # None
  BY <1>1, DoomedShape
<1>3. /\ \A s \in Sectors : s # x => flash'[s] = flash[s]
      /\ flash[x] = Erased /\ flash'[x] = Formatted
  BY FormatEffect DEF WriteHeader
<1>4. phase = "format" => todo # << >> /\ x = Head(todo) /\ gc.for = "none"
  BY <1>1, <1>2 DEF Doomed, IInv, GcInv
<1> HIDE DEF x
<1>5. LayoutInv' /\ \A s \in Sectors : s # x => Clean(s)' = Clean(s)
  BY <1>2, <1>3, FormatShape
<1>6. /\ 1 - x \in Sectors /\ 1 - x # x /\ 1 - (1 - x) = x
      /\ \A s \in Sectors : s = x \/ s = 1 - x
  BY <1>2, Other
<1>7. Formatted.dirty = "FALSE" /\ Formatted.ok = TRUE
  BY DEF Formatted
<1>8. \A s \in Sectors : flash'[s].dirty # "GC"
  BY <1>2, <1>3, <1>6, <1>7
<1>9. CASE phase = "format"
  <2>1. \A s \in Sectors : In(s, todo) <=> s = x \/ In(s, Tail(todo))
    BY <1>1, <1>4, <1>9, InQueue DEF ScanType
  <2>2. oldest # None
    BY <1>9 DEF IInv, PhaseInv
  <2>3. FormatInv'
    <3>1. \A s \in Sectors : flash'[s].ok \/ In(s, Tail(todo))
      BY <1>3, <1>7, <1>9, <2>1 DEF ShapeInv, FormatInv
    <3>2. \A s \in Sectors : In(s, Tail(todo)) \/ missing # {} => flash'[s] \in {Erased, Formatted}
      BY <1>3, <1>9, <2>1 DEF ShapeInv, FormatInv
    <3> QED BY <1>1, <1>8, <1>9, <3>1, <3>2 DEF FormatInv, In
  <2>4. MarkedInv' /\ WalkInv' /\ AimInv'
    BY <1>1, <1>4, <1>9, <2>2 DEF ShapeInv, MarkedInv, WalkInv, AimInv, Collecting,
                                  Creating, Placed
  <2> QED BY <1>5, <2>3, <2>4 DEF ShapeInv
<1>10. CASE phase # "format"
  <2>1. /\ gc'.for = gc.for /\ gc'.sec = gc.sec /\ gc'.trav = gc.trav
        /\ gc'.rest = << >> \/ gc'.rest = gc.rest
        /\ pc' = "gcnext" /\ gc.for # "none" /\ gc.trav \in Nat
    BY <1>1, <1>2, <1>10 DEF GcType
  <2>2. \A s \in Sectors : flash'[s].ok /\ flash'[s].dirty = "FALSE"
    <3>1. \A s \in Sectors : s # x => flash[s].ok
      BY <1>1, <1>2, <1>10 DEF ShapeInv, FormatInv
    <3>2. flash'[1 - x].dirty = "FALSE"
      BY <1>2, <1>3, <1>6, <1>10 DEF Clean
    <3> QED BY <1>3, <1>6, <1>7, <3>1, <3>2
  <2>3. Cardinality(Sectors) = 2
    <3>1. IsFiniteSet({0}) /\ Cardinality({0}) = 1
      BY FS_Singleton
    <3>2. Cardinality({0} \cup {1}) = 2
      BY <3>1, FS_AddElement
    <3>3. Sectors = {0} \cup {1}
      BY DEF Sectors
    <3> QED BY <3>2, <3>3
  <2>4. oldest' = None => gc.trav >= 2 /\ gc'.rest = << >>
    <3>1. oldest' = None => gc.trav >= 2
      BY <1>2, <1>6, <1>10, <1>1, <2>1, <2>3, Constant
    <3>2. gc.rest = << >> \/ Len(gc.rest) + gc.trav = 2
      BY <1>1, <2>1 DEF ShapeInv, WalkInv
    <3>3. Len(gc.rest) \in Nat /\ (Len(gc.rest) = 0 => gc.rest = << >>)
      BY <1>1, EmptySeq, LenProperties DEF GcType
    <3>4. gc.trav >= 2 => gc.rest = << >>
      BY <2>1, <3>2, <3>3
    <3> QED BY <2>1, <3>1, <3>4
  <2>5. FormatInv'
    BY <1>1, <1>10, <2>1, <2>2 DEF FormatInv, Clean
  <2>6. MarkedInv'
    BY <1>8, <2>1, <2>2 DEF MarkedInv, Collecting
  <2>7. WalkInv'
    BY <1>1, <1>2, <1>10, <2>1, <2>2, <2>4 DEF ShapeInv, WalkInv, Clean
  <2>8. AimInv'
    BY <1>1, <2>1 DEF AimInv, Creating, Placed
  <2> QED BY <1>5, <2>5, <2>6, <2>7, <2>8 DEF ShapeInv
<1> QED BY <1>9, <1>10

LEMMA PowerOffShape ==
  ASSUME IInv, ShapeInv, PowerOff
  PROVE  ShapeInv'
<1> USE DEF PowerOff, Lost
<1>1. gc'.for = "none" /\ oldest' # None /\ UNCHANGED flash
  BY Blanks, Constant DEF Sectors
<1>2. LayoutInv'
  BY <1>1 DEF ShapeInv, LayoutInv, InUse, Clean
<1>3. FormatInv'
  BY DEF FormatInv
<1>4. MarkedInv'
  BY <1>1 DEF MarkedInv, Collecting
<1>5. WalkInv' /\ AimInv'
  BY <1>1 DEF WalkInv, AimInv, Creating, Placed
<1> QED BY <1>2, <1>3, <1>4, <1>5 DEF ShapeInv

LEMMA RereadEffect ==
  ASSUME TypeOK, NEW s \in Sectors
  PROVE  /\ Reread(flash[s]).ok = flash[s].ok
         /\ Reread(flash[s]).store = flash[s].store
         /\ Reread(flash[s]).dirty = flash[s].dirty
         /\ ~flash[s].ok \/ ~InUse(s) => Reread(flash[s]) = flash[s]
BY SectorType DEF Reread, InUse, Sector

LEMMA PowerOnShape ==
  ASSUME IInv, ShapeInv, PowerOn
  PROVE  ShapeInv'
<1>1. /\ pc = "off" /\ src = None /\ gc.for = "none" /\ phase = "off"
      /\ phase' = "format" /\ pc' = "formatnext" /\ oldest' \in Sectors
      /\ flash' = [s \in Sectors |-> Reread(flash[s])]
      /\ UNCHANGED <<gcRequest, src, alreadyGc, gc, put>>
  BY DEF PowerOn, IInv, PhaseInv, SrcInv, Sectors
<1>2. \A s \in Sectors : /\ flash'[s].ok = flash[s].ok
                         /\ flash'[s].store = flash[s].store
                         /\ flash'[s].dirty = flash[s].dirty
                         /\ ~flash[s].ok \/ ~InUse(s) => flash'[s] = flash[s]
  BY <1>1, RereadEffect DEF IInv
<1>3. LayoutInv'
  <2>1. ASSUME NEW s \in Sectors
        PROVE  ~flash'[s].ok => flash'[s] = Erased
    BY <1>2 DEF ShapeInv, LayoutInv
  <2>2. ASSUME NEW s \in Sectors
        PROVE  /\ flash'[s].ok => flash'[s].store # "UNUSED" /\ flash'[s].dirty # "UNUSED"
               /\ flash'[s].store = "EMPTY" => flash'[s].dirty = "FALSE"
    BY <1>2 DEF ShapeInv, LayoutInv, Clean
  <2>3. ASSUME NEW s \in Sectors
        PROVE  /\ flash'[s].dirty = "GC" => flash'[1 - s].dirty = "FALSE"
               /\ InUse(s)' /\ InUse(1 - s)' =>
                     flash'[s].dirty = "GC" \/ flash'[1 - s].dirty = "GC"
    <3>1. 1 - s \in Sectors
      BY Other
    <3> QED BY <1>2, <3>1 DEF ShapeInv, LayoutInv, InUse, Clean
  <2> QED BY <2>1, <2>2, <2>3 DEF LayoutInv, Clean
<1> DEFINE bad == {s \in Sectors : ~flash[s].ok}
<1>4. /\ todo' = IF bad = Sectors THEN <<0, 1, 0, 1>>
                ELSE IF bad = {} THEN << >> ELSE <<CHOOSE s \in bad : TRUE>>
      /\ missing' = IF bad = Sectors THEN Defaults ELSE {}
  BY DEF PowerOn
<1>5. FormatInv'
  <2>1. CASE bad = Sectors
    <3>1. \A s \in Sectors : flash'[s] = Erased
      BY <1>2, <2>1 DEF ShapeInv, LayoutInv
    <3>2. \A s \in Sectors : In(s, <<0, 1, 0, 1>>)
      BY InFacts
    <3> QED BY <1>1, <1>4, <2>1, <3>1, <3>2 DEF FormatInv, Erased, In
  <2>2. CASE bad = {}
    <3>1. \A s \in Sectors : ~In(s, << >>)
      BY InFacts
    <3>2. bad # Sectors
      BY <2>2 DEF Sectors
    <3>3. todo' = << >> /\ missing' = {}
      BY <1>4, <2>2, <3>2
    <3> QED BY <1>1, <1>2, <2>2, <3>1, <3>3 DEF FormatInv, In
  <2>3. CASE bad # Sectors /\ bad # {}
    <3> DEFINE x == CHOOSE s \in bad : TRUE
    <3>1. x \in bad /\ x \in Sectors
      BY <2>3
    <3>2. todo' = <<x>> /\ missing' = {}
      BY <1>4, <2>3
    <3> HIDE DEF x
    <3>3. \A s \in Sectors : In(s, <<x>>) <=> s = x
      BY <3>1, InFacts
    <3>4. flash[x] = Erased /\ flash'[x] = Erased /\ Erased.dirty = "UNUSED"
      BY <1>2, <3>1 DEF ShapeInv, LayoutInv, Erased
    <3>5. \A s \in Sectors : s # x => flash'[s].ok
      <4>1. PICK t \in Sectors : t \notin bad
        BY <2>3
      <4> QED BY <1>2, <3>1, <4>1, Other
    <3>6. \A s \in Sectors : flash'[s].dirty # "GC"
      <4>1. 1 - x \in Sectors /\ 1 - (1 - x) = x /\ \A s \in Sectors : s = x \/ s = 1 - x
        BY <3>1, Other
      <4>2. flash[1 - x].dirty # "GC"
        BY <3>4, <4>1 DEF ShapeInv, LayoutInv, Clean
      <4> QED BY <1>2, <3>4, <4>1, <4>2
    <3> QED BY <1>1, <3>2, <3>3, <3>4, <3>5, <3>6 DEF FormatInv, In
  <2> QED BY <2>1, <2>2, <2>3
<1>6. oldest' # None
  BY <1>1, Constant
<1>7. MarkedInv'
  BY <1>1, <1>6 DEF MarkedInv, Collecting
<1>8. WalkInv' /\ AimInv'
  BY <1>1, <1>6 DEF ShapeInv, WalkInv, AimInv, Creating, Placed
<1> QED BY <1>3, <1>5, <1>7, <1>8 DEF ShapeInv

LEMMA StutterShape ==
  ASSUME ShapeInv, UNCHANGED vars
  PROVE  ShapeInv'
<1> USE DEF vars
<1>1. LayoutInv' /\ FormatInv' /\ MarkedInv'
  BY DEF ShapeInv, LayoutInv, FormatInv, MarkedInv, InUse, Clean, In, Collecting
<1>2. WalkInv' /\ AimInv'
  BY DEF ShapeInv, WalkInv, AimInv, InUse, Clean, In, Creating, Placed, Empty
<1> QED BY <1>1, <1>2 DEF ShapeInv

------------------------------------------------------------------------------
(* Counting records and keys.                                              *)

LEMMA Counts ==
  ASSUME TypeOK
  PROVE  /\ IsFiniteSet(Live) /\ Cardinality(Live) \in Nat
         /\ IsFiniteSet(Held) /\ Cardinality(Held) \in Nat
         /\ \A s \in Sectors :
               /\ IsFiniteSet(HeldIn(s)) /\ Cardinality(HeldIn(s)) \in Nat
               /\ Cardinality(HeldIn(s)) <= Cardinality(Keys)
               /\ Unfinished(s) \in {0, 1}
         /\ Extra \in {0, 1}
         /\ cuts \in Nat /\ cuts <= MaxCuts /\ MaxCuts \in Nat
<1>1. IsFiniteSet(Keys)
  BY KvdbAssumption DEF KvdbAssumption
<1>2. IsFiniteSet(SomeAddress)
  <2>1. \A i, j \in Int : IsFiniteSet(i..j)
    BY FS_Interval
  <2>2. Sectors = 0..1 /\ Slots \in Int
    BY Constant DEF Sectors
  <2>3. IsFiniteSet(0..1) /\ IsFiniteSet(1..Slots)
    <3>1. 0 \in Int /\ 1 \in Int /\ Slots \in Int
      BY <2>2
    <3>2. IsFiniteSet(0..1)
      BY ONLY <2>1, <3>1, Zenon
    <3>3. IsFiniteSet(1..Slots)
      BY ONLY <2>1, <3>1, Zenon
    <3> QED BY <3>2, <3>3
  <2> QED BY <2>2, <2>3, FS_Product DEF SomeAddress
<1>3. Live \in SUBSET SomeAddress
  BY OfAddress DEF Live
<1>4. Held \in SUBSET Keys /\ \A s \in Sectors : HeldIn(s) \in SUBSET Keys
  BY DEF Held, HeldIn
<1>5. IsFiniteSet(Live) /\ IsFiniteSet(Held)
  BY <1>1, <1>2, <1>3, <1>4, FS_Subset
<1>6. \A s \in Sectors : /\ IsFiniteSet(HeldIn(s))
                         /\ Cardinality(HeldIn(s)) <= Cardinality(Keys)
  BY <1>1, <1>4, FS_Subset
<1>7. Extra \in {0, 1} /\ \A s \in Sectors : Unfinished(s) \in {0, 1}
  BY DEF Extra, Unfinished
<1>8. cuts \in Nat /\ cuts <= MaxCuts /\ MaxCuts \in Nat
  BY Constant DEF TypeOK
<1> QED BY <1>5, <1>6, <1>7, <1>8, FS_CardinalityType

LEMMA Bound ==
  /\ Cardinality(Keys) \in Nat /\ Reserve \in Nat /\ Reserve >= 1
  /\ Slots > Cardinality(Keys) + MaxCuts + Reserve
BY KvdbAssumption, FS_CardinalityType DEF KvdbAssumption

(* The records in force are live.                                          *)
LEMMA CurrentLive ==
  /\ \A k : Current(k) = {a \in Live : At(a).key = k /\ At(a).st = "WRITE"}
  /\ Live \in SUBSET Addresses
BY DEF Current, Records, Live

LEMMA LiveFacts ==
  ASSUME TypeOK, NEW a \in Live
  PROVE  /\ a \in Addresses /\ At(a) \in Whole /\ At(a).key \in Keys
         /\ At(a).ok /\ At(a).st \in {"WRITE", "PRE_DELETE"}
         /\ a[1] \in Sectors /\ (SectorInv => InUse(a[1]))
<1>1. a \in Addresses /\ At(a).ok /\ At(a).st \in {"WRITE", "PRE_DELETE"}
  BY DEF Live
<1>2. At(a) \in Record /\ a[1] \in Sectors /\ a[2] \in 1..Len(flash[a[1]].kv)
  BY <1>1, OfAddress
<1>3. At(a) \in Whole /\ At(a).key \in Keys
  BY <1>1, <1>2, RecordFacts
<1>4. SectorInv => InUse(a[1])
  <2>1. flash[a[1]] \in Sector
    BY <1>2, SectorType
  <2>2. SectorInv => flash[a[1]].store \notin {"UNUSED", "EMPTY"}
    BY <1>2, EmptySeq DEF SectorInv
  <2> QED BY <2>1, <2>2 DEF InUse, Sector
<1> QED BY <1>1, <1>2, <1>3, <1>4

(* The live records stay as they are.                                      *)
Stays == Live' = Live /\ \A a \in Live : flash'[a[1]].kv[a[2]] = At(a)

LEMMA Kept ==
  ASSUME Stays
  PROVE  /\ \A k : Current(k)' = Current(k)
         /\ Held' = Held
         /\ \A s : HeldIn(s)' = HeldIn(s)
<1>1. ASSUME NEW k
      PROVE  Current(k)' = Current(k)
  <2>1. Current(k) = {a \in Live : At(a).key = k /\ At(a).st = "WRITE"}
    BY CurrentLive
  <2>2. Current(k)' = {a \in Live' : flash'[a[1]].kv[a[2]].key = k
                                  /\ flash'[a[1]].kv[a[2]].st = "WRITE"}
    BY DEF Current, Records, Live, At
  <2> QED BY <2>1, <2>2 DEF Stays
<1>2. Held' = Held
  BY <1>1 DEF Held
<1>3. ASSUME NEW s
      PROVE  HeldIn(s)' = HeldIn(s)
  BY <1>1 DEF HeldIn
<1> QED BY <1>1, <1>2, <1>3

(* It is so when the records of both sectors stay, ...                     *)
LEMMA StaysSame ==
  ASSUME TypeOK, \A s \in Sectors : flash'[s].kv = flash[s].kv
  PROVE  Stays
<1>1. Addresses' = Addresses /\ \A a \in Addresses : flash'[a[1]].kv[a[2]] = At(a)
  BY SameRecords
<1>2. Live' = {a \in Addresses' : /\ flash'[a[1]].kv[a[2]].ok
                                  /\ flash'[a[1]].kv[a[2]].st \in {"WRITE", "PRE_DELETE"}}
  BY DEF Live, At
<1>3. Live' = Live
  BY <1>1, <1>2 DEF Live
<1> QED BY <1>1, <1>3, CurrentLive DEF Stays

(* ... when a record is marked that is neither before nor after, ...       *)
LEMMA StaysMark ==
  ASSUME TypeOK, NEW a \in Addresses, a \notin Live, NEW r \in Record,
         r.st \notin {"WRITE", "PRE_DELETE"}, flash' = Mark(a, r)
  PROVE  Stays
<1>1. /\ Addresses' = Addresses
      /\ \A b \in Addresses : flash'[b[1]].kv[b[2]] = IF b = a THEN r ELSE At(b)
  BY MarkFacts
<1>2. Live' = {b \in Addresses' : /\ flash'[b[1]].kv[b[2]].ok
                                  /\ flash'[b[1]].kv[b[2]].st \in {"WRITE", "PRE_DELETE"}}
  BY DEF Live, At
<1>3. Live' = Live
  BY <1>1, <1>2 DEF Live
<1> QED BY <1>1, <1>3, CurrentLive DEF Stays

(* ... when one is appended, ...                                           *)
LEMMA StaysPreWrite ==
  ASSUME IInv, PreWrite
  PROVE  Stays
<1>1. /\ Addresses' = Addresses \cup {Last'} /\ Last' \notin Addresses
      /\ \A a \in Addresses : flash'[a[1]].kv[a[2]] = At(a)
      /\ flash'[Last'[1]].kv[Last'[2]] = Blank("PRE_WRITE")
  BY PreWriteEffect
<1>2. Live' = {b \in Addresses' : /\ flash'[b[1]].kv[b[2]].ok
                                  /\ flash'[b[1]].kv[b[2]].st \in {"WRITE", "PRE_DELETE"}}
  BY DEF Live, At
<1>3. ~Blank("PRE_WRITE").ok
  BY DEF Blank
<1>4. Live' = Live
  BY <1>1, <1>2, <1>3 DEF Live
<1> QED BY <1>1, <1>4, CurrentLive DEF Stays

(* ... when a sector without a live record is formatted, ...               *)
LEMMA FormatRecords ==
  ASSUME IInv, Erase \/ WriteHeader
  PROVE  /\ flash'[Doomed].kv = << >>
         /\ \A b \in Addresses' : /\ b \in Addresses /\ b[1] # Doomed
                                  /\ flash'[b[1]].kv[b[2]] = At(b)
         /\ \A b \in Addresses : b[1] # Doomed => b \in Addresses'
<1> DEFINE x == Doomed
<1>1. /\ x \in Sectors /\ \A s \in Sectors : s # x => flash'[s] = flash[s]
      /\ flash'[x].kv = << >>
  BY FormatEffect, Blanks
<1> HIDE DEF x
<1>2. \A b \in Addresses' : b[1] # x /\ b \in Addresses
  <2>1. DOMAIN << >> = {}
    BY EmptySeq
  <2>2. ASSUME NEW b \in Addresses'
        PROVE  b[1] # x /\ b \in Addresses
    <3>1. PICK s \in Sectors : b \in {s} \X DOMAIN flash'[s].kv
      BY DEF Addresses
    <3>2. s # x
      BY <1>1, <2>1, <3>1
    <3> QED BY <1>1, <3>1, <3>2 DEF Addresses
  <2> QED BY <2>2
<1>3. \A b \in Addresses : b[1] # x => b \in Addresses'
  <2>1. ASSUME NEW b \in Addresses, b[1] # x
        PROVE  b \in Addresses'
    <3>1. PICK s \in Sectors : b \in {s} \X DOMAIN flash[s].kv
      BY DEF Addresses
    <3> QED BY <1>1, <2>1, <3>1 DEF Addresses
  <2> QED BY <2>1
<1>4. \A b \in Addresses : b[1] # x => flash'[b[1]].kv[b[2]] = At(b)
  BY <1>1, OfAddress DEF IInv, At
<1> QED BY <1>1, <1>2, <1>3, <1>4 DEF x

LEMMA StaysFormat ==
  ASSUME IInv, Erase \/ WriteHeader, \A a \in Live : a[1] # Doomed
  PROVE  Stays
<1>1. /\ \A b \in Addresses' : b \in Addresses /\ flash'[b[1]].kv[b[2]] = At(b)
      /\ \A b \in Live : b \in Addresses /\ b \in Addresses'
  BY FormatRecords, CurrentLive
<1>2. Live' = {b \in Addresses' : /\ flash'[b[1]].kv[b[2]].ok
                                  /\ flash'[b[1]].kv[b[2]].st \in {"WRITE", "PRE_DELETE"}}
  BY DEF Live, At
<1>3. Live' = Live
  BY <1>1, <1>2 DEF Live
<1> QED BY <1>1, <1>3 DEF Stays

(* ... and when the power comes back.                                      *)
LEMMA RereadRecords ==
  ASSUME TypeOK, NEW s \in Sectors
  PROVE  /\ Len(flash[s].kv) = 0 => Reread(flash[s]).kv \in {<< >>, <<Dead>>}
         /\ ~InUse(s) => Reread(flash[s]).kv = flash[s].kv
         /\ Len(flash[s].kv) > 0 =>
               /\ DOMAIN Reread(flash[s]).kv = DOMAIN flash[s].kv
               /\ Len(Reread(flash[s]).kv) = Len(flash[s].kv)
               /\ \A i \in 1..Len(flash[s].kv) :
                     Reread(flash[s]).kv[i] = flash[s].kv[i]
                     \/ (flash[s].kv[i] = Blank("PRE_WRITE") /\ Reread(flash[s]).kv[i] = Dead)
<1> DEFINE old == flash[s].kv
           kv == IF old = << >> THEN <<Dead>>
                 ELSE [i \in DOMAIN old |-> IF old[i] = Blank("PRE_WRITE")
                                            THEN Dead ELSE old[i]]
<1>1. /\ flash[s] \in Sector /\ old \in Seq(Record) /\ Len(old) \in Nat
      /\ DOMAIN old = 1..Len(old) /\ (old = << >> <=> Len(old) = 0)
  BY SectorType, EmptySeq
<1>2. CASE Reread(flash[s]) = flash[s]
  BY <1>1, <1>2
<1>3. CASE flash[s].ok /\ InUse(s)
  <2>1. Reread(flash[s]) = [flash[s] EXCEPT !.kv = kv]
    BY <1>3 DEF Reread, InUse
  <2>2. Reread(flash[s]).kv = kv
    BY <1>1, <2>1 DEF Sector
  <2>3. CASE Len(old) = 0
    BY <1>1, <1>3, <2>2, <2>3
  <2>4. CASE Len(old) > 0
    <3>1. kv = [i \in 1..Len(old) |-> IF old[i] = Blank("PRE_WRITE")
                                      THEN Dead ELSE old[i]]
      BY <1>1, <2>4
    <3>2. DOMAIN kv = 1..Len(old) /\ Len(kv) = Len(old)
          /\ \A i \in 1..Len(old) : kv[i] = IF old[i] = Blank("PRE_WRITE")
                                            THEN Dead ELSE old[i]
      BY <1>1, <3>1
    <3> QED BY <1>1, <1>3, <2>2, <2>4, <3>2
  <2> QED BY <1>1, <2>3, <2>4
<1>4. CASE ~(flash[s].ok /\ InUse(s))
  BY <1>2, <1>4 DEF Reread, InUse
<1> QED BY <1>3, <1>4

LEMMA RereadAddresses ==
  ASSUME IInv, PowerOn
  PROVE  /\ \A a \in Addresses' : flash'[a[1]].kv[a[2]] = Dead
                                \/ (a \in Addresses /\ flash'[a[1]].kv[a[2]] = At(a))
         /\ \A a \in Addresses : /\ a \in Addresses'
                                 /\ \/ flash'[a[1]].kv[a[2]] = At(a)
                                    \/ At(a) = Blank("PRE_WRITE")
<1>1. \A s \in Sectors : flash'[s] = Reread(flash[s])
  BY DEF PowerOn
<1>2. \A s \in Sectors : DOMAIN flash[s].kv = 1..Len(flash[s].kv)
                       /\ Len(flash[s].kv) \in Nat
  BY SectorType DEF IInv
<1>3. ASSUME NEW a \in Addresses'
      PROVE  flash'[a[1]].kv[a[2]] = Dead
             \/ (a \in Addresses /\ flash'[a[1]].kv[a[2]] = At(a))
  <2>1. PICK s \in Sectors : a \in {s} \X DOMAIN flash'[s].kv
    BY DEF Addresses
  <2>2. a[1] = s /\ a[2] \in DOMAIN flash'[s].kv /\ a = <<a[1], a[2]>>
    BY <2>1
  <2>3. CASE Len(flash[s].kv) = 0
    <3>1. flash'[s].kv \in {<< >>, <<Dead>>}
      BY <1>1, <2>3, RereadRecords DEF IInv
    <3>2. flash'[s].kv = <<Dead>> /\ a[2] = 1
      BY <2>2, <3>1
    <3> QED BY <2>2, <3>2
  <2>4. CASE Len(flash[s].kv) # 0
    <3>1. /\ DOMAIN flash'[s].kv = DOMAIN flash[s].kv
          /\ \A i \in 1..Len(flash[s].kv) :
                flash'[s].kv[i] = flash[s].kv[i] \/ flash'[s].kv[i] = Dead
      BY <1>1, <1>2, <2>4, RereadRecords DEF IInv
    <3>2. a \in Addresses
      BY <2>1, <3>1 DEF Addresses
    <3> QED BY <1>2, <2>2, <3>1, <3>2 DEF At
  <2> QED BY <2>3, <2>4
<1>4. ASSUME NEW a \in Addresses
      PROVE  /\ a \in Addresses'
             /\ flash'[a[1]].kv[a[2]] = At(a) \/ At(a) = Blank("PRE_WRITE")
  <2>1. PICK s \in Sectors : a \in {s} \X DOMAIN flash[s].kv
    BY DEF Addresses
  <2>2. a[1] = s /\ a[2] \in 1..Len(flash[s].kv) /\ a = <<a[1], a[2]>>
    BY <1>2, <2>1
  <2>3. /\ DOMAIN flash'[s].kv = DOMAIN flash[s].kv
        /\ \A i \in 1..Len(flash[s].kv) :
              flash'[s].kv[i] = flash[s].kv[i] \/ flash[s].kv[i] = Blank("PRE_WRITE")
    BY <1>1, <1>2, <2>2, RereadRecords DEF IInv
  <2>4. a \in Addresses'
    BY <2>1, <2>3 DEF Addresses
  <2> QED BY <2>2, <2>3, <2>4 DEF At
<1> QED BY <1>3, <1>4

LEMMA StaysPowerOn ==
  ASSUME IInv, PowerOn
  PROVE  Stays
<1>1. /\ \A a \in Addresses' : flash'[a[1]].kv[a[2]] = Dead
                                \/ (a \in Addresses /\ flash'[a[1]].kv[a[2]] = At(a))
      /\ \A a \in Addresses : /\ a \in Addresses'
                              /\ \/ flash'[a[1]].kv[a[2]] = At(a)
                                 \/ At(a) = Blank("PRE_WRITE")
  BY RereadAddresses
<1>2. ~Dead.ok /\ ~Blank("PRE_WRITE").ok
  BY DEF Dead, Blank
<1>3. Live' = {b \in Addresses' : /\ flash'[b[1]].kv[b[2]].ok
                                  /\ flash'[b[1]].kv[b[2]].st \in {"WRITE", "PRE_DELETE"}}
  BY DEF Live, At
<1>4. \A a \in Live : a \in Addresses' /\ flash'[a[1]].kv[a[2]] = At(a)
  BY <1>1, <1>2 DEF Live
<1>5. Live' = Live
  BY <1>1, <1>2, <1>3, <1>4 DEF Live
<1> QED BY <1>4, <1>5 DEF Stays

------------------------------------------------------------------------------
(* The steps between the operations on records.                            *)

LEMMA RestingSrc == IInv /\ Resting => src = None
BY DEF IInv, SrcInv, Resting, Creating

LEMMA Room1 ==
  ASSUME IInv, CleanInv, NEW s \in Sectors, Clean(s), flash[s].store = "USING",
         Unfinished(s) = 0
  PROVE  /\ Len(flash[s].kv) + 1 + Reserve <= Slots
         /\ Remain(s) > 0 /\ Remain(s) - 1 >= Reserve
<1>1. Len(flash[s].kv) <= Cardinality(HeldIn(s)) + cuts
  BY Counts DEF CleanInv, IInv
<1>2. /\ Len(flash[s].kv) \in Nat /\ Slots \in Nat
      /\ Cardinality(HeldIn(s)) \in Nat /\ Cardinality(HeldIn(s)) <= Cardinality(Keys)
      /\ cuts \in Nat /\ cuts <= MaxCuts /\ MaxCuts \in Nat
  BY Counts, SectorType, Constant DEF IInv
<1>3. Len(flash[s].kv) <= Cardinality(Keys) + MaxCuts
  BY <1>1, <1>2, Bound
<1>4. Len(flash[s].kv) + 1 + Reserve <= Slots
  BY <1>2, <1>3, Bound
<1>5. Remain(s) = Slots - Len(flash[s].kv)
  BY DEF Remain
<1>6. Reserve \in Nat /\ Reserve >= 1
  BY Bound
<1>7. \A n \in Nat : n + 1 + Reserve <= Slots =>
         Slots - n > 0 /\ (Slots - n) - 1 >= Reserve
  BY <1>2, <1>6
<1> QED BY <1>2, <1>4, <1>5, <1>7

(* What the cache may lead to.                                             *)
LEMMA CacheStep ==
  ASSUME IInv, CacheInv, UNCHANGED flash, pc # "write",
         \A k \in Keys : \/ cache'[k] \in {cache[k], None}
                         \/ cache'[k] \in Live
  PROVE  CacheInv'
<1>1. Addresses' = Addresses
  BY Same
<1>2. SUFFICES ASSUME NEW k \in Keys, Hit(k)'
               PROVE  flash'[cache'[k][1]].kv[cache'[k][2]].st # "PRE_WRITE"
  BY DEF CacheInv, At
<1>3. cache'[k] \in Addresses /\ At(cache'[k]).key = k
  BY <1>1, <1>2 DEF Hit, At
<1>4. cache'[k] # None
  BY <1>3, OfAddress DEF IInv
<1>5. CASE cache'[k] = cache[k]
  <2>1. Hit(k)
    BY <1>3, <1>5 DEF Hit
  <2> QED BY <1>5, <2>1 DEF CacheInv, At
<1>6. CASE cache'[k] \in Live
  <2>1. At(cache'[k]).st # "PRE_WRITE"
    BY <1>6, LiveFacts DEF IInv
  <2> QED BY <2>1 DEF At
<1> QED BY <1>4, <1>5, <1>6

LEMMA FindLive ==
  ASSUME IInv, CacheInv, pc # "write", NEW k \in Keys
  PROVE  /\ Find(k) = None => Current(k) = {}
         /\ Find(k) # None => Find(k) \in Live /\ At(Find(k)).key = k
<1>1. CASE Hit(k)
  <2>1. cache[k] \in Addresses /\ At(cache[k]) \in Whole /\ At(cache[k]).key = k
        /\ At(cache[k]).st # "PRE_WRITE"
    BY <1>1, HitFacts DEF IInv, CacheInv, Hit
  <2>2. cache[k] \in Live
    BY <2>1 DEF Live, Whole, Statuses
  <2>3. cache[k] # None
    BY <2>1, OfAddress DEF IInv
  <2> QED BY <1>1, <2>1, <2>2, <2>3 DEF Find
<1>2. CASE ~Hit(k)
  <2> DEFINE found == Records(k, {"WRITE"})
             here  == {a \in found : a[1] = oldest}
             among == IF here # {} THEN here ELSE found
  <2>1. Find(k) = IF found = {} THEN None
                  ELSE CHOOSE a \in among : \A b \in among : a[2] <= b[2]
    BY <1>2 DEF Find
  <2>2. Current(k) = found
    BY DEF Current
  <2>3. CASE found = {}
    BY <2>1, <2>2, <2>3
  <2>4. CASE found # {}
    <3>1. among \in SUBSET Addresses /\ among # {} /\ among \subseteq found
      BY <2>4 DEF Records
    <3>2. \E a \in among : \A b \in among : a[2] <= b[2]
      BY <3>1, LeastAddress DEF IInv
    <3> HIDE DEF among
    <3>3. Find(k) \in found
      BY <2>1, <2>4, <3>1, <3>2
    <3> HIDE DEF found
    <3>4. found \subseteq Live /\ \A a \in found : At(a).key = k
      BY <2>2, CurrentLive
    <3>5. Find(k) # None
      BY <3>3, <3>4, LiveFacts, OfAddress DEF IInv
    <3> QED BY <3>3, <3>4, <3>5
  <2> QED BY <2>3, <2>4
<1> QED BY <1>1, <1>2

(* The counts do not change while flash and the number of cuts do not.     *)
LEMMA LiveStays ==
  ASSUME IInv, LiveInv, Stays, UNCHANGED cuts, Extra' >= Extra
  PROVE  LiveInv'
<1>1. Held' = Held /\ Live' = Live
  BY Kept DEF Stays
<1>2. /\ Cardinality(Live) \in Nat /\ Cardinality(Held) \in Nat
      /\ cuts \in Nat /\ Extra \in {0, 1}
  BY Counts DEF IInv
<1>3. Extra' \in {0, 1}
  BY DEF Extra
<1> QED BY <1>1, <1>2, <1>3 DEF LiveInv

LEMMA CleanStays ==
  ASSUME IInv, CleanInv, Stays, UNCHANGED cuts,
         \A s \in Sectors : Clean(s)' =>
            /\ Clean(s)
            /\ flash'[s].store = flash[s].store
            /\ Len(flash'[s].kv) = Len(flash[s].kv)
            /\ flash'[s].kv = << >> => flash[s].kv = << >>
            /\ Unfinished(s)' >= Unfinished(s)
            /\ pc = "prewrite" /\ put.to = s => flash[s].kv # << >>
  PROVE  CleanInv'
<1>1. SUFFICES ASSUME NEW s \in Sectors, Clean(s)'
               PROVE  /\ flash'[s].store # "FULL"
                      /\ Len(flash'[s].kv) <= Cardinality(HeldIn(s)') + cuts' + Unfinished(s)'
                      /\ InUse(s)' /\ flash'[s].kv = << >> => cuts' > 0
  BY DEF CleanInv
<1>2. HeldIn(s)' = HeldIn(s)
  BY Kept
<1>3. /\ Cardinality(HeldIn(s)) \in Nat /\ cuts \in Nat /\ Unfinished(s) \in {0, 1}
      /\ Len(flash[s].kv) \in Nat
  BY Counts, SectorType DEF IInv
<1>4. Unfinished(s)' \in {0, 1}
  BY DEF Unfinished
<1>5. /\ flash[s].store # "FULL"
      /\ Len(flash[s].kv) <= Cardinality(HeldIn(s)) + cuts + Unfinished(s)
      /\ InUse(s) /\ flash[s].kv = << >> =>
            cuts > 0 \/ (pc = "prewrite" /\ put.to = s)
  BY <1>1 DEF CleanInv
<1> QED BY <1>1, <1>2, <1>3, <1>4, <1>5 DEF InUse

LEMMA QuietClean ==
  ASSUME IInv, CleanInv, UNCHANGED <<flash, cuts>>,
         pc \notin {"prewrite", "data", "write", "predirty", "dirty"}
  PROVE  CleanInv'
<1>1. Stays
  BY StaysSame DEF IInv
<1>2. \A s \in Sectors : Unfinished(s) = 0 /\ Unfinished(s)' \in {0, 1}
  BY DEF Unfinished
<1> QED BY <1>1, <1>2, CleanStays DEF Clean

(* Steps that neither begin nor end an operation on a record.              *)
LEMMA RestWrite ==
  ASSUME IInv, IInv', ContentInv, Stays, UNCHANGED cuts,
         Resting, Resting', ~Collecting', pc' # "full",
         CacheInv', DefaultInv', CleanInv',
         gc'.for = "none" /\ (pc' = "new" \/ (pc' = "find" /\ req'.val # None))
            => put'.key = req'.key
  PROVE  ContentInv'
<1>1. src = None /\ src' = None
  BY DEF IInv, SrcInv, Resting, Creating
<1>2. StatusInv'
  BY <1>1 DEF StatusInv
<1>3. KeyInv'
  BY <1>1 DEF KeyInv, Resting, Creating, Placed
<1>4. LiveInv'
  <2>1. Extra = 0 /\ Extra' = 0
    BY <1>1 DEF Extra
  <2> QED BY <2>1, LiveStays DEF ContentInv
<1>5. CopyInv' /\ GatherInv'
  BY DEF CopyInv, GatherInv
<1> QED BY <1>2, <1>3, <1>4, <1>5 DEF ContentInv

LEMMA Rest ==
  ASSUME IInv, IInv', ContentInv, UNCHANGED <<flash, cuts>>,
         Resting, Resting', ~Collecting', pc' # "full", CacheInv', DefaultInv',
         gc'.for = "none" /\ (pc' = "new" \/ (pc' = "find" /\ req'.val # None))
            => put'.key = req'.key
  PROVE  ContentInv'
<1>1. Stays
  BY StaysSame DEF IInv
<1>2. CleanInv'
  BY QuietClean DEF ContentInv, Resting, Creating
<1> QED BY <1>1, <1>2, RestWrite

LEMMA PowerOffContent ==
  ASSUME IInv, ContentInv, PowerOff
  PROVE  ContentInv'
<1>1. /\ UNCHANGED flash /\ src' = None /\ cache' = EmptyCache /\ pc' = "off"
      /\ gc'.for = "none" /\ phase' = "off" /\ ~put'.full
      /\ IF pc \in {"idle", "halted"} THEN UNCHANGED cuts ELSE cuts' = cuts + 1
  BY Blanks DEF PowerOff, Lost
<1>2. Stays
  BY <1>1, StaysSame DEF IInv
<1>3. CacheInv'
  <2>1. Addresses' = Addresses /\ \A k \in Keys : cache'[k] = None
    BY <1>1, Same, Blanks
  <2>2. None \notin Addresses
    BY OfAddress DEF IInv
  <2> QED BY <2>1, <2>2 DEF CacheInv, Hit
<1>4. StatusInv' /\ DefaultInv' /\ KeyInv' /\ CopyInv' /\ GatherInv'
  BY <1>1 DEF StatusInv, DefaultInv, KeyInv, CopyInv, GatherInv, Placed, Creating,
     Collecting
<1>5. pc \in {"idle", "halted"} => Extra = 0 /\ \A s \in Sectors : Unfinished(s) = 0
  BY DEF IInv, SrcInv, Extra, Unfinished
<1>6. /\ Cardinality(Live) \in Nat /\ Cardinality(Held) \in Nat
      /\ cuts \in Nat /\ Extra \in {0, 1}
  BY Counts DEF IInv
<1>7. LiveInv'
  <2>1. Live' = Live /\ Held' = Held /\ Extra' = 0
    BY <1>1, <1>2, Kept DEF Stays, Extra
  <2>2. cuts' >= cuts + Extra
    BY <1>1, <1>5, <1>6
  <2>3. cuts' \in Nat
    BY <1>1, <1>6
  <2> QED BY <1>6, <2>1, <2>2, <2>3 DEF ContentInv, LiveInv
<1>8. CleanInv'
  <2>1. SUFFICES ASSUME NEW s \in Sectors, Clean(s)
                 PROVE  /\ flash[s].store # "FULL"
                        /\ Len(flash[s].kv) <= Cardinality(HeldIn(s)') + cuts' + Unfinished(s)'
                        /\ InUse(s) /\ flash[s].kv = << >> => cuts' > 0
    BY <1>1 DEF CleanInv, Clean, InUse
  <2>2. HeldIn(s)' = HeldIn(s) /\ Unfinished(s)' = 0
    BY <1>1, <1>2, Kept DEF Unfinished
  <2>3. /\ Cardinality(HeldIn(s)) \in Nat /\ Unfinished(s) \in {0, 1}
        /\ Len(flash[s].kv) \in Nat
    BY Counts, SectorType DEF IInv
  <2>4. /\ flash[s].store # "FULL"
        /\ Len(flash[s].kv) <= Cardinality(HeldIn(s)) + cuts + Unfinished(s)
        /\ InUse(s) /\ flash[s].kv = << >> =>
              cuts > 0 \/ (pc = "prewrite" /\ put.to = s)
    BY <2>1 DEF ContentInv, CleanInv
  <2>5. cuts' >= cuts + Unfinished(s) /\ cuts' >= cuts /\ (pc = "prewrite" => cuts' > 0)
    BY <1>1, <1>5, <1>6, <2>3
  <2> QED BY <1>1, <1>6, <2>2, <2>3, <2>4, <2>5
<1> QED BY <1>1, <1>3, <1>4, <1>7, <1>8 DEF ContentInv

LEMMA HaltContent ==
  ASSUME IInv, IInv', ContentInv, Halt, UNCHANGED <<flash, cuts>>, Resting
  PROVE  ContentInv'
<1>1. /\ cache' = EmptyCache /\ pc' = "halted" /\ phase' = "halted"
      /\ gc'.for = "none" /\ Resting' /\ ~Collecting'
  BY Blanks DEF Halt, Lost, Resting, Creating, Collecting
<1>2. CacheInv'
  BY <1>1, Blanks, CacheStep DEF ContentInv, Resting, Creating
<1>3. DefaultInv'
  BY <1>1 DEF DefaultInv
<1> QED BY <1>1, <1>2, <1>3, Rest

LEMMA FormatNextContent ==
  ASSUME IInv, IInv', ShapeInv, ContentInv, FormatNext
  PROVE  ContentInv'
<1>1. /\ pc = "formatnext" /\ phase = "format"
      /\ UNCHANGED <<flash, cuts, cache, put, gc, missing>>
      /\ pc' \in {"erase", "default", "gccheck"} /\ gc'.for = "none"
      /\ phase' = "default" => todo = << >> /\ missing # {}
      /\ phase' = "default" => pc' = "default"
  BY DEF FormatNext, IInv, PhaseInv
<1>2. Resting /\ Resting' /\ ~Collecting'
  BY <1>1 DEF Resting, Creating, Collecting
<1>3. CacheInv'
  BY <1>1, CacheStep DEF ContentInv
<1>4. DefaultInv'
  <2>1. ~put'.full
    BY <1>1 DEF ContentInv, DefaultInv
  <2>2. CASE phase' = "default"
    <3>1. \A s \in Sectors : flash[s] \in {Erased, Formatted}
      BY <1>1, <2>2 DEF ShapeInv, FormatInv
    <3>2. \A s \in Sectors : flash[s].kv = << >>
      BY <3>1, Blanks
    <3>3. \A a \in Live : FALSE
      <4>1. \A a \in Live : a[1] \in Sectors /\ a[2] \in 1..Len(flash[a[1]].kv)
        BY CurrentLive, OfAddress DEF IInv
      <4> QED BY <3>2, <4>1, EmptySeq
    <3>4. \A k : Current(k) = {}
      BY <3>3, CurrentLive
    <3>5. \A k : Current(k)' = {}
      BY <1>1, <3>4, Kept, StaysSame DEF IInv
    <3> QED BY <1>1, <2>1, <2>2, <3>5 DEF DefaultInv
  <2> QED BY <2>1, <2>2 DEF DefaultInv
<1> QED BY <1>1, <1>2, <1>3, <1>4, Rest

LEMMA DefaultNextContent ==
  ASSUME IInv, IInv', ContentInv, DefaultNext
  PROVE  ContentInv'
<1>1. /\ pc = "default" /\ phase = "default" /\ missing \subseteq Keys
      /\ UNCHANGED <<flash, cuts, cache, gc>> /\ gc'.for = "none"
      /\ \/ phase' = "gccheck" /\ pc' = "gccheck"
         \/ /\ pc' = "new" /\ UNCHANGED phase
            /\ \E k \in missing : /\ req'.key = k /\ missing' = missing \ {k}
                                  /\ put'.key = k /\ ~put'.full
  <2>1. \A k, v : ToCreate(k, v).key = k /\ ~ToCreate(k, v).full
    BY DEF ToCreate, NoPut
  <2>2. missing \subseteq Keys /\ gc.for = "none" /\ pc = "default" /\ phase = "default"
    BY DEF DefaultNext, IInv, TypeOK, PhaseInv, Defaults
  <2> QED BY <2>1, <2>2 DEF DefaultNext
<1>2. Resting /\ Resting' /\ ~Collecting'
  BY <1>1 DEF Resting, Creating, Collecting
<1>3. CacheInv'
  BY <1>1, CacheStep DEF ContentInv
<1>4. DefaultInv'
  <2>1. \A k : Current(k)' = Current(k)
    BY <1>1, Kept, StaysSame DEF IInv
  <2> QED BY <1>1, <2>1 DEF ContentInv, DefaultInv
<1>5. pc' = "new" => put'.key = req'.key
  BY <1>1
<1>6. pc' \notin {"full", "find"}
  BY <1>1
<1> QED BY <1>1, <1>2, <1>3, <1>4, <1>5, <1>6, Rest

LEMMA CallContent ==
  ASSUME IInv, IInv', ContentInv, NEW k \in Keys, NEW v \in Values \cup {None}, Call(k, v)
  PROVE  ContentInv'
<1>1. /\ pc = "idle" /\ UNCHANGED <<flash, cuts, cache, phase>> /\ phase = "run"
      /\ pc' \in {"new", "find"} /\ gc'.for = "none"
      /\ pc' = "new" \/ req'.val # None => put'.key = req'.key
  BY DEF Call, ram, frames, loading, IInv, PhaseInv, ToCreate, NoPut
<1>2. Resting /\ Resting' /\ ~Collecting'
  BY <1>1 DEF Resting, Creating, Collecting
<1>3. CacheInv' /\ DefaultInv'
  BY <1>1, CacheStep DEF ContentInv, DefaultInv
<1>4. pc' # "full"
  BY <1>1
<1> QED BY <1>1, <1>2, <1>3, <1>4, Rest

LEMMA GetContent ==
  ASSUME IInv, IInv', ContentInv, NEW k \in Keys, Get(k)
  PROVE  ContentInv'
<1>1. pc = "idle" /\ UNCHANGED <<flash, cuts>> /\ phase = "run" /\ gc.for = "none"
  BY DEF Get, IInv, PhaseInv
<1>2. Resting
  BY <1>1 DEF Resting, Creating
<1>3. CASE Halt
  BY <1>1, <1>2, <1>3, HaltContent
<1>4. CASE ~Halt
  <2>1. /\ cache' = IF Find(k) = None THEN cache ELSE [cache EXCEPT ![k] = Find(k)]
        /\ UNCHANGED <<phase, pc, frames>>
    BY <1>4 DEF Get
  <2>2. Resting' /\ ~Collecting' /\ pc' = "idle" /\ phase' = "run"
    BY <1>1, <2>1 DEF Resting, Creating, Collecting, frames
  <2>3. CacheInv'
    <3>1. cache \in [Keys -> SomeAddress \cup {None}]
      BY DEF IInv, TypeOK
    <3>2. Find(k) # None => Find(k) \in Live
      BY <1>1, FindLive DEF ContentInv
    <3>3. \A j \in Keys : cache'[j] \in {cache[j], None} \/ cache'[j] \in Live
      BY <2>1, <3>1, <3>2
    <3> QED BY <1>1, <3>3, CacheStep DEF ContentInv
  <2>4. DefaultInv'
    BY <2>2 DEF DefaultInv
  <2> QED BY <1>1, <1>2, <2>2, <2>3, <2>4, Rest
<1> QED BY <1>3, <1>4

LEMMA ReturnContent ==
  ASSUME IInv, IInv', ContentInv, Return
  PROVE  ContentInv'
<1>1. /\ pc \in {"done", "absent", "full"} /\ UNCHANGED <<flash, cuts, cache, phase>>
      /\ phase = "run" /\ pc' = "idle" /\ gc'.for = "none"
  BY DEF Return, ram, frames, loading, IInv, PhaseInv
<1>2. Resting /\ Resting' /\ ~Collecting'
  BY <1>1 DEF Resting, Creating, Collecting
<1>3. CacheInv' /\ DefaultInv'
  BY <1>1, CacheStep DEF ContentInv, DefaultInv
<1> QED BY <1>1, <1>2, <1>3, Rest

LEMMA EndSetContent ==
  ASSUME IInv, IInv', ContentInv, EndSet
  PROVE  ContentInv'
<1>1. /\ pc = "endset" /\ UNCHANGED <<flash, cuts, cache, phase>>
      /\ phase = "run" /\ pc' \in {"gc", "done"}
  BY DEF EndSet, ram, frames, loading, IInv, PhaseInv
<1>2. Resting /\ Resting' /\ ~Collecting'
  BY <1>1 DEF Resting, Creating, Collecting, IInv, PhaseInv
<1>3. CacheInv' /\ DefaultInv'
  BY <1>1, CacheStep DEF ContentInv, DefaultInv
<1>4. pc' \notin {"full", "new", "find"}
  BY <1>1
<1> QED BY <1>1, <1>2, <1>3, <1>4, Rest

(* The state of a default that is created does not change.                 *)
LEMMA DefaultStays ==
  ASSUME IInv, DefaultInv, Stays, UNCHANGED missing,
         phase' \in {"off", "format", "default"} =>
            /\ phase' = phase /\ ~put'.full
            /\ pc' # "default" => pc # "default" /\ req' = req
  PROVE  DefaultInv'
BY Kept DEF DefaultInv

LEMMA GcStartContent ==
  ASSUME IInv, IInv', ContentInv, GcStart
  PROVE  ContentInv'
<1>1. /\ pc = "gc" /\ UNCHANGED <<flash, cuts>>
      /\ \/ Halt
         \/ pc' = "gcnext" /\ UNCHANGED <<phase, ram, req, put, src, alreadyGc, loading>>
  BY DEF GcStart
<1>2. Resting /\ Stays
  BY <1>1, StaysSame DEF Resting, Creating, IInv
<1>3. CASE Halt
  BY <1>1, <1>2, <1>3, HaltContent
<1>4. CASE ~Halt
  <2>1. pc' = "gcnext" /\ UNCHANGED <<phase, cache, req, put, missing>>
    BY <1>1, <1>4 DEF ram, loading
  <2>2. Resting' /\ ~Collecting'
    BY <2>1 DEF Resting, Creating, Collecting
  <2>3. CacheInv'
    BY <1>1, <2>1, CacheStep DEF ContentInv
  <2>4. DefaultInv'
    <3>1. DefaultInv /\ (phase \in {"off", "format", "default"} => ~put.full)
      BY DEF ContentInv, DefaultInv
    <3> QED BY <1>1, <1>2, <2>1, <3>1, DefaultStays
  <2> QED BY <1>1, <1>2, <2>1, <2>2, <2>3, <2>4, Rest
<1> QED BY <1>3, <1>4

LEMMA GcDoneContent ==
  ASSUME IInv, IInv', ContentInv, GcDone
  PROVE  ContentInv'
<1>1. /\ pc = "gcnext" /\ UNCHANGED <<flash, cuts, cache, phase, req, missing>>
      /\ gc.for \in {"new", "set", "gccheck", "kvcheck"} /\ pc' = GcReturn
      /\ put' = IF gc.for = "new" THEN ToCreate(req.key, req.val) ELSE put
      /\ gc'.for = "none"
  BY Blanks, TypeParts DEF GcDone, IInv, PhaseInv, GcType, loading
<1>2. /\ pc' \in {"new", "done", "gccheck", "kvstart"}
      /\ pc' = "new" => put'.key = req'.key
      /\ ~put.full => ~put'.full
  BY <1>1 DEF GcReturn, ToCreate, NoPut
<1>3. Resting /\ Resting' /\ ~Collecting' /\ Stays
  BY <1>1, <1>2, StaysSame DEF Resting, Creating, Collecting, IInv
<1>4. CacheInv'
  BY <1>1, CacheStep DEF ContentInv
<1>5. DefaultInv'
  <2>1. DefaultInv /\ (phase \in {"off", "format", "default"} => ~put.full)
    BY DEF ContentInv, DefaultInv
  <2> QED BY <1>1, <1>2, <1>3, <2>1, DefaultStays
<1>6. pc' \notin {"full", "find"}
  BY <1>2
<1> QED BY <1>1, <1>2, <1>3, <1>4, <1>5, <1>6, Rest

LEMMA GcCheckContent ==
  ASSUME IInv, IInv', ContentInv, GcCheck
  PROVE  ContentInv'
<1>1. /\ pc = "gccheck" /\ UNCHANGED <<flash, cuts, cache>>
      /\ phase = "gccheck" /\ phase' \in {"gccheck", "kvcheck"}
      /\ pc' \in {"kvstart", "gc", "gccheck"}
  BY DEF GcCheck, IInv, PhaseInv
<1>2. Resting /\ Resting' /\ ~Collecting'
  BY <1>1 DEF Resting, Creating, Collecting, IInv, PhaseInv
<1>3. CacheInv' /\ DefaultInv'
  BY <1>1, CacheStep DEF ContentInv, DefaultInv
<1>4. pc' \notin {"full", "new", "find"}
  BY <1>1
<1> QED BY <1>1, <1>2, <1>3, <1>4, Rest

LEMMA KvStartContent ==
  ASSUME IInv, IInv', ContentInv, KvStart
  PROVE  ContentInv'
<1>1. /\ pc = "kvstart" /\ UNCHANGED <<flash, cuts>> /\ phase = "kvcheck"
      /\ Halt \/ (pc' = "kvcheck" /\ UNCHANGED <<phase, cache>>)
  BY DEF KvStart, IInv, PhaseInv, ram
<1>2. Resting
  BY <1>1 DEF Resting, Creating
<1>3. CASE Halt
  BY <1>1, <1>2, <1>3, HaltContent
<1>4. CASE ~Halt
  <2>1. pc' = "kvcheck" /\ phase' = "kvcheck" /\ UNCHANGED cache
    BY <1>1, <1>4
  <2>2. Resting' /\ ~Collecting'
    BY <2>1 DEF Resting, Creating, Collecting, IInv, PhaseInv
  <2>3. CacheInv' /\ DefaultInv'
    BY <1>1, <2>1, CacheStep DEF ContentInv, DefaultInv
  <2> QED BY <1>1, <1>2, <2>1, <2>2, <2>3, Rest
<1> QED BY <1>3, <1>4

LEMMA KvEndContent ==
  ASSUME IInv, IInv', ContentInv, KvEnd
  PROVE  ContentInv'
<1>1. /\ pc = "kvend" /\ UNCHANGED <<flash, cuts, cache>>
      /\ phase = "kvcheck" /\ phase' \in {"run", "kvcheck"}
      /\ pc' \in {"gc", "idle"}
  BY DEF KvEnd, IInv, PhaseInv, ram
<1>2. Resting /\ Resting' /\ ~Collecting'
  BY <1>1 DEF Resting, Creating, Collecting, IInv, PhaseInv
<1>3. CacheInv' /\ DefaultInv'
  BY <1>1, CacheStep DEF ContentInv, DefaultInv
<1>4. pc' \notin {"full", "new", "find"}
  BY <1>1
<1> QED BY <1>1, <1>2, <1>3, <1>4, Rest

------------------------------------------------------------------------------
(* There is room: for a new record, once the collector has run, ...        *)

LEMMA NewRoom ==
  ASSUME IInv, ShapeInv, CleanInv, pc = "new", oldest # None
  PROVE  /\ gcRequest = FALSE
         /\ phase = "default" => Alloc(gcRequest) # None
         /\ Alloc(gcRequest) # None \/ (Raised(gcRequest) /\ ~alreadyGc)
<1>1. /\ gc.for = "none" /\ phase \in {"default", "run"} /\ oldest \in Sectors
      /\ gcRequest \in BOOLEAN
  BY DEF IInv, PhaseInv, TypeOK
<1>2. gcRequest = FALSE
  BY <1>1 DEF ShapeInv, WalkInv
<1>3. \A s \in Sectors : /\ flash[s].ok /\ flash[s].dirty # "GC"
                         /\ flash[s].store \in {"EMPTY", "USING", "FULL"}
                         /\ flash[s].dirty \in {"FALSE", "TRUE"}
  <2>1. ASSUME NEW s \in Sectors
        PROVE  flash[s].ok /\ flash[s].dirty # "GC"
    <3>1. CASE phase = "default"
      <4>1. Clean(s)
        BY <3>1 DEF ShapeInv, FormatInv
      <4> QED BY <4>1 DEF ShapeInv, LayoutInv, Clean, Erased
    <3>2. CASE phase = "run"
      BY <1>1, <3>2 DEF ShapeInv, FormatInv, MarkedInv, Collecting
    <3> QED BY <1>1, <3>1, <3>2
  <2>2. \A s \in Sectors : flash[s] \in Sector
    BY SectorType DEF IInv
  <2> QED BY <2>1, <2>2 DEF ShapeInv, LayoutInv, Sector
<1>4. Usable(FALSE) # {} => Alloc(FALSE) # None
  <2>1. Usable(FALSE) \in SUBSET Sectors
    BY DEF Usable
  <2> QED BY <1>1, <2>1, FirstIn, Constant DEF Alloc
<1>5. Empty = Sectors => Alloc(FALSE) # None
  <2>1. Empty \in SUBSET Sectors /\ Sectors # {}
    BY DEF Empty, Sectors
  <2> QED BY <1>1, <1>4, <2>1, FirstIn, Constant DEF Alloc
<1>6. \A s \in Sectors : Unfinished(s) = 0
  BY DEF Unfinished
<1>7. \A s \in Sectors : Clean(s) /\ flash[s].store # "EMPTY" => s \in Usable(FALSE)
  <2>1. ASSUME NEW s \in Sectors, Clean(s), flash[s].store # "EMPTY"
        PROVE  s \in Usable(FALSE)
    <3>1. flash[s].store = "USING"
      BY <1>3, <2>1 DEF CleanInv
    <3>2. Remain(s) > 0
      BY <1>6, <2>1, <3>1, Room1
    <3> QED BY <1>3, <3>1, <3>2 DEF Usable
  <2> QED BY <2>1
<1>8. ASSUME alreadyGc \/ phase = "default"
      PROVE  Alloc(gcRequest) # None
  <2>1. \A s \in Sectors : Clean(s)
    BY <1>1, <1>8 DEF ShapeInv, WalkInv, FormatInv
  <2>2. CASE \E s \in Sectors : flash[s].store # "EMPTY"
    BY <1>2, <1>4, <1>7, <2>1, <2>2
  <2>3. CASE \A s \in Sectors : flash[s].store = "EMPTY"
    <3>1. Empty = Sectors
      BY <1>3, <2>3 DEF Empty
    <3> QED BY <1>2, <1>5, <3>1
  <2> QED BY <1>2, <2>2, <2>3
<1>9. ASSUME ~alreadyGc
      PROVE  Alloc(gcRequest) # None \/ Raised(gcRequest)
  <2>1. \E s \in Sectors : flash[s].store = "EMPTY"
    <3>1. 0 \in Sectors /\ 1 \in Sectors /\ 1 - 0 = 1
      BY DEF Sectors
    <3>2. ~(InUse(0) /\ InUse(1 - 0))
      BY <1>3, <3>1 DEF ShapeInv, LayoutInv
    <3> QED BY <1>3, <3>1, <3>2 DEF InUse
  <2>2. Empty # {}
    BY <1>3, <2>1 DEF Empty
  <2> QED BY <1>2, <1>9, <2>2 DEF Raised
<1> QED BY <1>2, <1>8, <1>9

(* ... and for the copy of a record that the collector moves.              *)
LEMMA MoveRoom ==
  ASSUME IInv, ShapeInv, CleanInv, pc = "movealloc", gc.for # "none"
  PROVE  Alloc(gcRequest) # None
<1> DEFINE t == 1 - gc.sec
<1>1. /\ gc.sec \in Sectors /\ gcRequest = TRUE
      /\ phase \in {"default", "run", "gccheck", "kvcheck"} /\ oldest \in Sectors
  <2>1. gc.sec # None /\ gc \in [for : {"none", "new", "set", "gccheck", "kvcheck"},
                  rest : Seq(Sectors), sec : Sectors \cup {None},
                  at : Nat, trav : Nat]
    BY TypeParts DEF IInv, GcInv, GcType
  <2>2. gcRequest = TRUE /\ oldest # None
    BY DEF IInv, TypeOK, ShapeInv, WalkInv
  <2>3. oldest \in Sectors \cup {None}
    BY DEF IInv, TypeOK
  <2>4. phase \in {"default", "run", "gccheck", "kvcheck"}
    BY <2>1 DEF IInv, PhaseInv
  <2> QED BY <2>1, <2>2, <2>3, <2>4
<1>2. t \in Sectors
  BY <1>1, Other
<1>3. flash[gc.sec].dirty = "GC" /\ Clean(t)
  <2>1. Collecting
    BY DEF Collecting
  <2>2. flash[gc.sec].dirty = "GC"
    BY <2>1 DEF ShapeInv, MarkedInv
  <2> QED BY <1>1, <2>2 DEF ShapeInv, LayoutInv
<1>4. phase # "default"
  BY <1>1, <1>3 DEF ShapeInv, FormatInv, Clean
<1> HIDE DEF t
<1>5. flash[t].ok /\ flash[t].store \in {"EMPTY", "USING"}
  <2>1. flash[t].ok
    BY <1>1, <1>2, <1>4 DEF ShapeInv, FormatInv
  <2>2. flash[t] \in Sector
    BY <1>2, SectorType DEF IInv
  <2> QED BY <1>2, <1>3, <2>1, <2>2 DEF ShapeInv, LayoutInv, CleanInv, Sector
<1>6. CASE flash[t].store = "USING"
  <2>1. Unfinished(t) = 0
    BY DEF Unfinished
  <2>2. Remain(t) > 0
    BY <1>2, <1>3, <1>6, <2>1, Room1
  <2>3. t \in Usable(TRUE)
    BY <1>2, <1>3, <1>5, <1>6, <2>2 DEF Usable, Clean
  <2>4. Usable(TRUE) \in SUBSET Sectors
    BY DEF Usable
  <2>5. First(Usable(TRUE)) \in Sectors
    BY <1>1, <2>3, <2>4, FirstIn
  <2> QED BY <1>1, <2>3, <2>5, Constant DEF Alloc
<1>7. CASE flash[t].store = "EMPTY"
  <2>1. t \in Empty /\ Empty \in SUBSET Sectors /\ Usable(TRUE) \in SUBSET Sectors
    BY <1>2, <1>5, <1>7 DEF Empty, Usable
  <2>2. First(Empty) \in Sectors /\ (Usable(TRUE) # {} => First(Usable(TRUE)) \in Sectors)
    BY <1>1, <2>1, FirstIn
  <2> QED BY <1>1, <2>1, <2>2, Constant DEF Alloc
<1> QED BY <1>5, <1>6, <1>7

------------------------------------------------------------------------------
(* The steps that begin an operation on a record.                          *)

LEMMA NewKvContent ==
  ASSUME IInv, IInv', ShapeInv, ContentInv, NewKv
  PROVE  ContentInv'
<1>1. /\ pc = "new" /\ UNCHANGED <<flash, cuts>> /\ gc.for = "none"
      /\ phase \in {"default", "run"} /\ put.key = req.key /\ src = None
  BY DEF NewKv, IInv, PhaseInv, SrcInv, ContentInv, KeyInv
<1>2. Resting /\ Stays
  BY <1>1, StaysSame DEF Resting, Creating, IInv
<1>3. CASE oldest = None
  BY <1>1, <1>2, <1>3, HaltContent DEF NewKv
<1>4. CASE oldest # None /\ Alloc(gcRequest) # None
  <2>1. /\ put' = [put EXCEPT !.to = Alloc(gcRequest)]
        /\ pc' = IF phase = "default" THEN "status" ELSE "find"
        /\ UNCHANGED <<phase, ram, req, src, gc, loading>>
    BY <1>4 DEF NewKv
  <2>2. /\ put'.key = put.key /\ put'.full = put.full
        /\ UNCHANGED <<phase, cache, req, src, gc, missing>>
    BY <2>1, TypeParts DEF IInv, CallType, ram, loading
  <2>3. CacheInv'
    BY <1>1, <2>2, CacheStep DEF ContentInv
  <2>4. DefaultInv'
    <3>1. DefaultInv /\ (phase \in {"off", "format", "default"} => ~put.full)
      BY DEF ContentInv, DefaultInv
    <3> QED BY <1>1, <1>2, <2>2, <3>1, DefaultStays
  <2>5. ~Collecting'
    BY <1>1, <2>2 DEF Collecting
  <2>6. CASE phase # "default"
    <3>1. pc' = "find" /\ Resting'
      BY <2>1, <2>6 DEF Resting, Creating
    <3> QED BY <1>1, <1>2, <2>2, <2>3, <2>4, <2>5, <3>1, Rest
  <2>7. CASE phase = "default"
    <3>1. pc' = "status" /\ src' = None
      BY <1>1, <2>1, <2>2, <2>7
    <3>2. StatusInv' /\ CopyInv' /\ GatherInv'
      BY <2>5, <3>1 DEF StatusInv, CopyInv, GatherInv
    <3>3. KeyInv'
      <4>1. Current(req.key) = {}
        BY <1>1, <2>7 DEF ContentInv, DefaultInv
      <4>2. Current(put.key)' = {}
        BY <1>1, <1>2, <2>2, <4>1, Kept
      <4> QED BY <1>1, <2>2, <3>1, <4>2 DEF KeyInv
    <3>4. LiveInv'
      <4>1. Extra = 0 /\ Extra' = 0
        BY <1>1, <3>1 DEF Extra
      <4> QED BY <1>1, <1>2, <4>1, LiveStays DEF ContentInv
    <3>5. CleanInv'
      BY <1>1, QuietClean DEF ContentInv
    <3> QED BY <2>3, <2>4, <3>1, <3>2, <3>3, <3>4, <3>5 DEF ContentInv
  <2> QED BY <2>6, <2>7
<1>5. CASE oldest # None /\ Alloc(gcRequest) = None
  <2>1. Raised(gcRequest) /\ ~alreadyGc
    BY <1>1, <1>5, NewRoom DEF ContentInv
  <2>2. pc' = "gc" /\ UNCHANGED <<phase, cache, req, put, missing>>
    BY <1>5, <2>1 DEF NewKv, loading
  <2>3. Resting' /\ ~Collecting'
    BY <2>2 DEF Resting, Creating, Collecting
  <2>4. CacheInv'
    BY <1>1, <2>2, CacheStep DEF ContentInv
  <2>5. DefaultInv'
    <3>1. DefaultInv /\ (phase \in {"off", "format", "default"} => ~put.full)
      BY DEF ContentInv, DefaultInv
    <3> QED BY <1>1, <1>2, <2>2, <3>1, DefaultStays
  <2> QED BY <1>1, <1>2, <2>2, <2>3, <2>4, <2>5, Rest
<1> QED BY <1>3, <1>4, <1>5

LEMMA FindOldContent ==
  ASSUME IInv, IInv', ContentInv, FindOld
  PROVE  ContentInv'
<1> DEFINE a == Find(req.key)
<1>1. /\ pc = "find" /\ UNCHANGED <<flash, cuts>> /\ gc.for = "none"
      /\ phase = "run" /\ src = None /\ req.key \in Keys
      /\ req.val # None => put.key = req.key
  BY DEF FindOld, IInv, PhaseInv, SrcInv, PutInv, ContentInv, KeyInv
<1>2. Resting /\ Stays
  BY <1>1, StaysSame DEF Resting, Creating, IInv
<1>3. CASE Halt
  BY <1>1, <1>2, <1>3, HaltContent
<1>4. CASE ~Halt
  <2>1. /\ src' = a
        /\ cache' = IF a = None THEN cache ELSE [cache EXCEPT ![req.key] = a]
        /\ pc' = IF req.val = None
                 THEN IF a = None THEN "absent" ELSE "delete"
                 ELSE IF a = None THEN "status" ELSE "predelete"
        /\ UNCHANGED <<phase, req, put, gc>>
    BY <1>4 DEF FindOld
  <2>2. /\ a = None => Current(req.key) = {}
        /\ a # None => a \in Live /\ At(a).key = req.key
    BY <1>1, FindLive DEF ContentInv
  <2> HIDE DEF a
  <2>3. CacheInv'
    <3>1. cache \in [Keys -> SomeAddress \cup {None}]
      BY DEF IInv, TypeOK
    <3>2. \A j \in Keys : cache'[j] \in {cache[j], None} \/ cache'[j] \in Live
      BY <1>1, <2>1, <2>2, <3>1
    <3> QED BY <1>1, <3>2, CacheStep DEF ContentInv
  <2>4. DefaultInv' /\ CopyInv' /\ GatherInv'
    BY <1>1, <2>1 DEF DefaultInv, CopyInv, GatherInv, Collecting
  <2>5. StatusInv'
    <3>1. Live' = Live
      BY <1>2 DEF Stays
    <3>2. src' # None => pc' \in {"delete", "predelete"}
      BY <2>1
    <3> QED BY <2>1, <2>2, <3>1, <3>2 DEF StatusInv, Creating
  <2>6. KeyInv'
    <3>1. a # None => flash'[a[1]].kv[a[2]].key = req.key
      BY <1>2, <2>2 DEF Stays
    <3>2. a = None => Current(put.key)' = {} \/ pc' = "absent"
      BY <1>1, <1>2, <2>1, <2>2, Kept
    <3>3. /\ Creating' => pc' = "status" /\ src' = None
          /\ Placed' /\ src' # None => pc' = "predelete" /\ req.val # None
      BY <2>1 DEF Creating, Placed
    <3>4. pc' \notin {"new", "find"} /\ phase' = "run"
      BY <1>1, <2>1
    <3> QED BY <1>1, <2>1, <3>1, <3>2, <3>3, <3>4 DEF KeyInv, At
  <2>7. LiveInv'
    <3>1. Extra = 0 /\ Extra' \in {0, 1}
      BY <1>1 DEF Extra
    <3> QED BY <1>1, <1>2, <3>1, LiveStays DEF ContentInv
  <2>8. CleanInv'
    BY <1>1, QuietClean DEF ContentInv
  <2>9. pc' # "full"
    BY <2>1
  <2> QED BY <2>3, <2>4, <2>5, <2>6, <2>7, <2>8, <2>9 DEF ContentInv
<1> QED BY <1>3, <1>4

LEMMA GcRecordContent ==
  ASSUME IInv, IInv', ContentInv, GcRecord
  PROVE  ContentInv'
<1> DEFINE sec == gc.sec
           found == {i \in gc.at..Len(flash[sec].kv) :
                       LET r == At(<<sec, i>>)
                       IN r.ok /\ r.st \in {"WRITE", "PRE_DELETE"}}
           i0 == CHOOSE i \in found : \A j \in found : i <= j
<1>1. /\ pc = "gckv" /\ UNCHANGED <<flash, phase, ram, req, put, loading, cuts>>
      /\ gc.for # "none" /\ src = None /\ sec \in Sectors /\ gc.at \in Nat /\ gc.at >= 1
      /\ Collecting
  BY TypeParts DEF GcRecord, IInv, PhaseInv, SrcInv, GcInv, GcType, Collecting
<1>2. Stays /\ Live' = Live /\ Addresses' = Addresses
  BY <1>1, StaysSame, Same DEF IInv, Stays
<1>3. \A a \in Live : a[1] = sec => a[2] \in found /\ a = <<sec, a[2]>>
  <2>1. ASSUME NEW a \in Live, a[1] = sec
        PROVE  a[2] \in found /\ a = <<sec, a[2]>>
    <3>0. a # None
      BY LiveFacts, OfAddress DEF IInv
    <3>1. a[2] >= gc.at
      BY <1>1, <2>1, <3>0 DEF ContentInv, GatherInv
    <3>2. a[2] \in 1..Len(flash[a[1]].kv) /\ a = <<a[1], a[2]>>
          /\ At(a).ok /\ At(a).st \in {"WRITE", "PRE_DELETE"}
      BY LiveFacts, OfAddress DEF IInv
    <3> QED BY <1>1, <2>1, <3>1, <3>2
  <2> QED BY <2>1
<1>4. \A i \in found : <<sec, i>> \in Live /\ i \in Nat
  <2>1. ASSUME NEW i \in found
        PROVE  <<sec, i>> \in Live /\ i \in Nat
    <3>1. Len(flash[sec].kv) \in Nat
      BY <1>1, SectorType DEF IInv
    <3>2. i \in Nat /\ i >= 1 /\ i <= Len(flash[sec].kv)
      BY <1>1, <3>1
    <3>3. <<sec, i>> \in Addresses
      BY <1>1, <3>2, InAddresses DEF IInv
    <3> QED BY <3>2, <3>3 DEF Live
  <2> QED BY <2>1
<1>5. IF found = {}
      THEN pc' = "erase" /\ UNCHANGED <<src, gc>>
      ELSE /\ src' = <<sec, i0>>
           /\ gc' = [gc EXCEPT !.at = i0 + 1]
           /\ pc' = IF At(<<sec, i0>>).st = "WRITE" THEN "predelete" ELSE "movealloc"
  BY DEF GcRecord
<1>6. CacheInv'
  BY <1>1, CacheStep DEF ContentInv, ram
<1>7. DefaultInv'
  <2>1. DefaultInv /\ (phase \in {"off", "format", "default"} => ~put.full)
    BY DEF ContentInv, DefaultInv
  <2> QED BY <1>1, <1>2, <2>1, DefaultStays DEF loading
<1>8. LiveInv'
  <2>1. Extra = 0 /\ Extra' \in {0, 1}
    BY <1>1 DEF Extra
  <2> QED BY <1>1, <1>2, <2>1, LiveStays DEF ContentInv
<1>9. CleanInv'
  BY <1>1, QuietClean DEF ContentInv
<1>10. /\ pc' \in {"erase", "predelete", "movealloc"}
       /\ gc'.for = gc.for /\ gc'.sec = gc.sec
       /\ found # {} => gc'.at = i0 + 1
  <2>1. gc' = gc \/ gc' = [gc EXCEPT !.at = i0 + 1]
    BY <1>5
  <2> HIDE DEF found, i0
  <2> QED BY <1>5, <2>1, TypeParts DEF IInv, GcType
<1>11. KeyInv'
  BY <1>1, <1>10 DEF KeyInv, Placed, Creating
<1>12. CopyInv'
  <2>1. gc.for \in {"new", "set"} => \A a \in Addresses : a[1] = 1 - gc.sec =>
              At(a).ok /\ At(a).st = "WRITE"
    BY <1>1 DEF ContentInv, CopyInv
  <2> QED BY <1>1, <1>2, <1>10, <2>1 DEF CopyInv, At
<1>13. found # {} => /\ i0 \in found /\ <<sec, i0>> \in Live
                     /\ \A j \in found : i0 <= j
  <2>1. found \in SUBSET Nat
    BY <1>4
  <2>2. ASSUME found # {}
        PROVE  \E i \in found : \A j \in found : i <= j
    BY <2>1, <2>2, Least
  <2>3. found # {} => i0 \in found /\ \A j \in found : i0 <= j
    <3> HIDE DEF found
    <3> QED BY <2>2
  <2> QED BY <1>4, <2>3
<1> HIDE DEF found, i0
<1>14. StatusInv'
  <2>1. found # {} => At(<<sec, i0>>).st \in {"WRITE", "PRE_DELETE"}
    BY <1>13, LiveFacts DEF IInv
  <2>2. found = {} => src' = None
    BY <1>1, <1>5
  <2> QED BY <1>1, <1>2, <1>5, <1>10, <1>13, <2>1, <2>2 DEF StatusInv, Creating, At
<1>15. GatherInv'
  <2>1. SUFFICES ASSUME NEW a \in Live, a[1] = sec
                 PROVE  a = src' \/ (pc' # "erase" /\ a[2] >= gc'.at)
    BY <1>2, <1>10 DEF GatherInv
  <2>2. a[2] \in found /\ a = <<sec, a[2]>>
    BY <1>3, <2>1
  <2>3. a[2] = i0 \/ a[2] >= i0 + 1
    BY <1>4, <1>13, <2>2
  <2> QED BY <1>5, <1>10, <2>2, <2>3
<1> QED BY <1>6, <1>7, <1>8, <1>9, <1>10, <1>11, <1>12, <1>14, <1>15 DEF ContentInv

LEMMA MoveAllocContent ==
  ASSUME IInv, IInv', ShapeInv, ContentInv, MoveAlloc
  PROVE  ContentInv'
<1> DEFINE to == Alloc(gcRequest)
           old == At(src)
<1>1. /\ pc = "movealloc" /\ UNCHANGED <<flash, cuts>> /\ src # None
      /\ old \in Whole /\ old.key \in Keys
      /\ gc.for # "none" \/ phase = "kvcheck"
      /\ src \in Live /\ old.st = "PRE_DELETE"
  BY DEF MoveAlloc, IInv, PhaseInv, SrcInv, Moving, Whole, ContentInv, StatusInv
<1>2. Stays /\ Live' = Live /\ Addresses' = Addresses
  BY <1>1, StaysSame, Same DEF IInv, Stays
<1>3. oldest # None /\ phase \in {"run", "gccheck", "kvcheck"}
  <2>1. gc.for # "none" => Collecting /\ gc.sec \in Sectors
    BY <1>1, TypeParts DEF Collecting, IInv, GcInv, GcType
  <2>2. phase # "default"
    BY <1>1, <2>1 DEF ShapeInv, MarkedInv, FormatInv, Clean
  <2>3. oldest # None
    BY <1>1 DEF ShapeInv, WalkInv
  <2>4. phase \in {"default", "run", "gccheck", "kvcheck"}
    BY <1>1, TypeParts DEF IInv, PhaseInv, GcType
  <2> QED BY <2>2, <2>3, <2>4
<1>4. UNCHANGED <<phase, cache, req, gc, missing>>
  BY <1>3 DEF MoveAlloc, loading
<1>5. \/ pc' = "kvend" /\ src' = None /\ put' = put /\ gc.for = "none" /\ phase = "kvcheck"
      \/ pc' = "delete" /\ UNCHANGED <<put, src>>
      \/ /\ pc' = "status" /\ UNCHANGED src /\ put'.key = old.key
         /\ phase = "run" \/ Current(old.key) = {}
  <2>1. CASE to = None
    BY <1>1, <1>3, <2>1, MoveRoom DEF MoveAlloc, ContentInv
  <2>2. CASE to # None /\ Copied(old.key)
    BY <1>3, <2>2 DEF MoveAlloc
  <2>3. CASE to # None /\ ~Copied(old.key)
    BY <1>3, <2>3 DEF MoveAlloc, Copied, Current
  <2> QED BY <2>1, <2>2, <2>3
<1> HIDE DEF to
<1>6. CacheInv'
  BY <1>1, <1>4, CacheStep DEF ContentInv
<1>7. DefaultInv'
  BY <1>3, <1>4 DEF DefaultInv
<1>8. old = flash'[src[1]].kv[src[2]] /\ \A k : Current(k)' = Current(k)
  BY <1>1, <1>2, Kept DEF Stays
<1>9. StatusInv'
  BY <1>1, <1>2, <1>5, <1>8 DEF StatusInv, At
<1>10. KeyInv'
  <2>1. pc' = "status" /\ Placed' => src' # None /\ put'.key = old.key
    BY <1>1, <1>5
  <2>2. Placed' => pc' = "status"
    BY <1>5 DEF Placed
  <2>3. Creating' => pc' = "status"
    BY <1>5 DEF Creating
  <2>4. pc' = "status" => \/ phase' = "run" /\ src' # None
                          \/ Current(put.key)' = {}
    BY <1>1, <1>4, <1>5, <1>8
  <2>5. pc' = "status" => flash'[src'[1]].kv[src'[2]].key = put'.key
    BY <1>5, <1>8
  <2>6. phase' # "default" /\ pc' \notin {"new", "find"}
    BY <1>3, <1>4, <1>5
  <2> QED BY <2>2, <2>3, <2>4, <2>5, <2>6 DEF KeyInv, At
<1>11. LiveInv'
  <2>1. Extra' >= Extra
    <3>1. Extra \in {0, 1} /\ Extra' \in {0, 1}
      BY DEF Extra
    <3>2. pc' = "kvend" => Extra = 0
      BY <1>5 DEF Extra
    <3>3. pc' # "kvend" => (Extra = 1 => Extra' = 1)
      BY <1>1, <1>4, <1>5, <1>8 DEF Extra, At
    <3> QED BY <1>5, <3>1, <3>2, <3>3
  <2> QED BY <1>1, <1>2, <2>1, LiveStays DEF ContentInv
<1>12. CleanInv'
  BY <1>1, QuietClean DEF ContentInv
<1>13. CopyInv'
  <2>1. Collecting' => Collecting /\ gc' = gc
    BY <1>1, <1>4 DEF Collecting
  <2>2. Collecting /\ gc.for \in {"new", "set"} => \A a \in Addresses : a[1] = 1 - gc.sec =>
              At(a).ok /\ At(a).st = "WRITE"
    BY <1>1 DEF ContentInv, CopyInv
  <2> QED BY <1>1, <1>2, <2>1, <2>2 DEF CopyInv, At
<1>14. GatherInv'
  <2>1. Collecting' => Collecting /\ gc' = gc /\ src' = src /\ pc' # "erase"
    BY <1>1, <1>4, <1>5 DEF Collecting
  <2> QED BY <1>1, <1>2, <2>1 DEF ContentInv, GatherInv
<1> QED BY <1>5, <1>6, <1>7, <1>9, <1>10, <1>11, <1>12, <1>13, <1>14 DEF ContentInv

------------------------------------------------------------------------------
(* The steps that write flash and leave the live records as they are.      *)

LEMMA PowerOnContent ==
  ASSUME IInv, IInv', ContentInv, PowerOn
  PROVE  ContentInv'
<1>1. /\ pc = "off" /\ src = None /\ gc.for = "none" /\ phase = "off"
      /\ phase' = "format" /\ pc' = "formatnext"
      /\ flash' = [s \in Sectors |-> Reread(flash[s])]
      /\ UNCHANGED <<cuts, cache, put, gc>>
  BY DEF PowerOn, IInv, PhaseInv, SrcInv
<1>2. Resting /\ Resting' /\ ~Collecting'
  BY <1>1 DEF Resting, Creating, Collecting
<1>3. Stays
  BY StaysPowerOn
<1>4. CacheInv'
  <2>1. SUFFICES ASSUME NEW k \in Keys, Hit(k)'
                 PROVE  flash'[cache'[k][1]].kv[cache'[k][2]].st # "PRE_WRITE"
    BY DEF CacheInv, At
  <2> DEFINE a == cache[k]
  <2>2. a \in Addresses' /\ flash'[a[1]].kv[a[2]].key = k
    BY <1>1, <2>1 DEF Hit, At
  <2>3. Dead.key # k
    BY Constant DEF Dead, Blank
  <2>4. a \in Addresses /\ flash'[a[1]].kv[a[2]] = At(a)
    BY <2>2, <2>3, RereadAddresses
  <2>5. Hit(k)
    BY <2>2, <2>4 DEF Hit
  <2> QED BY <1>1, <2>4, <2>5 DEF ContentInv, CacheInv
<1>5. DefaultInv'
  BY <1>1 DEF ContentInv, DefaultInv
<1>6. CleanInv'
  <2>1. SUFFICES ASSUME NEW s \in Sectors, Clean(s)'
                 PROVE  /\ flash'[s].store # "FULL"
                        /\ Len(flash'[s].kv) <= Cardinality(HeldIn(s)') + cuts' + Unfinished(s)'
                        /\ InUse(s)' /\ flash'[s].kv = << >> => cuts' > 0
    BY DEF CleanInv
  <2>2. /\ flash'[s].store = flash[s].store /\ flash'[s].dirty = flash[s].dirty
        /\ ~InUse(s) => flash'[s] = flash[s]
    BY <1>1, RereadEffect DEF IInv
  <2>3. HeldIn(s)' = HeldIn(s) /\ Unfinished(s)' = 0 /\ Unfinished(s) = 0
    BY <1>1, <1>3, Kept DEF Unfinished
  <2>4. /\ Cardinality(HeldIn(s)) \in Nat /\ cuts \in Nat /\ Len(flash[s].kv) \in Nat
        /\ (Len(flash[s].kv) = 0 <=> flash[s].kv = << >>)
    BY Counts, SectorType, EmptySeq DEF IInv
  <2>5. /\ flash[s].store # "FULL"
        /\ Len(flash[s].kv) <= Cardinality(HeldIn(s)) + cuts
        /\ InUse(s) /\ flash[s].kv = << >> => cuts > 0
    BY <1>1, <2>1, <2>2, <2>3, <2>4 DEF ContentInv, CleanInv, Clean
  <2>6. CASE Len(flash[s].kv) = 0
    <3>1. flash'[s].kv \in {<< >>, <<Dead>>}
      BY <1>1, <2>6, RereadRecords DEF IInv
    <3>2. Len(flash'[s].kv) \in {0, 1}
      BY <3>1
    <3>3. CASE InUse(s)
      <4>1. cuts > 0
        BY <2>4, <2>5, <2>6, <3>3
      <4>2. Len(flash'[s].kv) <= Cardinality(HeldIn(s)) + cuts
        <5> DEFINE n == Len(flash'[s].kv)
                   h == Cardinality(HeldIn(s))
        <5>1. n \in {0, 1} /\ h \in Nat /\ cuts \in Nat /\ cuts > 0
          BY <2>4, <3>2, <4>1
        <5> HIDE DEF n, h
        <5>2. n <= h + cuts
          BY <5>1
        <5> QED BY <5>2 DEF n, h
      <4> QED BY <1>1, <2>2, <2>3, <2>4, <2>5, <4>1, <4>2
    <3>4. CASE ~InUse(s)
      BY <1>1, <2>2, <2>3, <2>4, <2>5, <3>4 DEF InUse
    <3> QED BY <3>3, <3>4
  <2>7. CASE Len(flash[s].kv) > 0
    <3>1. Len(flash'[s].kv) = Len(flash[s].kv)
      BY <1>1, <2>7, RereadRecords DEF IInv
    <3>2. flash'[s].kv # << >>
      BY <2>4, <2>7, <3>1
    <3> QED BY <1>1, <2>2, <2>3, <2>4, <2>5, <3>1, <3>2
  <2> QED BY <2>4, <2>6, <2>7
<1> QED BY <1>1, <1>2, <1>3, <1>4, <1>5, <1>6, RestWrite

(* A sector that is formatted holds no live record.                        *)
LEMMA DoomedEmpty ==
  ASSUME IInv, ShapeInv, ContentInv, pc \in {"erase", "header"}
  PROVE  \A a \in Live : a[1] # Doomed
<1> DEFINE x == Doomed
<1>1. SUFFICES ASSUME NEW a \in Live, a[1] = x
               PROVE  FALSE
  OBVIOUS
<1>2. a[2] \in 1..Len(flash[x].kv) /\ a # None
  BY <1>1, LiveFacts, OfAddress DEF IInv
<1>3. flash[x] \notin {Erased, Formatted}
  BY <1>2, Blanks, EmptySeq
<1>4. pc = "erase" /\ x \in Sectors /\ src = None
  BY <1>3, DoomedSector DEF IInv, GcInv, SrcInv
<1>5. CASE phase = "format"
  <2>1. todo # << >> /\ x = Head(todo) /\ todo \in Seq(Sectors)
    BY <1>4, <1>5, TypeParts DEF IInv, GcInv, Doomed, ScanType
  <2>2. In(x, todo)
    BY <1>4, <2>1, InQueue
  <2> QED BY <1>3, <1>4, <1>5, <2>2 DEF ShapeInv, FormatInv
<1>6. CASE phase # "format"
  <2>1. Collecting /\ x = gc.sec
    BY <1>4, <1>6 DEF Collecting, Doomed, IInv, GcInv
  <2> QED BY <1>1, <1>2, <1>4, <2>1 DEF ContentInv, GatherInv
<1> QED BY <1>5, <1>6

LEMMA FormatContent ==
  ASSUME IInv, IInv', ShapeInv, ContentInv, Erase \/ WriteHeader
  PROVE  ContentInv'
<1> DEFINE x == Doomed
<1>1. /\ pc \in {"erase", "header"} /\ pc' \in {"header", "formatnext", "gcnext"}
      /\ UNCHANGED <<phase, cache, req, put, missing, cuts>>
      /\ x \in Sectors /\ \A s \in Sectors : s # x => flash'[s] = flash[s]
      /\ pc = "header" => flash[x] = Erased
      /\ flash'[x] \in {Erased, Formatted}
  BY FormatEffect DEF Erase, WriteHeader, ram, frames, loading, IInv, GcInv
<1>2. Resting /\ Resting' /\ ~Collecting' /\ src = None
  BY <1>1 DEF Resting, Creating, Collecting, IInv, SrcInv, PhaseInv
<1>3. \A a \in Live : a[1] # x
  BY DoomedEmpty DEF Erase, WriteHeader
<1>4. Stays
  BY <1>3, StaysFormat
<1>5. CacheInv'
  <2>1. SUFFICES ASSUME NEW k \in Keys, Hit(k)'
                 PROVE  flash'[cache[k][1]].kv[cache[k][2]].st # "PRE_WRITE"
    BY <1>1 DEF CacheInv, At
  <2>2. cache[k] \in Addresses' /\ flash'[cache[k][1]].kv[cache[k][2]].key = k
    BY <1>1, <2>1 DEF Hit, At
  <2>3. cache[k] \in Addresses /\ flash'[cache[k][1]].kv[cache[k][2]] = At(cache[k])
    BY <2>2, FormatRecords
  <2>4. Hit(k)
    BY <2>2, <2>3 DEF Hit
  <2> QED BY <1>1, <2>3, <2>4 DEF ContentInv, CacheInv
<1>6. DefaultInv'
  <2>1. DefaultInv /\ (phase \in {"off", "format", "default"} => ~put.full)
    BY DEF ContentInv, DefaultInv
  <2> QED BY <1>1, <1>4, <2>1, DefaultStays
<1>7. CleanInv'
  <2>1. SUFFICES ASSUME NEW s \in Sectors, Clean(s)'
                 PROVE  /\ flash'[s].store # "FULL"
                        /\ Len(flash'[s].kv) <= Cardinality(HeldIn(s)') + cuts' + Unfinished(s)'
                        /\ InUse(s)' /\ flash'[s].kv = << >> => cuts' > 0
    BY DEF CleanInv
  <2>2. HeldIn(s)' = HeldIn(s) /\ Unfinished(s)' = 0 /\ Unfinished(s) = 0
    BY <1>1, <1>4, Kept DEF Unfinished
  <2>3. /\ Cardinality(HeldIn(s)) \in Nat /\ cuts \in Nat /\ Len(flash[s].kv) \in Nat
    BY Counts, SectorType DEF IInv
  <2>4. CASE s = x
    <3>1. flash'[s] = Formatted
      BY <1>1, <2>1, <2>4 DEF Clean, Erased
    <3>2. flash'[s].store = "EMPTY" /\ Len(flash'[s].kv) = 0
      BY <3>1, Blanks DEF Formatted
    <3> QED BY <1>1, <2>2, <2>3, <3>2 DEF InUse
  <2>5. CASE s # x
    BY <1>1, <2>1, <2>2, <2>3, <2>5 DEF ContentInv, CleanInv, Clean, InUse
  <2> QED BY <2>4, <2>5
<1>8. pc' \notin {"full", "new", "find"}
  BY <1>1
<1> QED BY <1>1, <1>2, <1>4, <1>5, <1>6, <1>7, <1>8, RestWrite

(* The record that is replaced, moved or deleted stays, and so does Extra. *)
LEMMA ExtraStays ==
  ASSUME IInv, StatusInv, Stays, UNCHANGED <<src, phase>>, gc'.for = gc.for,
         pc \notin {"delete", "dirty"}
  PROVE  Extra' >= Extra
<1>1. Extra \in {0, 1} /\ Extra' \in {0, 1}
  BY DEF Extra
<1>2. ASSUME Extra = 1
      PROVE  Extra' = 1
  <2>1. /\ src # None /\ At(src).st = "PRE_DELETE"
        /\ gc.for # "none" \/ phase # "kvcheck"
        /\ Current(At(src).key) = {}
    BY <1>2 DEF Extra
  <2>2. src \in Live
    BY <2>1 DEF StatusInv
  <2>3. flash'[src[1]].kv[src[2]] = At(src) /\ \A k : Current(k)' = Current(k)
    BY <2>2, Kept DEF Stays
  <2> QED BY <2>1, <2>3 DEF Extra, At
<1> QED BY <1>1, <1>2

LEMMA UpdateSecStatusContent ==
  ASSUME IInv, IInv', ShapeInv, ContentInv, UpdateSecStatus
  PROVE  ContentInv'
<1> DEFINE x == put.to
<1>1. /\ pc = "status" /\ pc' = "prewrite"
      /\ UNCHANGED <<phase, cache, req, src, gc, missing, cuts>>
      /\ put' = [put EXCEPT !.full = /\ flash[put.to].store = "USING"
                                     /\ Remain(put.to) - 1 < Reserve]
      /\ gc.for # "none" \/ phase \in {"kvcheck", "default", "run"}
  BY DEF UpdateSecStatus, ram, loading, IInv, PhaseInv, Moving
<1>2. /\ x \in Sectors /\ flash[x].store \in {"EMPTY", "USING"}
      /\ \A s \in Sectors : /\ flash'[s].ok = flash[s].ok
                            /\ flash'[s].dirty = flash[s].dirty
                            /\ flash'[s].kv = flash[s].kv
      /\ \A s \in Sectors : s # x => flash'[s] = flash[s]
      /\ flash'[x].store =
            IF flash[x].store = "USING" /\ Remain(x) - 1 < Reserve
            THEN "FULL" ELSE "USING"
      /\ put'.to = x /\ put'.key = put.key
  BY UpdateSecStatusEffect
<1> HIDE DEF x
<1>3. /\ Stays /\ Addresses' = Addresses /\ Live' = Live
      /\ \A a \in Addresses : flash'[a[1]].kv[a[2]] = At(a)
      /\ \A k : Current(k)' = Current(k)
  BY <1>2, StaysSame, SameRecords, Kept DEF IInv, Stays
<1>4. Clean(x) /\ flash[x].store = "USING" => Remain(x) - 1 >= Reserve /\ Remain(x) \in Int
  <2>1. Unfinished(x) = 0
    BY <1>1 DEF Unfinished
  <2>2. Remain(x) \in Int
    BY <1>2, SectorType, Constant DEF IInv, Remain
  <2> QED BY <1>2, <2>1, <2>2, Room1 DEF ContentInv
<1>5. Clean(x) => ~put'.full /\ flash'[x].store = "USING"
  <2>1. Reserve \in Nat
    BY Bound
  <2>2. put'.full <=> (flash[x].store = "USING" /\ Remain(x) - 1 < Reserve)
    BY <1>1, TypeParts DEF IInv, CallType, x
  <2>3. ASSUME Clean(x), flash[x].store = "USING"
        PROVE  ~(Remain(x) - 1 < Reserve)
    BY <1>4, <2>1, <2>3
  <2> QED BY <1>2, <2>2, <2>3
<1>6. CacheInv'
  BY <1>1, <1>3 DEF ContentInv, CacheInv, Hit, At
<1>7. StatusInv'
  BY <1>1, <1>3, CurrentLive DEF ContentInv, StatusInv, Creating, At
<1>8. DefaultInv'
  <2>1. phase' \in {"off", "format", "default"} => phase = "default"
    BY <1>1, TypeParts DEF IInv, PhaseInv, GcType
  <2>2. phase = "default" => Clean(x)
    BY <1>2 DEF ShapeInv, FormatInv
  <2> QED BY <1>1, <1>3, <1>5, <2>1, <2>2, DefaultStays DEF ContentInv
<1>9. KeyInv'
  <2>1. /\ phase = "default" => put.key = req.key
        /\ src # None => At(src).key = put.key /\ src \in Live
        /\ Current(put.key) = {} \/ (phase = "run" /\ src # None)
    BY <1>1 DEF ContentInv, KeyInv, StatusInv, Creating
  <2>2. src # None => flash'[src[1]].kv[src[2]] = At(src)
    BY <1>3, <2>1, CurrentLive
  <2> QED BY <1>1, <1>2, <1>3, <2>1, <2>2 DEF KeyInv, Placed, At
<1>10. LiveInv'
  BY <1>1, <1>3, ExtraStays, LiveStays DEF ContentInv
<1>11. CleanInv'
  <2>1. SUFFICES ASSUME NEW s \in Sectors, Clean(s)'
                 PROVE  /\ flash'[s].store # "FULL"
                        /\ Len(flash'[s].kv) <= Cardinality(HeldIn(s)') + cuts' + Unfinished(s)'
                        /\ InUse(s)' /\ flash'[s].kv = << >> => cuts' > 0 \/ s = x
    BY <1>1, <1>2 DEF CleanInv
  <2>2. HeldIn(s)' = HeldIn(s) /\ Unfinished(s)' = 0 /\ Unfinished(s) = 0
    BY <1>1, <1>3, Kept DEF Unfinished
  <2>3. /\ Cardinality(HeldIn(s)) \in Nat /\ cuts \in Nat /\ Len(flash[s].kv) \in Nat
    BY Counts, SectorType DEF IInv
  <2>4. Clean(s)
    BY <1>2, <2>1 DEF Clean
  <2>5. /\ flash[s].store # "FULL"
        /\ Len(flash[s].kv) <= Cardinality(HeldIn(s)) + cuts
        /\ InUse(s) /\ flash[s].kv = << >> => cuts > 0
    BY <1>1, <2>2, <2>3, <2>4 DEF ContentInv, CleanInv
  <2>6. s = x => flash'[s].store = "USING"
    BY <1>5, <2>4
  <2>7. Len(flash'[s].kv) = Len(flash[s].kv) /\ (s # x => flash'[s] = flash[s])
    BY <1>2
  <2>8. /\ Len(flash'[s].kv) <= Cardinality(HeldIn(s)') + cuts' + Unfinished(s)'
    BY <1>1, <2>2, <2>3, <2>5, <2>7
  <2>9. CASE s = x
    BY <2>6, <2>8, <2>9
  <2>10. CASE s # x
    BY <1>1, <2>5, <2>7, <2>8, <2>10 DEF InUse
  <2> QED BY <2>9, <2>10
<1>12. CopyInv' /\ GatherInv'
  BY <1>1, <1>3 DEF ContentInv, CopyInv, GatherInv, Collecting, At
<1> QED BY <1>1, <1>6, <1>7, <1>8, <1>9, <1>10, <1>11, <1>12 DEF ContentInv

LEMMA PreWriteContent ==
  ASSUME IInv, IInv', ContentInv, PreWrite
  PROVE  ContentInv'
<1> DEFINE x == put.to
<1>1. /\ pc = "prewrite" /\ pc' = "data"
      /\ UNCHANGED <<phase, cache, req, put, src, gc, missing, cuts>>
  BY DEF PreWrite, ram, frames, loading
<1>2. /\ x \in Sectors
      /\ \A s \in Sectors : /\ flash'[s].ok = flash[s].ok
                            /\ flash'[s].store = flash[s].store
                            /\ flash'[s].dirty = flash[s].dirty
      /\ \A s \in Sectors : s # x => flash'[s] = flash[s]
      /\ Len(flash'[x].kv) = Len(flash[x].kv) + 1
      /\ Addresses' = Addresses \cup {Last'}
      /\ \A a \in Addresses : flash'[a[1]].kv[a[2]] = At(a)
      /\ flash'[Last'[1]].kv[Last'[2]] = Blank("PRE_WRITE")
  BY PreWriteEffect
<1>3. Stays /\ Live' = Live /\ Live \in SUBSET Addresses
      /\ \A k : Current(k)' = Current(k)
  BY StaysPreWrite, Kept, CurrentLive DEF Stays
<1>4. CacheInv'
  <2>1. SUFFICES ASSUME NEW k \in Keys, Hit(k)'
                 PROVE  flash'[cache[k][1]].kv[cache[k][2]].st # "PRE_WRITE"
    BY <1>1 DEF CacheInv, At
  <2>2. cache[k] \in Addresses' /\ flash'[cache[k][1]].kv[cache[k][2]].key = k
    BY <1>1, <2>1 DEF Hit, At
  <2>3. Blank("PRE_WRITE").key # k
    BY Constant DEF Blank
  <2>4. cache[k] \in Addresses /\ flash'[cache[k][1]].kv[cache[k][2]] = At(cache[k])
    BY <1>2, <2>2, <2>3
  <2>5. Hit(k)
    BY <2>2, <2>4 DEF Hit
  <2> QED BY <1>1, <2>4, <2>5 DEF ContentInv, CacheInv
<1>5. StatusInv'
  BY <1>1, <1>2, <1>3 DEF ContentInv, StatusInv, Creating, At
<1>6. DefaultInv'
  <2>1. DefaultInv /\ (phase \in {"off", "format", "default"} => ~put.full)
    BY DEF ContentInv, DefaultInv
  <2> QED BY <1>1, <1>3, <2>1, DefaultStays
<1>7. KeyInv'
  <2>1. /\ phase = "default" => put.key = req.key
        /\ src # None => At(src).key = put.key /\ src \in Addresses
        /\ Current(put.key) = {} \/ (phase = "run" /\ src # None)
    BY <1>1, <1>3 DEF ContentInv, KeyInv, StatusInv, Creating
  <2>2. src # None => flash'[src[1]].kv[src[2]] = At(src)
    BY <1>2, <2>1
  <2>3. ~Placed' /\ pc' \notin {"new", "find"}
    BY <1>1 DEF Placed
  <2> QED BY <1>1, <1>3, <2>1, <2>2, <2>3 DEF KeyInv, At
<1>8. LiveInv'
  BY <1>1, <1>3, ExtraStays, LiveStays DEF ContentInv
<1>9. CleanInv'
  <2>1. SUFFICES ASSUME NEW s \in Sectors, Clean(s)'
                 PROVE  /\ flash'[s].store # "FULL"
                        /\ Len(flash'[s].kv) <= Cardinality(HeldIn(s)') + cuts' + Unfinished(s)'
                        /\ InUse(s)' /\ flash'[s].kv = << >> => cuts' > 0
    BY DEF CleanInv
  <2>2. /\ HeldIn(s)' = HeldIn(s) /\ Unfinished(s) = 0
        /\ Unfinished(s)' = IF s = x THEN 1 ELSE 0
    BY <1>1, <1>3, Kept DEF Unfinished
  <2>3. /\ Cardinality(HeldIn(s)) \in Nat /\ cuts \in Nat /\ Len(flash[s].kv) \in Nat
    BY Counts, SectorType DEF IInv
  <2>4. /\ flash[s].store # "FULL"
        /\ Len(flash[s].kv) <= Cardinality(HeldIn(s)) + cuts
        /\ InUse(s) /\ flash[s].kv = << >> => cuts > 0 \/ s = x
    BY <1>1, <1>2, <2>1, <2>2, <2>3 DEF ContentInv, CleanInv, Clean
  <2>5. CASE s = x
    <3>1. Len(flash'[s].kv) = Len(flash[s].kv) + 1
      BY <1>2, <2>5
    <3>2. flash'[s].kv # << >>
      BY <2>3, <3>1, EmptySeq
    <3> QED BY <1>1, <1>2, <2>2, <2>3, <2>4, <2>5, <3>1, <3>2
  <2>6. CASE s # x
    BY <1>1, <1>2, <2>2, <2>3, <2>4, <2>6 DEF InUse
  <2> QED BY <2>5, <2>6
<1>10. CopyInv'
  <2>1. Collecting /\ gc.for \in {"new", "set"} => \A a \in Addresses : a[1] = 1 - gc.sec =>
              At(a).ok /\ At(a).st = "WRITE"
    BY <1>1 DEF ContentInv, CopyInv
  <2>2. Collecting' => Collecting
    BY <1>1 DEF Collecting
  <2> QED BY <1>1, <1>2, <2>1, <2>2 DEF CopyInv, At
<1>11. GatherInv'
  BY <1>1, <1>3 DEF ContentInv, GatherInv, Collecting
<1> QED BY <1>1, <1>4, <1>5, <1>6, <1>7, <1>8, <1>9, <1>10, <1>11 DEF ContentInv

(* A mark leaves the length of the sectors.                                *)
LEMMA MarkLength ==
  ASSUME IInv, NEW a \in Addresses, NEW r \in Record, flash' = Mark(a, r)
  PROVE  \A s \in Sectors : /\ Clean(s)' <=> Clean(s)
                            /\ InUse(s)' <=> InUse(s)
                            /\ flash'[s].store = flash[s].store
                            /\ Len(flash'[s].kv) = Len(flash[s].kv)
                            /\ flash'[s].kv = << >> => flash[s].kv = << >>
<1>1. SUFFICES ASSUME NEW s \in Sectors
               PROVE  /\ flash'[s].store = flash[s].store
                      /\ flash'[s].dirty = flash[s].dirty
                      /\ Len(flash'[s].kv) = Len(flash[s].kv)
                      /\ flash'[s].kv = << >> => flash[s].kv = << >>
  BY DEF Clean, InUse
<1>2. /\ flash'[s].store = flash[s].store
      /\ flash'[s].dirty = flash[s].dirty
      /\ Len(flash'[s].kv) = Len(flash[s].kv)
  BY MarkFacts DEF IInv
<1>3. flash'[s].kv = << >> => Len(flash[s].kv) = 0
  BY <1>2
<1> QED BY <1>2, <1>3, SectorType, EmptySeq DEF IInv

LEMMA WriteDataContent ==
  ASSUME IInv, IInv', ContentInv, WriteData
  PROVE  ContentInv'
<1>1. /\ pc = "data" /\ pc' = "write"
      /\ UNCHANGED <<phase, cache, req, put, src, gc, missing, cuts>>
  BY DEF WriteData, ram, frames, loading
<1>2. /\ Last \in Addresses /\ Last' = Last /\ Last[1] = put.to
      /\ At(Last) = Blank("PRE_WRITE")
  BY WriteDataEffect
<1>3. PICK r \in Whole : flash' = Mark(Last, r) /\ r.st = "PRE_WRITE"
  BY WriteDataEffect
<1>4. Last \notin Live /\ r \in Record
  BY <1>2 DEF Live, Blank, Record
<1>5. Stays /\ Live' = Live /\ Live \in SUBSET Addresses
      /\ \A k : Current(k)' = Current(k)
  BY <1>2, <1>3, <1>4, StaysMark, Kept, CurrentLive DEF Stays, IInv
<1>6. /\ Addresses' = Addresses
      /\ \A b \in Addresses : b # Last => flash'[b[1]].kv[b[2]] = At(b)
  BY <1>2, <1>3, <1>4, MarkFacts DEF IInv
<1>7. CacheInv'
  <2>1. SUFFICES ASSUME NEW k \in Keys, Hit(k)', cache[k] # Last
                 PROVE  flash'[cache[k][1]].kv[cache[k][2]].st # "PRE_WRITE"
    BY <1>1, <1>2 DEF CacheInv, At
  <2>2. cache[k] \in Addresses /\ At(cache[k]).key = k
        /\ flash'[cache[k][1]].kv[cache[k][2]] = At(cache[k])
    BY <1>1, <1>6, <2>1 DEF Hit, At
  <2>3. Hit(k)
    BY <2>2 DEF Hit
  <2> QED BY <1>1, <2>2, <2>3 DEF ContentInv, CacheInv
<1>8. src # None => /\ src \in Live /\ src \in Addresses
                    /\ flash'[src[1]].kv[src[2]] = At(src)
  BY <1>1, <1>5 DEF ContentInv, StatusInv, Stays
<1>9. StatusInv'
  BY <1>1, <1>5, <1>8 DEF ContentInv, StatusInv, Creating, At
<1>10. DefaultInv'
  <2>1. DefaultInv /\ (phase \in {"off", "format", "default"} => ~put.full)
    BY DEF ContentInv, DefaultInv
  <2> QED BY <1>1, <1>5, <2>1, DefaultStays
<1>11. KeyInv'
  <2>1. /\ phase = "default" => put.key = req.key
        /\ src # None => At(src).key = put.key
        /\ Current(put.key) = {} \/ (phase = "run" /\ src # None)
    BY <1>1 DEF ContentInv, KeyInv, Creating
  <2>2. ~Placed' /\ pc' \notin {"new", "find"}
    BY <1>1 DEF Placed
  <2> QED BY <1>1, <1>5, <1>8, <2>1, <2>2 DEF KeyInv, At
<1>12. LiveInv'
  BY <1>1, <1>5, ExtraStays, LiveStays DEF ContentInv
<1>13. CleanInv'
  <2>1. \A s \in Sectors : Unfinished(s)' = Unfinished(s) /\ Unfinished(s) \in {0, 1}
    BY <1>1 DEF Unfinished
  <2>2. \A s \in Sectors : /\ Clean(s)' <=> Clean(s)
                           /\ flash'[s].store = flash[s].store
                           /\ Len(flash'[s].kv) = Len(flash[s].kv)
                           /\ flash'[s].kv = << >> => flash[s].kv = << >>
    BY <1>2, <1>3, <1>4, MarkLength
  <2> QED BY <1>1, <1>5, <2>1, <2>2, CleanStays DEF ContentInv
<1>14. CopyInv'
  <2>1. Collecting /\ gc.for \in {"new", "set"} => \A a \in Addresses : a[1] = 1 - gc.sec =>
              (At(a).ok /\ At(a).st = "WRITE") \/ a = Last
    BY <1>1 DEF ContentInv, CopyInv
  <2>2. Collecting' => Collecting
    BY <1>1 DEF Collecting
  <2> QED BY <1>1, <1>2, <1>6, <2>1, <2>2 DEF CopyInv, At
<1>15. GatherInv'
  BY <1>1, <1>5 DEF ContentInv, GatherInv, Collecting
<1> QED BY <1>1, <1>7, <1>9, <1>10, <1>11, <1>12, <1>13, <1>14, <1>15 DEF ContentInv

(* A record about to be replaced is whole.                                 *)
LEMMA PreDeleteWholeRecord ==
  ASSUME NEW r \in Record, r.st = "PRE_DELETE"
  PROVE  r.ok
<1>1. CASE r \in Whole
  BY <1>1 DEF Whole
<1>2. CASE r \notin Whole
  <2>1. r = Dead \/ r = Blank("PRE_WRITE")
    BY <1>2 DEF Record
  <2>2. Dead.st = "DELETED" /\ Blank("PRE_WRITE").st = "PRE_WRITE"
    BY DEF Dead, Blank
  <2> QED BY <2>1, <2>2
<1> QED BY <1>1, <1>2

LEMMA MarkDirtyContent ==
  ASSUME IInv, IInv', ShapeInv, ContentInv, MarkDirty
  PROVE  ContentInv'
<1>1. /\ pc \in {"predirty", "dirty"}
      /\ UNCHANGED <<phase, cache, req, put, gc, missing, cuts>>
      /\ src' = IF pc = "dirty" THEN None ELSE src
      /\ pc' = IF pc = "predirty"
               THEN IF Moving THEN "movealloc" ELSE "status"
               ELSE IF gc.for # "none" THEN "gckv"
               ELSE IF phase = "kvcheck" THEN "kvcheck"
               ELSE IF req.val = None THEN "done" ELSE "endset"
  BY DEF MarkDirty, ram, frames, loading
<1>2. /\ src \in Addresses /\ src # None
      /\ \A s \in Sectors : /\ flash'[s].ok = flash[s].ok
                            /\ flash'[s].store = flash[s].store
                            /\ flash'[s].kv = flash[s].kv
      /\ \A s \in Sectors : s # src[1] => flash'[s] = flash[s]
      /\ flash'[src[1]].dirty # "FALSE"
  <2>1. src # None
    BY MarkDirtyEffect, OfAddress DEF IInv
  <2> QED BY <2>1, MarkDirtyEffect DEF Clean
<1>3. /\ Stays /\ Addresses' = Addresses /\ Live' = Live /\ Live \in SUBSET Addresses
      /\ \A a \in Addresses : flash'[a[1]].kv[a[2]] = At(a)
      /\ \A k : Current(k)' = Current(k)
  BY <1>2, StaysSame, SameRecords, Kept, CurrentLive DEF IInv, Stays
<1>4. CacheInv'
  <2>1. SUFFICES ASSUME NEW k \in Keys, Hit(k)'
                 PROVE  flash'[cache[k][1]].kv[cache[k][2]].st # "PRE_WRITE"
    BY <1>1 DEF CacheInv, At
  <2>2. cache[k] \in Addresses /\ flash'[cache[k][1]].kv[cache[k][2]] = At(cache[k])
        /\ At(cache[k]).key = k
    BY <1>1, <1>3, <2>1 DEF Hit, At
  <2>3. Hit(k)
    BY <2>2 DEF Hit
  <2> QED BY <1>1, <2>2, <2>3 DEF ContentInv, CacheInv
<1>5. pc = "predirty" => src \in Live /\ At(src).st = "PRE_DELETE"
  BY <1>2 DEF ContentInv, StatusInv
<1>6. StatusInv'
  <2>1. pc = "predirty" => pc' # "dirty" /\ src' = src
    BY <1>1
  <2>2. pc = "dirty" => src' = None
    BY <1>1
  <2> QED BY <1>1, <1>2, <1>3, <1>5, <2>1, <2>2 DEF StatusInv, At
<1>7. DefaultInv'
  <2>1. DefaultInv /\ (phase \in {"off", "format", "default"} => ~put.full)
    BY DEF ContentInv, DefaultInv
  <2> QED BY <1>1, <1>3, <2>1, DefaultStays
<1>8. KeyInv'
  <2>1. CASE pc = "predirty" /\ ~Moving
    <3>1. gc.for = "none" /\ phase = "run" /\ At(src).key = put.key
      BY <1>2, <2>1 DEF ShapeInv, AimInv, Moving, ContentInv, KeyInv, Placed
    <3> QED BY <1>1, <1>2, <1>3, <2>1, <3>1 DEF KeyInv, At
  <2>2. CASE pc = "dirty" \/ Moving
    <3>1. pc' \in {"movealloc", "gckv", "kvcheck", "done", "endset"}
      BY <1>1, <2>2
    <3> QED BY <3>1 DEF KeyInv, Placed, Creating
  <2> QED BY <1>1, <2>1, <2>2
<1>9. LiveInv'
  <2>1. CASE pc = "predirty"
    BY <1>1, <1>3, <2>1, ExtraStays, LiveStays DEF ContentInv
  <2>2. CASE pc = "dirty"
    <3>1. src \notin Live /\ At(src) \in Record
      BY <1>2, <2>2, OfAddress DEF ContentInv, StatusInv, IInv
    <3>2. At(src).st # "PRE_DELETE"
      BY <1>2, <3>1, PreDeleteWholeRecord DEF Live
    <3>3. Extra = 0 /\ Extra' \in {0, 1}
      BY <3>2 DEF Extra
    <3> QED BY <1>1, <1>3, <3>3, LiveStays DEF ContentInv
  <2> QED BY <1>1, <2>1, <2>2
<1>10. CleanInv'
  <2>1. ASSUME NEW s \in Sectors, Clean(s)'
        PROVE  flash'[s] = flash[s] /\ Clean(s) /\ Unfinished(s) = 0 /\ Unfinished(s)' \in {0, 1}
    <3>1. s # src[1]
      BY <1>2, <2>1 DEF Clean
    <3> QED BY <1>1, <1>2, <2>1, <3>1 DEF Clean, Unfinished
  <2> QED BY <1>1, <1>3, <2>1, CleanStays DEF ContentInv
<1>11. Collecting' => Collecting /\ gc' = gc
  BY <1>1 DEF Collecting
<1>12. CopyInv'
  <2>1. Collecting /\ gc.for \in {"new", "set"} => \A a \in Addresses : a[1] = 1 - gc.sec =>
              At(a).ok /\ At(a).st = "WRITE"
    BY <1>1 DEF ContentInv, CopyInv
  <2> QED BY <1>3, <1>11, <2>1 DEF CopyInv, At
<1>13. GatherInv'
  <2>1. Collecting => \A a \in Live : a[1] = gc.sec => a = src \/ a[2] >= gc.at
    BY DEF ContentInv, GatherInv
  <2>2. pc' # "erase" /\ (pc = "predirty" => src' = src)
    BY <1>1
  <2>3. pc = "dirty" => src \notin Live
    BY <1>2 DEF ContentInv, StatusInv
  <2> QED BY <1>1, <1>3, <1>11, <2>1, <2>2, <2>3 DEF GatherInv
<1>14. pc' # "full"
  BY <1>1
<1> QED BY <1>4, <1>6, <1>7, <1>8, <1>9, <1>10, <1>12, <1>13, <1>14 DEF ContentInv

LEMMA GcSectorContent ==
  ASSUME IInv, IInv', ShapeInv, ContentInv, GcSector
  PROVE  ContentInv'
<1> DEFINE x == Head(gc.rest)
           dirty == flash[x].ok /\ flash[x].dirty \in {"TRUE", "GC"}
<1>1. /\ pc = "gcnext" /\ gc.for # "none" /\ src = None /\ gc.rest # << >>
      /\ UNCHANGED <<phase, cache, req, put, src, missing, cuts>>
  BY DEF GcSector, ram, loading, IInv, PhaseInv, SrcInv
<1>2. /\ x \in Sectors /\ gc'.sec = x /\ gc'.for = gc.for /\ gc'.at = 1
      /\ \A s \in Sectors : /\ flash'[s].ok = flash[s].ok
                            /\ flash'[s].store = flash[s].store
                            /\ flash'[s].kv = flash[s].kv
      /\ \A s \in Sectors : s # x => flash'[s] = flash[s]
      /\ IF dirty THEN pc' = "gckv" /\ flash'[x].dirty = "GC"
                  ELSE pc' = "gcnext" /\ UNCHANGED flash
  BY GcSectorEffect
<1> HIDE DEF x
<1>3. /\ Stays /\ Addresses' = Addresses /\ Live' = Live /\ Live \in SUBSET Addresses
      /\ \A a \in Addresses : flash'[a[1]].kv[a[2]] = At(a)
  BY <1>2, StaysSame, SameRecords, CurrentLive DEF IInv, Stays
<1>4. Resting /\ Resting'
  BY <1>1, <1>2 DEF Resting, Creating
<1>5. CacheInv'
  <2>1. SUFFICES ASSUME NEW k \in Keys, Hit(k)'
                 PROVE  flash'[cache[k][1]].kv[cache[k][2]].st # "PRE_WRITE"
    BY <1>1 DEF CacheInv, At
  <2>2. cache[k] \in Addresses /\ flash'[cache[k][1]].kv[cache[k][2]] = At(cache[k])
        /\ At(cache[k]).key = k
    BY <1>1, <1>3, <2>1 DEF Hit, At
  <2>3. Hit(k)
    BY <2>2 DEF Hit
  <2> QED BY <1>1, <2>2, <2>3 DEF ContentInv, CacheInv
<1>6. DefaultInv'
  <2>1. DefaultInv /\ (phase \in {"off", "format", "default"} => ~put.full)
    BY DEF ContentInv, DefaultInv
  <2> QED BY <1>1, <1>3, <2>1, DefaultStays
<1>7. CleanInv'
  <2>1. ASSUME NEW s \in Sectors, Clean(s)'
        PROVE  flash'[s] = flash[s] /\ Clean(s) /\ Unfinished(s) = 0 /\ Unfinished(s)' \in {0, 1}
    <3>1. s # x \/ ~dirty
      BY <1>2, <2>1 DEF Clean
    <3>2. flash'[s] = flash[s]
      BY <1>2, <3>1
    <3> QED BY <1>1, <2>1, <3>2 DEF Clean, Unfinished
  <2> QED BY <1>1, <1>3, <2>1, CleanStays DEF ContentInv
<1>8. pc' \notin {"full", "new", "find"}
  BY <1>2
<1>9. CASE ~dirty
  <2>1. ~Collecting'
    BY <1>2, <1>9 DEF Collecting
  <2> QED BY <1>1, <1>3, <1>4, <1>5, <1>6, <1>7, <1>8, <2>1, RestWrite
<1>10. CASE dirty
  <2>1. pc' = "gckv" /\ src' = None
    BY <1>1, <1>2, <1>10
  <2>2. StatusInv' /\ KeyInv'
    BY <2>1 DEF StatusInv, KeyInv, Placed, Creating
  <2>3. LiveInv'
    <3>1. Extra = 0 /\ Extra' = 0
      BY <1>1, <2>1 DEF Extra
    <3> QED BY <1>1, <1>3, <3>1, LiveStays DEF ContentInv
  <2>4. GatherInv'
    <3>1. \A a \in Live : a[2] >= 1
      <4>1. ASSUME NEW a \in Live
            PROVE  a[2] >= 1
        <5>1. a[1] \in Sectors /\ a[2] \in 1..Len(flash[a[1]].kv)
          BY LiveFacts, OfAddress DEF IInv
        <5>2. Len(flash[a[1]].kv) \in Nat
          BY <5>1, SectorType DEF IInv
        <5> QED BY <5>1, <5>2
      <4> QED BY <4>1
    <3> QED BY <1>2, <1>3, <2>1, <3>1 DEF GatherInv
  <2>5. CopyInv'
    <3>1. SUFFICES ASSUME gc.for \in {"new", "set"}, NEW a \in Addresses, a[1] = 1 - x
                   PROVE  FALSE
      BY <1>2, <1>3 DEF CopyInv
    <3>2. phase \in {"default", "run"} /\ ~Collecting
      BY <1>1, <3>1 DEF IInv, PhaseInv, Collecting
    <3>3. 1 - x \in Sectors /\ 1 - (1 - x) = x
      BY <1>2, Other
    <3>4. ~Clean(x) /\ phase = "run"
      BY <1>2, <1>10, <3>2 DEF ShapeInv, FormatInv, Clean
    <3>5. /\ flash[x].dirty # "GC" /\ flash[1 - x].dirty # "GC"
          /\ flash[1 - x].ok
      BY <1>1, <1>2, <3>2, <3>3, <3>4 DEF ShapeInv, FormatInv, MarkedInv
    <3>6. InUse(x)
      <4>1. flash[x] \in Sector
        BY <1>2, SectorType DEF IInv
      <4> QED BY <1>2, <1>10, <3>4, <4>1 DEF ShapeInv, LayoutInv, InUse, Sector
    <3>7. flash[1 - x].store \in {"UNUSED", "EMPTY"}
      <4>1. flash[1 - x] \in Sector
        BY <3>3, SectorType DEF IInv
      <4> QED BY <1>2, <3>3, <3>5, <3>6, <4>1 DEF ShapeInv, LayoutInv, InUse, Sector
    <3>8. flash[1 - x].kv = << >>
      BY <3>3, <3>7 DEF IInv, SectorInv
    <3> QED BY <3>1, <3>8, OfAddress, EmptySeq DEF IInv
  <2> QED BY <1>5, <1>6, <1>7, <1>8, <2>2, <2>3, <2>4, <2>5 DEF ContentInv
<1> QED BY <1>9, <1>10

LEMMA KvCheckContent ==
  ASSUME IInv, IInv', ContentInv, KvCheck
  PROVE  ContentInv'
<1> DEFINE a == <<Head(scan.rest), scan.at>>
<1>1. /\ pc = "kvcheck" /\ phase = "kvcheck" /\ gc.for = "none" /\ src = None
      /\ UNCHANGED <<phase, req, put, gc, missing, cuts>>
  BY DEF KvCheck, IInv, PhaseInv, SrcInv
<1>2. \/ /\ pc' \in {"kvend", "kvcheck"} /\ UNCHANGED <<flash, src, cache>>
      \/ /\ pc' = "kvcheck" /\ a \in Addresses /\ At(a).ok /\ At(a).st = "WRITE"
         /\ cache' = [cache EXCEPT ![At(a).key] = a]
         /\ UNCHANGED <<flash, src>>
      \/ /\ pc' = "movealloc" /\ a \in Addresses /\ At(a).ok /\ At(a).st = "PRE_DELETE"
         /\ src' = a /\ UNCHANGED <<flash, cache>>
      \/ /\ pc' = "kvend" /\ a \in Addresses /\ At(a).st = "PRE_WRITE"
         /\ flash' = Mark(a, Dead) /\ UNCHANGED <<src, cache>>
  <2>1. CASE \/ scan.rest = << >>
             \/ flash[Head(scan.rest)].store \notin {"USING", "FULL"}
             \/ a \notin Addresses
    BY <1>1, <2>1 DEF KvCheck
  <2>2. CASE scan.rest # << >> /\ flash[Head(scan.rest)].store \in {"USING", "FULL"}
             /\ a \in Addresses
    BY <1>1, <2>2 DEF KvCheck
  <2> QED BY <2>1, <2>2
<1> HIDE DEF a
<1>3. Resting /\ ~Collecting'
  BY <1>1 DEF Resting, Creating, Collecting
<1>4. DefaultInv' /\ CopyInv' /\ GatherInv'
  BY <1>1, <1>3 DEF DefaultInv, CopyInv, GatherInv
<1>5. CASE UNCHANGED flash /\ src' = src
  <2>1. pc' \in {"kvend", "kvcheck"} /\ UNCHANGED flash
    BY <1>1, <1>2, <1>5, OfAddress DEF IInv
  <2>2. Resting'
    BY <2>1 DEF Resting, Creating
  <2>3. CacheInv'
    <3>1. cache \in [Keys -> SomeAddress \cup {None}]
      BY DEF IInv, TypeOK
    <3>2. a \in Addresses /\ At(a).ok /\ At(a).st = "WRITE" => a \in Live
      BY DEF Live
    <3>3. \A k \in Keys : cache'[k] \in {cache[k], None} \/ cache'[k] \in Live
      <4>1. CASE UNCHANGED cache
        BY <4>1
      <4>2. CASE a \in Live /\ cache' = [cache EXCEPT ![At(a).key] = a]
        BY <3>1, <4>2
      <4> QED BY <1>2, <3>2, <4>1, <4>2
    <3> QED BY <1>1, <2>1, <3>3, CacheStep DEF ContentInv
  <2>4. pc' \notin {"full", "new", "find"}
    BY <2>1
  <2> QED BY <1>1, <1>3, <1>4, <2>1, <2>2, <2>3, <2>4, Rest
<1>6. CASE /\ pc' = "movealloc" /\ a \in Addresses /\ At(a).ok /\ At(a).st = "PRE_DELETE"
           /\ src' = a /\ UNCHANGED <<flash, cache>>
  <2>1. Stays /\ Live' = Live /\ a \in Live
    BY <1>6, StaysSame DEF IInv, Stays, Live
  <2>2. CacheInv'
    BY <1>1, <1>6, CacheStep DEF ContentInv
  <2>3. StatusInv'
    BY <1>6, <2>1 DEF StatusInv, At
  <2>4. KeyInv'
    BY <1>6 DEF KeyInv, Placed, Creating
  <2>5. LiveInv'
    <3>1. Extra = 0 /\ Extra' \in {0, 1}
      BY <1>1 DEF Extra
    <3> QED BY <1>1, <2>1, <3>1, LiveStays DEF ContentInv
  <2>6. CleanInv'
    BY <1>1, <1>6, QuietClean DEF ContentInv
  <2> QED BY <1>4, <1>6, <2>2, <2>3, <2>4, <2>5, <2>6 DEF ContentInv
<1>7. CASE /\ pc' = "kvend" /\ a \in Addresses /\ At(a).st = "PRE_WRITE"
           /\ flash' = Mark(a, Dead) /\ UNCHANGED <<src, cache>>
  <2>1. a \notin Live /\ Dead \in Record /\ Dead.st = "DELETED" /\ Dead.key = None
    BY <1>7 DEF Live, Record, Dead, Blank
  <2>2. Stays
    BY <1>7, <2>1, StaysMark DEF IInv
  <2>3. Resting'
    BY <1>7 DEF Resting, Creating
  <2>4. CacheInv'
    <3>1. SUFFICES ASSUME NEW k \in Keys, Hit(k)'
                   PROVE  flash'[cache[k][1]].kv[cache[k][2]].st # "PRE_WRITE"
      BY <1>7 DEF CacheInv, At
    <3>2. /\ Addresses' = Addresses
          /\ \A b \in Addresses : flash'[b[1]].kv[b[2]] = IF b = a THEN Dead ELSE At(b)
      BY <1>7, <2>1, MarkFacts DEF IInv
    <3>3. cache[k] \in Addresses /\ flash'[cache[k][1]].kv[cache[k][2]].key = k
      BY <1>7, <3>1, <3>2 DEF Hit, At
    <3>4. cache[k] # a /\ flash'[cache[k][1]].kv[cache[k][2]] = At(cache[k])
      BY <2>1, <3>2, <3>3, Constant
    <3>5. Hit(k)
      BY <3>3, <3>4 DEF Hit
    <3> QED BY <1>1, <3>4, <3>5 DEF ContentInv, CacheInv
  <2>5. CleanInv'
    <3>1. \A s \in Sectors : Unfinished(s) = 0 /\ Unfinished(s)' \in {0, 1}
      BY <1>1 DEF Unfinished
    <3>2. \A s \in Sectors : /\ Clean(s)' <=> Clean(s)
                             /\ flash'[s].store = flash[s].store
                             /\ Len(flash'[s].kv) = Len(flash[s].kv)
                             /\ flash'[s].kv = << >> => flash[s].kv = << >>
      BY <1>7, <2>1, MarkLength
    <3> QED BY <1>1, <2>2, <3>1, <3>2, CleanStays DEF ContentInv
  <2>6. pc' \notin {"full", "new", "find"}
    BY <1>7
  <2> QED BY <1>1, <1>3, <1>4, <2>2, <2>3, <2>4, <2>5, <2>6, RestWrite
<1> QED BY <1>2, <1>5, <1>6, <1>7

------------------------------------------------------------------------------
(* The steps that change which records are live.                           *)

(* A collection that has come to a record belongs to a call or to the      *)
(* recovery, not to the creation of a default.                             *)
LEMMA NotDefault ==
  ASSUME IInv, ShapeInv, pc \in {"predelete", "delete"}
  PROVE  phase \notin {"off", "format", "default"}
<1>1. CASE gc.for # "none"
  <2>1. Collecting /\ gc.sec \in Sectors
    BY <1>1, TypeParts DEF Collecting, IInv, GcInv, GcType
  <2>2. phase # "default"
    BY <2>1 DEF ShapeInv, MarkedInv, FormatInv, Clean
  <2> QED BY <1>1, <2>2, TypeParts DEF IInv, PhaseInv, GcType
<1>2. CASE gc.for = "none"
  BY <1>2 DEF IInv, PhaseInv, Moving
<1> QED BY <1>1, <1>2

(* The record at src is no longer in force.                                *)
LEMMA Less ==
  ASSUME TypeOK, src \in Live, \A k : Current(k)' = Current(k) \ {src}
  PROVE  /\ Cardinality(Held') \in Nat /\ Cardinality(Held') >= Cardinality(Held) - 1
         /\ At(src).st # "WRITE" => Held' = Held
         /\ Current(At(src).key) \ {src} # {} => Held' = Held
         /\ \A s \in Sectors :
               /\ Cardinality(HeldIn(s)') \in Nat
               /\ Cardinality(HeldIn(s)') >= Cardinality(HeldIn(s)) - 1
               /\ s # src[1] => HeldIn(s)' = HeldIn(s)
<1> DEFINE j == At(src).key
<1>1. /\ \A k : src \in Current(k) => k = j /\ At(src).st = "WRITE"
      /\ j \in Keys
  BY CurrentLive, LiveFacts
<1>2. \A k : k # j \/ At(src).st # "WRITE" => Current(k)' = Current(k)
  BY <1>1
<1>3. Held \ {j} \subseteq Held' /\ Held' \subseteq Held
  BY <1>2 DEF Held
<1>4. At(src).st # "WRITE" \/ Current(j) \ {src} # {} => Held' = Held
  BY <1>2, <1>3 DEF Held
<1>5. /\ IsFiniteSet(Held) /\ Cardinality(Held) \in Nat
      /\ \A s \in Sectors : IsFiniteSet(HeldIn(s)) /\ Cardinality(HeldIn(s)) \in Nat
  BY Counts
<1>6. Cardinality(Held') \in Nat /\ Cardinality(Held') >= Cardinality(Held) - 1
  <2>1. IsFiniteSet(Held')
    BY <1>3, <1>5, FS_Subset
  <2>2. Cardinality(Held') \in Nat /\ Cardinality(Held \ {j}) <= Cardinality(Held')
    BY <1>3, <2>1, FS_Subset, FS_CardinalityType
  <2>3. Cardinality(Held \ {j}) >= Cardinality(Held) - 1
    BY <1>5, FS_RemoveElement
  <2>4. Cardinality(Held \ {j}) \in Nat
    BY <1>5, FS_RemoveElement, FS_CardinalityType
  <2> QED BY <1>5, <2>2, <2>3, <2>4
<1>7. ASSUME NEW s \in Sectors
      PROVE  /\ Cardinality(HeldIn(s)') \in Nat
             /\ Cardinality(HeldIn(s)') >= Cardinality(HeldIn(s)) - 1
             /\ s # src[1] => HeldIn(s)' = HeldIn(s)
  <2>1. HeldIn(s) \ {j} \subseteq HeldIn(s)' /\ HeldIn(s)' \subseteq HeldIn(s)
    BY <1>2 DEF HeldIn
  <2>2. s # src[1] => HeldIn(s)' = HeldIn(s)
    BY DEF HeldIn
  <2>3. IsFiniteSet(HeldIn(s)')
    BY <1>5, <2>1, FS_Subset
  <2>4. Cardinality(HeldIn(s)') \in Nat /\ Cardinality(HeldIn(s) \ {j}) <= Cardinality(HeldIn(s)')
    BY <2>1, <2>3, FS_Subset, FS_CardinalityType
  <2>5. Cardinality(HeldIn(s) \ {j}) >= Cardinality(HeldIn(s)) - 1
    BY <1>5, FS_RemoveElement
  <2>6. Cardinality(HeldIn(s) \ {j}) \in Nat
    BY <1>5, FS_RemoveElement, FS_CardinalityType
  <2> QED BY <1>5, <2>2, <2>4, <2>5, <2>6
<1> QED BY <1>4, <1>6, <1>7

(* It keeps its place in a clean sector as one that is not finished with.  *)
LEMMA LessClean ==
  ASSUME IInv, ShapeInv, CleanInv, src \in Live, UNCHANGED <<src, gc, cuts>>,
         \A k : Current(k)' = Current(k) \ {src},
         NEW r \in Record, flash' = Mark(src, r),
         pc \in {"predelete", "delete"}, pc' \in {"predirty", "dirty"}
  PROVE  CleanInv'
<1>1. SUFFICES ASSUME NEW s \in Sectors, Clean(s)'
               PROVE  /\ flash'[s].store # "FULL"
                      /\ Len(flash'[s].kv) <= Cardinality(HeldIn(s)') + cuts' + Unfinished(s)'
                      /\ InUse(s)' /\ flash'[s].kv = << >> => cuts' > 0
  BY DEF CleanInv
<1>2. /\ src \in Addresses /\ src # None
      /\ Clean(s) /\ (InUse(s)' <=> InUse(s)) /\ flash'[s].store = flash[s].store
      /\ Len(flash'[s].kv) = Len(flash[s].kv)
      /\ flash'[s].kv = << >> => flash[s].kv = << >>
  BY <1>1, MarkLength, CurrentLive, OfAddress DEF IInv
<1>3. Unfinished(s) = 0 /\ Unfinished(s)' \in {0, 1}
  BY DEF Unfinished
<1>4. /\ Cardinality(HeldIn(s)) \in Nat /\ cuts \in Nat /\ Len(flash[s].kv) \in Nat
  BY Counts, SectorType DEF IInv
<1>5. /\ flash[s].store # "FULL"
      /\ Len(flash[s].kv) <= Cardinality(HeldIn(s)) + cuts
      /\ InUse(s) /\ flash[s].kv = << >> => cuts > 0
  BY <1>2, <1>3, <1>4 DEF CleanInv
<1>6. Len(flash'[s].kv) <= Cardinality(HeldIn(s)') + cuts' + Unfinished(s)'
  <2>1. /\ Cardinality(HeldIn(s)') \in Nat
        /\ Cardinality(HeldIn(s)') >= Cardinality(HeldIn(s)) - 1
        /\ s # src[1] => HeldIn(s)' = HeldIn(s)
    BY Less DEF IInv
  <2>2. CASE s # src[1]
    BY <1>2, <1>3, <1>4, <1>5, <2>1, <2>2
  <2>3. CASE s = src[1]
    <3>1. gc.for = "none"
      <4>1. gc.for # "none" => Collecting /\ src[1] = gc.sec
        BY <1>2 DEF Collecting, ShapeInv, AimInv
      <4> QED BY <1>2, <2>3, <4>1 DEF ShapeInv, MarkedInv, Clean
    <3>2. Unfinished(s)' = 1
      BY <2>3, <3>1 DEF Unfinished
    <3> QED BY <1>2, <1>4, <1>5, <2>1, <3>2
  <2> QED BY <2>2, <2>3
<1> QED BY <1>2, <1>5, <1>6

LEMMA PreDeleteContent ==
  ASSUME IInv, IInv', ShapeInv, ContentInv, PreDelete
  PROVE  ContentInv'
<1>1. /\ pc = "predelete" /\ pc' = "predirty"
      /\ UNCHANGED <<phase, cache, req, put, src, gc, missing, cuts>>
      /\ src # None /\ src \in Live /\ Live \in SUBSET Addresses
      /\ gc.for # "none" \/ phase = "run"
  BY CurrentLive DEF PreDelete, frames, loading, IInv, SrcInv, ContentInv, StatusInv,
     ShapeInv, AimInv
<1>2. PICK r \in Whole : /\ flash' = Mark(src, r)
                         /\ r.st = "PRE_DELETE" /\ r.key = At(src).key
  BY PreDeleteEffect
<1>3. r \in Record /\ r.ok
  BY <1>2 DEF Record, Whole
<1>4. /\ Addresses' = Addresses
      /\ \A b \in Addresses : flash'[b[1]].kv[b[2]] = IF b = src THEN r ELSE At(b)
  BY <1>1, <1>2, <1>3, MarkFacts DEF IInv
<1>5. Live' = Live
  <2>1. Live' = {b \in Addresses' : /\ flash'[b[1]].kv[b[2]].ok
                                    /\ flash'[b[1]].kv[b[2]].st \in {"WRITE", "PRE_DELETE"}}
    BY DEF Live, At
  <2> QED BY <1>1, <1>2, <1>3, <1>4, <2>1 DEF Live
<1>6. \A k : Current(k)' = Current(k) \ {src}
  <2>1. ASSUME NEW k
        PROVE  Current(k)' = Current(k) \ {src}
    <3>1. Current(k)' = {b \in Addresses' : LET q == flash'[b[1]].kv[b[2]]
                                           IN q.key = k /\ q.ok /\ q.st \in {"WRITE"}}
      BY DEF Current, Records, At
    <3>2. Current(k) = {b \in Addresses : At(b).key = k /\ At(b).ok /\ At(b).st \in {"WRITE"}}
      BY DEF Current, Records
    <3> QED BY <1>2, <1>4, <3>1, <3>2
  <2> QED BY <2>1
<1>7. CacheInv'
  <2>1. SUFFICES ASSUME NEW k \in Keys, Hit(k)', cache[k] # src
                 PROVE  flash'[cache[k][1]].kv[cache[k][2]].st # "PRE_WRITE"
    BY <1>1, <1>2, <1>4 DEF CacheInv, At
  <2>2. cache[k] \in Addresses /\ flash'[cache[k][1]].kv[cache[k][2]] = At(cache[k])
        /\ At(cache[k]).key = k
    BY <1>1, <1>4, <2>1 DEF Hit, At
  <2>3. Hit(k)
    BY <2>2 DEF Hit
  <2> QED BY <1>1, <2>2, <2>3 DEF ContentInv, CacheInv
<1>8. StatusInv'
  BY <1>1, <1>2, <1>4, <1>5 DEF StatusInv, At
<1>9. DefaultInv'
  BY <1>1, NotDefault DEF DefaultInv
<1>10. KeyInv'
  <2>1. Placed' => Placed
    BY <1>1 DEF Placed
  <2>2. Placed => At(src).key = put.key
    BY <1>1 DEF ContentInv, KeyInv
  <2>3. ~Creating' /\ pc' \notin {"new", "find"}
    BY <1>1 DEF Creating
  <2> QED BY <1>1, <1>2, <1>4, <2>1, <2>2, <2>3 DEF KeyInv, At
<1>11. LiveInv'
  <2>1. /\ Cardinality(Held') \in Nat /\ Cardinality(Held') >= Cardinality(Held) - 1
        /\ At(src).st # "WRITE" => Held' = Held
        /\ Current(At(src).key) \ {src} # {} => Held' = Held
    BY <1>1, <1>6, Less DEF IInv
  <2>2. /\ Cardinality(Live) \in Nat /\ Cardinality(Held) \in Nat
        /\ cuts \in Nat /\ Extra \in {0, 1}
        /\ Cardinality(Live) <= Cardinality(Held) + cuts + Extra
    BY Counts DEF IInv, ContentInv, LiveInv
  <2>3. Extra' = IF Current(At(src).key) \ {src} = {} THEN 1 ELSE 0
    <3>1. flash'[src[1]].kv[src[2]] = r
      BY <1>1, <1>4
    <3> QED BY <1>1, <1>2, <1>6, <3>1 DEF Extra, At
  <2>4. CASE At(src).st = "WRITE"
    <3>1. Extra = 0
      BY <2>4 DEF Extra
    <3> QED BY <1>1, <1>5, <2>1, <2>2, <2>3, <3>1 DEF LiveInv
  <2>5. CASE At(src).st # "WRITE"
    <3>1. Extra = 1 => Extra' = 1
      BY <1>1, <2>3 DEF Extra
    <3> QED BY <1>1, <1>5, <2>1, <2>2, <2>3, <2>5, <3>1 DEF LiveInv
  <2> QED BY <2>4, <2>5
<1>12. CleanInv'
  BY <1>1, <1>2, <1>3, <1>6, LessClean DEF ContentInv
<1>13. Collecting' => Collecting /\ src[1] = gc.sec /\ gc.sec \in Sectors
  BY <1>1, TypeParts DEF Collecting, ShapeInv, AimInv, IInv, GcInv, GcType
<1>14. CopyInv'
  <2>1. Collecting /\ gc.for \in {"new", "set"} => \A a \in Addresses : a[1] = 1 - gc.sec =>
              At(a).ok /\ At(a).st = "WRITE"
    BY <1>1 DEF ContentInv, CopyInv
  <2>2. Collecting' => \A a \in Addresses : a[1] = 1 - gc.sec => a # src
    BY <1>13, Other
  <2> QED BY <1>1, <1>4, <1>13, <2>1, <2>2 DEF CopyInv, At
<1>15. GatherInv'
  BY <1>1, <1>5, <1>13 DEF ContentInv, GatherInv
<1> QED BY <1>1, <1>7, <1>8, <1>9, <1>10, <1>11, <1>12, <1>14, <1>15 DEF ContentInv

LEMMA DeleteContent ==
  ASSUME IInv, IInv', ShapeInv, ContentInv, Delete
  PROVE  ContentInv'
<1>1. /\ pc = "delete" /\ pc' = "dirty"
      /\ UNCHANGED <<phase, req, put, src, gc, missing, cuts>>
      /\ cache' = IF lastDel THEN cache ELSE [cache EXCEPT ![At(src).key] = None]
      /\ src # None /\ src \in Live /\ Live \in SUBSET Addresses
  BY CurrentLive DEF Delete, frames, loading, IInv, SrcInv, ContentInv, StatusInv
<1>2. /\ Dead \in Record /\ flash' = Mark(src, Dead)
      /\ ~Dead.ok /\ Dead.key = None /\ Dead.st = "DELETED"
  BY DeleteEffect DEF Dead, Blank
<1>3. /\ Addresses' = Addresses
      /\ \A b \in Addresses : flash'[b[1]].kv[b[2]] = IF b = src THEN Dead ELSE At(b)
  BY <1>1, <1>2, MarkFacts DEF IInv
<1>4. Live' = Live \ {src}
  <2>1. Live' = {b \in Addresses' : /\ flash'[b[1]].kv[b[2]].ok
                                    /\ flash'[b[1]].kv[b[2]].st \in {"WRITE", "PRE_DELETE"}}
    BY DEF Live, At
  <2> QED BY <1>1, <1>2, <1>3, <2>1 DEF Live
<1>5. \A k : Current(k)' = Current(k) \ {src}
  <2>1. ASSUME NEW k
        PROVE  Current(k)' = Current(k) \ {src}
    <3>1. Current(k)' = {b \in Addresses' : LET q == flash'[b[1]].kv[b[2]]
                                           IN q.key = k /\ q.ok /\ q.st \in {"WRITE"}}
      BY DEF Current, Records, At
    <3>2. Current(k) = {b \in Addresses : At(b).key = k /\ At(b).ok /\ At(b).st \in {"WRITE"}}
      BY DEF Current, Records
    <3> QED BY <1>2, <1>3, <3>1, <3>2
  <2> QED BY <2>1
<1>6. CacheInv'
  <2>1. SUFFICES ASSUME NEW k \in Keys, Hit(k)'
                 PROVE  flash'[cache'[k][1]].kv[cache'[k][2]].st # "PRE_WRITE"
    BY DEF CacheInv, At
  <2>2. cache'[k] \in Addresses /\ flash'[cache'[k][1]].kv[cache'[k][2]].key = k
    BY <1>3, <2>1 DEF Hit, At
  <2>3. cache'[k] # src /\ cache'[k] # None
    BY <1>2, <1>3, <2>2, Constant, OfAddress DEF IInv
  <2>4. cache'[k] = cache[k]
    <3>1. cache \in [Keys -> SomeAddress \cup {None}]
      BY DEF IInv, TypeOK
    <3> QED BY <1>1, <2>3, <3>1
  <2>5. flash'[cache'[k][1]].kv[cache'[k][2]] = At(cache[k]) /\ Hit(k)
    BY <1>3, <2>2, <2>3, <2>4 DEF Hit
  <2> QED BY <1>1, <2>5 DEF ContentInv, CacheInv
<1>7. StatusInv'
  BY <1>1, <1>4 DEF StatusInv, Creating
<1>8. DefaultInv'
  BY <1>1, NotDefault DEF DefaultInv
<1>9. KeyInv'
  BY <1>1 DEF KeyInv, Placed, Creating
<1>10. LiveInv'
  <2>1. /\ Cardinality(Held') \in Nat /\ Cardinality(Held') >= Cardinality(Held) - 1
        /\ At(src).st # "WRITE" => Held' = Held
    BY <1>1, <1>5, Less DEF IInv
  <2>2. /\ Cardinality(Live) \in Nat /\ Cardinality(Held) \in Nat
        /\ cuts \in Nat /\ Extra \in {0, 1}
        /\ Cardinality(Live) <= Cardinality(Held) + cuts + Extra
        /\ IsFiniteSet(Live)
    BY Counts DEF IInv, ContentInv, LiveInv
  <2>3. Extra' = 0
    <3>1. flash'[src[1]].kv[src[2]] = Dead
      BY <1>1, <1>3
    <3> QED BY <1>1, <1>2, <3>1 DEF Extra, At
  <2>4. Cardinality(Live') = Cardinality(Live) - 1
    BY <1>1, <1>4, <2>2, FS_RemoveElement
  <2>5. CASE At(src).st = "WRITE"
    <3>1. Extra = 0
      BY <2>5 DEF Extra
    <3> QED BY <1>1, <2>1, <2>2, <2>3, <2>4, <3>1 DEF LiveInv
  <2>6. CASE At(src).st # "WRITE"
    BY <1>1, <2>1, <2>2, <2>3, <2>4, <2>6 DEF LiveInv
  <2> QED BY <2>5, <2>6
<1>11. CleanInv'
  BY <1>1, <1>2, <1>5, LessClean DEF ContentInv
<1>12. Collecting' => Collecting /\ src[1] = gc.sec /\ gc.sec \in Sectors
  BY <1>1, TypeParts DEF Collecting, ShapeInv, AimInv, IInv, GcInv, GcType
<1>13. CopyInv'
  <2>1. Collecting /\ gc.for \in {"new", "set"} => \A a \in Addresses : a[1] = 1 - gc.sec =>
              At(a).ok /\ At(a).st = "WRITE"
    BY <1>1 DEF ContentInv, CopyInv
  <2>2. Collecting' => \A a \in Addresses : a[1] = 1 - gc.sec => a # src
    BY <1>12, Other
  <2> QED BY <1>1, <1>3, <1>12, <2>1, <2>2 DEF CopyInv, At
<1>14. GatherInv'
  BY <1>1, <1>4, <1>12 DEF ContentInv, GatherInv
<1> QED BY <1>1, <1>6, <1>7, <1>8, <1>9, <1>10, <1>11, <1>13, <1>14 DEF ContentInv

------------------------------------------------------------------------------
(* The record that was written comes into force.                           *)

LEMMA CommitFacts ==
  ASSUME IInv, CommitWrite
  PROVE  /\ Last \in Addresses /\ Last \notin Live /\ Last[1] = put.to
         /\ put.key \in Keys /\ put.to \in Sectors
         /\ Addresses' = Addresses
         /\ \A b \in Addresses : b # Last => flash'[b[1]].kv[b[2]] = At(b)
         /\ flash'[Last[1]].kv[Last[2]].st = "WRITE"
         /\ flash'[Last[1]].kv[Last[2]].ok
         /\ Live' = Live \cup {Last}
         /\ \A k : Current(k)' = IF k = put.key THEN Current(k) \cup {Last} ELSE Current(k)
         /\ Held' = Held \cup {put.key}
         /\ \A s \in Sectors :
               HeldIn(s)' = IF s = put.to THEN HeldIn(s) \cup {put.key} ELSE HeldIn(s)
         /\ \A s \in Sectors : /\ Clean(s)' <=> Clean(s)
                               /\ InUse(s)' <=> InUse(s)
                               /\ flash'[s].store = flash[s].store
                               /\ Len(flash'[s].kv) = Len(flash[s].kv)
                               /\ flash'[s].kv = << >> => flash[s].kv = << >>
<1>1. /\ Last \in Addresses /\ Last[1] = put.to /\ put.key \in Keys
      /\ At(Last).st = "PRE_WRITE"
  BY CommitWriteEffect
<1>2. PICK r \in Whole : flash' = Mark(Last, r) /\ r.st = "WRITE" /\ r.key = put.key
  BY CommitWriteEffect
<1>3. r \in Record /\ r.ok /\ Last \notin Live /\ put.to \in Sectors
  BY <1>1, OfAddress DEF Record, Whole, Live, IInv
<1>4. /\ Addresses' = Addresses
      /\ \A b \in Addresses : flash'[b[1]].kv[b[2]] = IF b = Last THEN r ELSE At(b)
  BY <1>1, <1>2, <1>3, MarkFacts DEF IInv
<1>5. Live' = Live \cup {Last}
  <2>1. Live' = {b \in Addresses' : /\ flash'[b[1]].kv[b[2]].ok
                                    /\ flash'[b[1]].kv[b[2]].st \in {"WRITE", "PRE_DELETE"}}
    BY DEF Live, At
  <2> QED BY <1>1, <1>2, <1>3, <1>4, <2>1 DEF Live
<1>6. ASSUME NEW k
      PROVE  Current(k)' = IF k = put.key THEN Current(k) \cup {Last} ELSE Current(k)
  <2>1. Current(k)' = {b \in Addresses' : LET q == flash'[b[1]].kv[b[2]]
                                         IN q.key = k /\ q.ok /\ q.st \in {"WRITE"}}
    BY DEF Current, Records, At
  <2>2. Current(k) = {b \in Addresses : At(b).key = k /\ At(b).ok /\ At(b).st \in {"WRITE"}}
    BY DEF Current, Records
  <2> QED BY <1>1, <1>2, <1>3, <1>4, <2>1, <2>2
<1>7. Held' = Held \cup {put.key}
  BY <1>1, <1>6 DEF Held
<1>8. ASSUME NEW s \in Sectors
      PROVE  HeldIn(s)' = IF s = put.to THEN HeldIn(s) \cup {put.key} ELSE HeldIn(s)
  BY <1>1, <1>6 DEF HeldIn
<1>9. \A s \in Sectors : /\ Clean(s)' <=> Clean(s)
                         /\ InUse(s)' <=> InUse(s)
                         /\ flash'[s].store = flash[s].store
                         /\ Len(flash'[s].kv) = Len(flash[s].kv)
                         /\ flash'[s].kv = << >> => flash[s].kv = << >>
  BY <1>1, <1>2, <1>3, MarkLength
<1> QED BY <1>1, <1>2, <1>3, <1>4, <1>5, <1>6, <1>7, <1>8, <1>9

(* The keys of a sector are no more than its records in force.             *)
LEMMA HeldCount ==
  ASSUME TypeOK, NEW s \in Sectors,
         NEW A \in SUBSET Live, \A a \in Live : a[1] = s => a \in A
  PROVE  Cardinality(HeldIn(s)) <= Cardinality({a \in A : At(a).st = "WRITE"})
<1> DEFINE W == {a \in A : a[1] = s /\ At(a).st = "WRITE"}
           V == {a \in A : At(a).st = "WRITE"}
           f == [a \in W |-> At(a).key]
<1>1. IsFiniteSet(V) /\ IsFiniteSet(W)
  BY Counts, FS_Subset
<1>2. f \in [W -> HeldIn(s)]
  <2>1. ASSUME NEW a \in W
        PROVE  At(a).key \in HeldIn(s)
    <3>1. a \in Live /\ At(a).key \in Keys /\ a[1] = s /\ At(a).st = "WRITE"
      BY LiveFacts
    <3>2. a \in Current(At(a).key)
      BY <3>1, CurrentLive
    <3> QED BY <3>1, <3>2 DEF HeldIn
  <2> QED BY <2>1
<1>3. \A k \in HeldIn(s) : \E a \in W : f[a] = k
  <2>1. SUFFICES ASSUME NEW k \in HeldIn(s)
                 PROVE  \E a \in W : f[a] = k
    OBVIOUS
  <2>2. PICK a \in Current(k) : a[1] = s
    BY DEF HeldIn
  <2>3. a \in Live /\ At(a).key = k /\ At(a).st = "WRITE"
    BY CurrentLive
  <2> QED BY <2>2, <2>3
<1>4. f \in Surjection(W, HeldIn(s))
  BY <1>2, <1>3 DEF Surjection
<1> HIDE DEF f
<1>5. Cardinality(HeldIn(s)) <= Cardinality(W) /\ IsFiniteSet(HeldIn(s))
  BY <1>1, <1>4, FS_Surjection
<1>6. Cardinality(W) <= Cardinality(V)
  BY <1>1, FS_Subset
<1>7. Cardinality(HeldIn(s)) \in Nat /\ Cardinality(W) \in Nat /\ Cardinality(V) \in Nat
  BY <1>1, <1>5, FS_CardinalityType
<1> QED BY <1>5, <1>6, <1>7

(* When a collection copies a key that the other sector holds already, one *)
(* of the cuts has paid for it.                                            *)
LEMMA CopyCount ==
  ASSUME IInv, ShapeInv, ContentInv, pc = "write", gc.for \in {"new", "set"},
         put.key \in HeldIn(put.to)
  PROVE  Len(flash[put.to].kv) <= Cardinality(HeldIn(put.to)) + cuts
<1> DEFINE s == put.to
           t == gc.sec
           n == Len(flash[s].kv)
           A == {a \in Live : a[1] = t}
           W == {a \in A : At(a).st = "WRITE"}
           B == {s} \X (1..(n - 1))
<1>1. /\ src \in Live /\ src[1] = t /\ At(src).st = "PRE_DELETE" /\ At(src).key = put.key
      /\ s = 1 - t /\ Collecting
  <2>1. src # None
    BY DEF IInv, SrcInv, Moving
  <2> QED BY <2>1 DEF ContentInv, StatusInv, KeyInv, ShapeInv, AimInv, Creating, Collecting
<1>2. /\ t \in Sectors /\ s \in Sectors /\ s # t /\ n \in Nat /\ n > 0
      /\ \A x \in Sectors : x = s \/ x = t
  <2>1. t \in Sectors
    BY TypeParts DEF IInv, GcInv, GcType
  <2>2. s \in Sectors /\ n > 0
    BY DEF IInv, PutInv
  <2> QED BY <1>1, <2>1, <2>2, Other, SectorType DEF IInv
<1>3. Extra = 0
  <2>1. Current(put.key) # {}
    BY DEF HeldIn
  <2> QED BY <1>1, <2>1 DEF Extra
<1>4. /\ IsFiniteSet(Live) /\ Cardinality(Live) \in Nat
      /\ IsFiniteSet(Held) /\ Cardinality(Held) \in Nat
      /\ IsFiniteSet(HeldIn(s)) /\ Cardinality(HeldIn(s)) \in Nat
      /\ IsFiniteSet(HeldIn(t)) /\ Cardinality(HeldIn(t)) \in Nat
      /\ cuts \in Nat
      /\ Cardinality(Live) <= Cardinality(Held) + cuts
  BY <1>2, <1>3, Counts DEF IInv, ContentInv, LiveInv
<1>5. B \subseteq Live
  <2>1. SUFFICES ASSUME NEW i \in 1..(n - 1)
                 PROVE  <<s, i>> \in Live
    OBVIOUS
  <2>2. <<s, i>> \in Addresses
    BY <1>2, InAddresses DEF IInv
  <2>3. <<s, i>> # Last
    BY <1>2 DEF Last
  <2>4. At(<<s, i>>).ok /\ At(<<s, i>>).st = "WRITE"
    BY <1>1, <2>2, <2>3 DEF ContentInv, CopyInv
  <2> QED BY <2>2, <2>4 DEF Live
<1>6. IsFiniteSet(B) /\ Cardinality(B) = n - 1
  <2>1. \A i, j \in Int : IsFiniteSet(i..j)
                          /\ Cardinality(i..j) = IF i > j THEN 0 ELSE j - i + 1
    BY FS_Interval
  <2>2. 1 \in Int /\ n - 1 \in Int
    BY <1>2
  <2>3. IsFiniteSet(1..(n - 1)) /\ Cardinality(1..(n - 1)) = IF 1 > n - 1 THEN 0 ELSE (n - 1) - 1 + 1
    BY ONLY <2>1, <2>2, Zenon
  <2>4. Cardinality(1..(n - 1)) = n - 1
    BY <1>2, <2>3
  <2>5. IsFiniteSet({s}) /\ Cardinality({s}) = 1
    BY FS_Singleton
  <2>6. IsFiniteSet(B) /\ Cardinality(B) = Cardinality({s}) * Cardinality(1..(n - 1))
    BY <2>3, <2>5, FS_Product
  <2> QED BY <1>2, <2>4, <2>5, <2>6
<1>7. IsFiniteSet(A) /\ IsFiniteSet(W) /\ Cardinality(A) \in Nat /\ Cardinality(W) \in Nat
  BY <1>4, FS_Subset, FS_CardinalityType
<1>8. Cardinality(W) <= Cardinality(A) - 1
  <2>1. W \subseteq A \ {src} /\ src \in A
    BY <1>1
  <2>2. IsFiniteSet(A \ {src}) /\ Cardinality(A \ {src}) = Cardinality(A) - 1
    BY <1>7, <2>1, FS_RemoveElement
  <2>3. Cardinality(W) <= Cardinality(A \ {src})
    BY <2>1, <2>2, FS_Subset
  <2> QED BY <2>2, <2>3
<1>9. Cardinality(HeldIn(t)) <= Cardinality(W)
  <2>1. A \in SUBSET Live /\ \A a \in Live : a[1] = t => a \in A
    OBVIOUS
  <2> HIDE DEF A
  <2> QED BY <1>2, <2>1, HeldCount DEF IInv
<1>10. Cardinality(A) + (n - 1) <= Cardinality(Live)
  <2>1. A \cap B = {}
    BY <1>2
  <2>2. A \cup B \in SUBSET Live
    BY <1>5
  <2> HIDE DEF A, B
  <2>3. Cardinality(A \cap B) = 0
    BY <2>1, FS_EmptySet
  <2>4. Cardinality(A \cup B) = Cardinality(A) + Cardinality(B) - Cardinality(A \cap B)
    BY <1>6, <1>7, FS_Union
  <2>5. Cardinality(A \cup B) <= Cardinality(Live)
    BY <1>4, <2>2, FS_Subset
  <2> QED BY <1>2, <1>4, <1>6, <1>7, <2>3, <2>4, <2>5
<1>11. Cardinality(Held) <= Cardinality(HeldIn(s)) + Cardinality(HeldIn(t))
  <2>1. Held = HeldIn(s) \cup HeldIn(t)
    <3>1. ASSUME NEW k \in Held
          PROVE  k \in HeldIn(s) \cup HeldIn(t)
      <4>1. k \in Keys
        BY DEF Held
      <4>2. PICK a \in Current(k) : TRUE
        BY DEF Held
      <4>3. a[1] \in Sectors
        BY <4>2, CurrentLive, OfAddress DEF IInv
      <4> QED BY <1>2, <4>1, <4>2, <4>3 DEF HeldIn
    <3> QED BY <3>1 DEF Held, HeldIn
  <2>2. /\ IsFiniteSet(HeldIn(s) \cap HeldIn(t))
        /\ Cardinality(HeldIn(s) \cap HeldIn(t)) \in Nat
    BY <1>4, FS_Subset, FS_CardinalityType
  <2>3. Cardinality(HeldIn(s) \cup HeldIn(t)) = Cardinality(HeldIn(s))
               + Cardinality(HeldIn(t)) - Cardinality(HeldIn(s) \cap HeldIn(t))
    BY <1>4, FS_Union
  <2> QED BY <1>4, <2>1, <2>2, <2>3
<1> HIDE DEF A, B, W, s, t, n
<1>12. n <= Cardinality(HeldIn(s)) + cuts
  BY <1>2, <1>4, <1>7, <1>8, <1>9, <1>10, <1>11
<1> QED BY <1>12 DEF s, n

LEMMA CommitClean ==
  ASSUME IInv, ShapeInv, ContentInv, CommitWrite
  PROVE  CleanInv'
<1>1. /\ pc = "write" /\ pc' \in {"delete", "default", "endset"} /\ UNCHANGED cuts
  BY DEF CommitWrite
<1>2. /\ put.key \in Keys /\ put.to \in Sectors
      /\ \A s \in Sectors :
            HeldIn(s)' = IF s = put.to THEN HeldIn(s) \cup {put.key} ELSE HeldIn(s)
      /\ \A s \in Sectors : /\ Clean(s)' <=> Clean(s)
                            /\ InUse(s)' <=> InUse(s)
                            /\ flash'[s].store = flash[s].store
                            /\ Len(flash'[s].kv) = Len(flash[s].kv)
                            /\ flash'[s].kv = << >> => flash[s].kv = << >>
  BY CommitFacts
<1>3. SUFFICES ASSUME NEW s \in Sectors, Clean(s)'
               PROVE  /\ flash'[s].store # "FULL"
                      /\ Len(flash'[s].kv) <= Cardinality(HeldIn(s)') + cuts' + Unfinished(s)'
                      /\ InUse(s)' /\ flash'[s].kv = << >> => cuts' > 0
  BY DEF CleanInv
<1>4. /\ flash[s].store # "FULL"
      /\ Len(flash[s].kv) <= Cardinality(HeldIn(s)) + cuts + Unfinished(s)
      /\ InUse(s) /\ flash[s].kv = << >> => cuts > 0
      /\ Clean(s)
  BY <1>1, <1>2, <1>3 DEF ContentInv, CleanInv
<1>5. /\ Cardinality(HeldIn(s)) \in Nat /\ IsFiniteSet(HeldIn(s)) /\ cuts \in Nat
      /\ Len(flash[s].kv) \in Nat /\ Unfinished(s) \in {0, 1}
      /\ Unfinished(s)' = 0 /\ (s # put.to => Unfinished(s) = 0)
  BY <1>1, Counts, SectorType DEF IInv, Unfinished
<1>6. Len(flash[s].kv) <= Cardinality(HeldIn(s)') + cuts
  <2>1. CASE s # put.to
    BY <1>2, <1>4, <1>5, <2>1
  <2>2. CASE s = put.to /\ put.key \notin HeldIn(s)
    <3>1. Cardinality(HeldIn(s)') = Cardinality(HeldIn(s)) + 1
      BY <1>2, <1>5, <2>2, FS_AddElement
    <3> QED BY <1>4, <1>5, <3>1
  <2>3. CASE s = put.to /\ put.key \in HeldIn(s)
    <3>1. HeldIn(s)' = HeldIn(s) /\ Current(put.key) # {}
      BY <1>2, <2>3 DEF HeldIn
    <3>2. phase = "run" /\ src # None
      BY <1>1, <3>1 DEF ContentInv, KeyInv, Creating
    <3>3. CASE gc.for = "none"
      <4>1. ~Clean(src[1]) /\ InUse(s)
        BY <1>1, <2>3, <3>2, <3>3 DEF ShapeInv, AimInv, Creating
      <4>2. src[1] \in Sectors /\ InUse(src[1])
        BY <1>1, <3>2, LiveFacts DEF ContentInv, StatusInv, IInv
      <4>3. src[1] = 1 - s
        BY <1>4, <4>1, <4>2, Other
      <4>4. flash[s].dirty = "GC" \/ flash[1 - s].dirty = "GC"
        BY <4>1, <4>2, <4>3 DEF ShapeInv, LayoutInv
      <4>5. \A x \in Sectors : flash[x].dirty # "GC"
        BY <3>2, <3>3 DEF ShapeInv, MarkedInv, Collecting
      <4> QED BY <4>4, <4>5, Other
    <3>4. CASE gc.for # "none"
      <4>1. gc.for \in {"new", "set"}
        BY <3>2, <3>4, TypeParts DEF IInv, PhaseInv, GcType
      <4> QED BY <1>1, <2>3, <3>1, <4>1, CopyCount
    <3> QED BY <3>3, <3>4
  <2> QED BY <2>1, <2>2, <2>3
<1>7. Cardinality(HeldIn(s)') \in Nat
  <2>1. IsFiniteSet(HeldIn(s) \cup {put.key})
    BY <1>5, FS_AddElement
  <2>2. IsFiniteSet(HeldIn(s)')
    BY <1>2, <1>5, <2>1
  <2> QED BY <2>2, FS_CardinalityType
<1>8. Len(flash'[s].kv) <= Cardinality(HeldIn(s)') + cuts' + Unfinished(s)'
  BY <1>1, <1>2, <1>5, <1>6, <1>7
<1> QED BY <1>1, <1>2, <1>4, <1>8

LEMMA CommitWriteContent ==
  ASSUME IInv, IInv', ShapeInv, ContentInv, CommitWrite
  PROVE  ContentInv'
<1>1. /\ pc = "write"
      /\ cache' = [cache EXCEPT ![put.key] = Last] /\ put' = NoPut
      /\ pc' = IF Moving THEN "delete"
               ELSE IF phase = "default" THEN "default"
               ELSE IF src # None THEN "delete" ELSE "endset"
      /\ UNCHANGED <<phase, req, src, gc, missing, cuts>>
  BY DEF CommitWrite, loading
<1>2. /\ Last \in Addresses /\ Last \notin Live /\ Last[1] = put.to
      /\ put.key \in Keys /\ put.to \in Sectors
      /\ Addresses' = Addresses
      /\ \A b \in Addresses : b # Last => flash'[b[1]].kv[b[2]] = At(b)
      /\ flash'[Last[1]].kv[Last[2]].st = "WRITE"
      /\ flash'[Last[1]].kv[Last[2]].ok
      /\ Live' = Live \cup {Last}
      /\ \A k : Current(k)' = IF k = put.key THEN Current(k) \cup {Last} ELSE Current(k)
      /\ Held' = Held \cup {put.key}
  BY CommitFacts
<1>3. src # None => /\ src \in Live /\ At(src).st = "PRE_DELETE" /\ At(src).key = put.key
                    /\ flash'[src[1]].kv[src[2]] = At(src)
  BY <1>1, <1>2, CurrentLive DEF ContentInv, StatusInv, KeyInv, Creating
<1>4. CacheInv'
  <2>1. SUFFICES ASSUME NEW k \in Keys, Hit(k)'
                 PROVE  flash'[cache'[k][1]].kv[cache'[k][2]].st # "PRE_WRITE"
    BY DEF CacheInv, At
  <2>2. cache'[k] \in Addresses /\ flash'[cache'[k][1]].kv[cache'[k][2]].key = k
    BY <1>2, <2>1 DEF Hit, At
  <2>3. CASE cache'[k] = Last
    BY <1>2, <2>3
  <2>4. CASE cache'[k] # Last
    <3>1. cache'[k] = cache[k]
      <4>1. cache \in [Keys -> SomeAddress \cup {None}]
        BY DEF IInv, TypeOK
      <4> QED BY <1>1, <2>4, <4>1
    <3>2. flash'[cache'[k][1]].kv[cache'[k][2]] = At(cache[k]) /\ Hit(k)
      BY <1>2, <2>2, <2>4, <3>1 DEF Hit
    <3> QED BY <2>4, <3>1, <3>2 DEF ContentInv, CacheInv
  <2> QED BY <2>3, <2>4
<1>5. pc' \in {"delete", "default", "endset"}
  BY <1>1
<1>6. StatusInv'
  BY <1>1, <1>2, <1>3, <1>5 DEF StatusInv, Creating
<1>7. DefaultInv'
  <2>1. NoPut.full = FALSE
    BY DEF NoPut
  <2>2. ASSUME phase = "default"
        PROVE  pc' = "default" /\ \A k \in missing : Current(k)' = {}
    <3>1. gc.for = "none"
      <4>1. gc.for # "none" => flash[gc.sec].dirty = "GC" /\ gc.sec \in Sectors
        BY <1>1, TypeParts DEF ShapeInv, MarkedInv, Collecting, IInv, GcInv, GcType
      <4>2. \A s \in Sectors : flash[s].dirty = "FALSE"
        BY <2>2 DEF ShapeInv, FormatInv, Clean
      <4> QED BY <4>1, <4>2
    <3>2. put.key = req.key /\ req.key \notin missing /\ \A k \in missing : Current(k) = {}
      BY <1>1, <2>2 DEF ContentInv, KeyInv, DefaultInv, Creating
    <3> QED BY <1>1, <1>2, <2>2, <3>1, <3>2 DEF Moving
  <2> QED BY <1>1, <2>1, <2>2 DEF DefaultInv
<1>8. KeyInv'
  BY <1>5 DEF KeyInv, Placed, Creating
<1>9. LiveInv'
  <2>1. /\ IsFiniteSet(Live) /\ Cardinality(Live) \in Nat
        /\ IsFiniteSet(Held) /\ Cardinality(Held) \in Nat
        /\ cuts \in Nat /\ Extra \in {0, 1}
        /\ Cardinality(Live) <= Cardinality(Held) + cuts + Extra
    BY Counts DEF IInv, ContentInv, LiveInv
  <2>2. Cardinality(Live') = Cardinality(Live) + 1
    BY <1>2, <2>1, FS_AddElement
  <2>3. Extra' \in {0, 1}
    BY DEF Extra
  <2>4. CASE Current(put.key) = {}
    <3>1. put.key \notin Held
      BY <2>4 DEF Held
    <3>2. Cardinality(Held') = Cardinality(Held) + 1
      BY <1>2, <2>1, <3>1, FS_AddElement
    <3>3. Extra = 1 => Extra' = 1
      <4>1. SUFFICES ASSUME Extra = 1
                     PROVE  Extra' = 1
        OBVIOUS
      <4>2. src # None /\ (gc.for # "none" \/ phase # "kvcheck")
        BY <4>1 DEF Extra
      <4>3. pc' = "delete"
        BY <1>1, <4>2 DEF IInv, SrcInv
      <4> QED BY <1>1, <1>3, <4>2, <4>3 DEF Extra, At
    <3> QED BY <1>1, <2>1, <2>2, <2>3, <3>2, <3>3 DEF LiveInv
  <2>5. CASE Current(put.key) # {}
    <3>1. phase = "run" /\ src # None
      BY <1>1, <2>5 DEF ContentInv, KeyInv, Creating
    <3>2. Held' = Held
      BY <1>2, <2>5 DEF Held
    <3>3. Extra = 0
      BY <1>1, <1>3, <2>5, <3>1 DEF Extra
    <3>4. Extra' = 1
      BY <1>1, <1>3, <3>1 DEF Extra, At
    <3> QED BY <1>1, <2>1, <2>2, <3>2, <3>3, <3>4 DEF LiveInv
  <2> QED BY <2>4, <2>5
<1>10. CleanInv'
  BY CommitClean
<1>11. Collecting' => Collecting /\ put.to = 1 - gc.sec /\ gc.sec \in Sectors
  BY <1>1, <1>5, TypeParts DEF Collecting, ShapeInv, AimInv, Creating, IInv, GcInv, GcType
<1>12. CopyInv'
  <2>1. Collecting /\ gc.for \in {"new", "set"} => \A a \in Addresses : a[1] = 1 - gc.sec =>
              (At(a).ok /\ At(a).st = "WRITE") \/ a = Last
    BY <1>1 DEF ContentInv, CopyInv
  <2> QED BY <1>1, <1>2, <1>11, <2>1 DEF CopyInv, At
<1>13. GatherInv'
  <2>1. Collecting' => Last[1] # gc.sec
    BY <1>2, <1>11, Other
  <2> QED BY <1>1, <1>2, <1>5, <1>11, <2>1 DEF ContentInv, GatherInv
<1> QED BY <1>4, <1>5, <1>6, <1>7, <1>8, <1>9, <1>10, <1>12, <1>13 DEF ContentInv

------------------------------------------------------------------------------
(* As long as no operation was cut off.                                    *)

LEMMA QuietFacts ==
  ASSUME IInv, ShapeInv, NoCutInv, cuts = 0
  PROVE  /\ PowerQuiet /\ RecoveryQuiet /\ OldestQuiet
         /\ oldest \in Sectors /\ 1 - oldest \in Sectors
         /\ src # None => phase = "run"
         /\ gc.for # "none" => phase \in {"default", "run"}
         /\ Collecting => phase = "run" /\ gc.sec \in Sectors
<1>1. PowerQuiet /\ RecoveryQuiet /\ OldestQuiet
  BY DEF NoCutInv
<1>2. oldest \in Sectors /\ 1 - oldest \in Sectors
  BY <1>1, Other DEF PowerQuiet, IInv, TypeOK
<1>3. gc.for # "none" => phase \in {"default", "run"}
  BY <1>1, TypeParts DEF RecoveryQuiet, IInv, PhaseInv, GcType
<1>4. Collecting => phase = "run" /\ gc.sec \in Sectors
  <2>1. SUFFICES ASSUME Collecting
                 PROVE  phase = "run" /\ gc.sec \in Sectors
    OBVIOUS
  <2>2. gc.sec \in Sectors /\ gc.for # "none" /\ flash[gc.sec].dirty = "GC"
    BY <2>1, TypeParts DEF Collecting, ShapeInv, MarkedInv, IInv, GcInv, GcType
  <2>3. phase # "default"
    BY <2>2 DEF ShapeInv, FormatInv, Clean
  <2> QED BY <1>3, <2>2, <2>3
<1> QED BY <1>1, <1>2, <1>3, <1>4 DEF RecoveryQuiet

LEMMA HaltNoCut ==
  ASSUME NoCutInv, oldest = None, UNCHANGED cuts
  PROVE  NoCutInv'
BY DEF NoCutInv, PowerQuiet

(* No record is about to be replaced while there is none at src.           *)
LEMMA NoneReplaced ==
  ASSUME IInv, RecoveryQuiet, src = None \/ phase # "run"
  PROVE  \A a \in Addresses : At(a).st # "PRE_DELETE"
<1>1. \A a \in Addresses : a # None
  BY OfAddress DEF IInv
<1> QED BY <1>1 DEF RecoveryQuiet

(* Steps that write nothing and neither begin nor end a collection.        *)
LEMMA StepNoCut ==
  ASSUME IInv, ShapeInv, NoCutInv, cuts = 0,
         UNCHANGED <<flash, phase, oldest>>,
         missing' # {} => missing # {},
         src' = src \/ (src = None /\ phase = "run"),
         phase \in {"gccheck", "kvcheck"} => gc'.for = "none" /\ ~gcRequest',
         Placed' => put'.to = oldest,
         pc' \notin {"gcnext", "halted"},
         Collecting' => Collecting /\ gc'.sec = gc.sec /\ gc'.trav = gc.trav,
         Collecting \/ (pc = "header" /\ phase # "format") => Collecting',
         ~(pc' = "header" /\ phase # "format")
  PROVE  PowerQuiet' /\ RecoveryQuiet' /\ OldestQuiet'
<1>1. /\ PowerQuiet /\ RecoveryQuiet /\ OldestQuiet
      /\ Addresses' = Addresses /\ \A a \in Addresses : flash'[a[1]].kv[a[2]] = At(a)
  BY QuietFacts, SameRecords DEF IInv
<1>2. PowerQuiet'
  BY <1>1 DEF PowerQuiet
<1>3. RecoveryQuiet'
  <2>1. src' = src \/ \A a \in Addresses : At(a).st # "PRE_DELETE"
    BY <1>1, NoneReplaced
  <2> QED BY <1>1, <2>1 DEF RecoveryQuiet, At
<1>4. OldestQuiet'
  BY <1>1 DEF OldestQuiet, InUse
<1> QED BY <1>2, <1>3, <1>4

LEMMA FormatNextNoCut ==
  ASSUME IInv, ShapeInv, NoCutInv, FormatNext
  PROVE  NoCutInv'
<1>1. /\ pc = "formatnext" /\ phase = "format" /\ gc.for = "none" /\ ~gcRequest
      /\ UNCHANGED <<flash, oldest, src, gc, gcRequest, missing, cuts>>
      /\ \/ phase' = phase /\ pc' = "erase"
         \/ missing # {} /\ phase' = "default" /\ pc' = "default"
         \/ phase' = "gccheck" /\ pc' = "gccheck"
  BY DEF FormatNext, IInv, PhaseInv, ShapeInv, WalkInv
<1>2. SUFFICES ASSUME cuts = 0
               PROVE  PowerQuiet' /\ RecoveryQuiet' /\ OldestQuiet'
  BY <1>1 DEF NoCutInv
<1>3. /\ PowerQuiet /\ RecoveryQuiet /\ OldestQuiet
      /\ Addresses' = Addresses
  BY <1>1, <1>2, QuietFacts, Same
<1>4. PowerQuiet'
  BY <1>1, <1>3 DEF PowerQuiet
<1>5. RecoveryQuiet'
  BY <1>1, <1>3 DEF RecoveryQuiet, At
<1>6. OldestQuiet'
  BY <1>1, <1>3 DEF OldestQuiet, Placed, Collecting, InUse
<1> QED BY <1>4, <1>5, <1>6

LEMMA DefaultNextNoCut ==
  ASSUME IInv, ShapeInv, NoCutInv, DefaultNext
  PROVE  NoCutInv'
<1>1. /\ pc = "default" /\ phase = "default" /\ gc.for = "none" /\ ~gcRequest
      /\ UNCHANGED <<flash, src, gc, gcRequest, cuts>>
      /\ \/ oldest' = 0 /\ phase' = "gccheck" /\ pc' = "gccheck"
         \/ phase' = phase /\ oldest' = oldest /\ pc' = "new"
  BY DEF DefaultNext, IInv, PhaseInv, ShapeInv, WalkInv
<1>2. SUFFICES ASSUME cuts = 0
               PROVE  PowerQuiet' /\ RecoveryQuiet' /\ OldestQuiet'
  BY <1>1 DEF NoCutInv
<1>3. /\ PowerQuiet /\ RecoveryQuiet /\ OldestQuiet
      /\ Addresses' = Addresses
  BY <1>1, <1>2, QuietFacts, Same
<1>4. oldest = 0 /\ oldest' = 0
  BY <1>1, <1>3 DEF PowerQuiet
<1>5. PowerQuiet'
  BY <1>1, <1>3, <1>4 DEF PowerQuiet
<1>6. RecoveryQuiet'
  BY <1>1, <1>3 DEF RecoveryQuiet, At
<1>7. OldestQuiet'
  BY <1>1, <1>3, <1>4 DEF OldestQuiet, Placed, Collecting, InUse
<1> QED BY <1>5, <1>6, <1>7

LEMMA CallNoCut ==
  ASSUME IInv, ShapeInv, NoCutInv, NEW k \in Keys, NEW v \in Values \cup {None},
         Call(k, v)
  PROVE  NoCutInv'
<1>1. /\ pc = "idle" /\ phase = "run" /\ gc.for = "none"
      /\ req'.val = v /\ pc' = IF v = None THEN "find" ELSE "new"
      /\ UNCHANGED <<flash, phase, oldest, src, gc, missing, cuts>>
  BY DEF Call, ram, loading, IInv, PhaseInv
<1>2. ~Placed' /\ ~Collecting'
  BY <1>1 DEF Placed, Collecting
<1>3. ASSUME cuts = 0
      PROVE  PowerQuiet' /\ RecoveryQuiet' /\ OldestQuiet'
  <2>1. ~Collecting
    BY <1>1 DEF Collecting
  <2> QED BY <1>1, <1>2, <1>3, <2>1, StepNoCut
<1> QED BY <1>1, <1>3 DEF NoCutInv

LEMMA GetNoCut ==
  ASSUME IInv, ShapeInv, NoCutInv, NEW k \in Keys, Get(k)
  PROVE  NoCutInv'
<1>1. CASE oldest = None
  BY <1>1, HaltNoCut DEF Get
<1>2. CASE oldest # None
  <2>1. /\ pc = "idle" /\ phase = "run" /\ gc.for = "none"
        /\ UNCHANGED <<flash, phase, pc, oldest, gcRequest, put, req, src, gc, missing, cuts>>
    BY <1>2 DEF Get, frames, loading, IInv, PhaseInv
  <2>2. ~Placed' /\ ~Collecting' /\ ~Collecting
    BY <2>1 DEF Placed, Collecting
  <2>3. ASSUME cuts = 0
        PROVE  PowerQuiet' /\ RecoveryQuiet' /\ OldestQuiet'
    BY <2>1, <2>2, <2>3, StepNoCut
  <2> QED BY <2>1, <2>3 DEF NoCutInv
<1> QED BY <1>1, <1>2

LEMMA ReturnNoCut ==
  ASSUME IInv, ShapeInv, NoCutInv, Return
  PROVE  NoCutInv'
<1>1. /\ phase = "run" /\ gc.for = "none" /\ src = None /\ src' = None
      /\ pc \in {"done", "absent", "full"} /\ pc' = "idle"
      /\ UNCHANGED <<flash, phase, oldest, gc, missing, cuts>>
  BY DEF Return, ram, loading, IInv, PhaseInv, SrcInv
<1>2. ~Placed' /\ ~Collecting' /\ ~Collecting
  BY <1>1 DEF Placed, Collecting
<1>3. ASSUME cuts = 0
      PROVE  PowerQuiet' /\ RecoveryQuiet' /\ OldestQuiet'
  BY <1>1, <1>2, <1>3, StepNoCut
<1> QED BY <1>1, <1>3 DEF NoCutInv

LEMMA EndSetNoCut ==
  ASSUME IInv, ShapeInv, NoCutInv, EndSet
  PROVE  NoCutInv'
<1>1. /\ pc = "endset" /\ phase = "run" /\ gc.for = "none" /\ pc' \in {"gc", "done"}
      /\ pc' = "done" => gc' = gc
      /\ UNCHANGED <<flash, phase, oldest, src, missing, cuts>>
  BY DEF EndSet, ram, loading, IInv, PhaseInv
<1>2. ~Placed' /\ ~Collecting' /\ ~Collecting
  BY <1>1 DEF Placed, Collecting
<1>3. ASSUME cuts = 0
      PROVE  PowerQuiet' /\ RecoveryQuiet' /\ OldestQuiet'
  BY <1>1, <1>2, <1>3, StepNoCut
<1> QED BY <1>1, <1>3 DEF NoCutInv

LEMMA FindOldNoCut ==
  ASSUME IInv, ShapeInv, NoCutInv, FindOld
  PROVE  NoCutInv'
<1>1. CASE oldest = None
  BY <1>1, HaltNoCut DEF FindOld
<1>2. CASE oldest # None
  <2>1. /\ pc = "find" /\ phase = "run" /\ gc.for = "none" /\ src = None
        /\ pc' \in {"absent", "delete", "status", "predelete"}
        /\ pc' \in {"status", "predelete"} => req.val # None
        /\ UNCHANGED <<flash, phase, oldest, put, gc, missing, cuts>>
    BY <1>2 DEF FindOld, loading, IInv, PhaseInv, SrcInv
  <2>2. ~Collecting' /\ ~Collecting /\ (Placed' => Placed)
    BY <2>1 DEF Placed, Collecting
  <2>3. ASSUME cuts = 0
        PROVE  PowerQuiet' /\ RecoveryQuiet' /\ OldestQuiet'
    <3>1. Placed => put.to = oldest
      BY <2>3 DEF NoCutInv, OldestQuiet
    <3> QED BY <2>1, <2>2, <2>3, <3>1, StepNoCut
  <2> QED BY <2>1, <2>3 DEF NoCutInv
<1> QED BY <1>1, <1>2

LEMMA NewKvNoCut ==
  ASSUME IInv, ShapeInv, ContentInv, NoCutInv, NewKv
  PROVE  NoCutInv'
<1>1. CASE oldest = None
  BY <1>1, HaltNoCut DEF NewKv
<1>2. CASE oldest # None /\ Alloc(gcRequest) # None
  <2>1. /\ pc = "new" /\ phase \in {"default", "run"} /\ gc.for = "none" /\ ~gcRequest
        /\ put' = [put EXCEPT !.to = Alloc(gcRequest)]
        /\ pc' \in {"status", "find"}
        /\ UNCHANGED <<flash, phase, oldest, src, gc, missing, cuts>>
    BY <1>2, NewRoom DEF NewKv, ram, loading, IInv, PhaseInv, ContentInv
  <2>2. ~Collecting' /\ ~Collecting /\ put'.to = Alloc(FALSE) /\ Alloc(FALSE) # None
        /\ gcRequest = FALSE
    BY <1>2, <2>1, TypeParts DEF Collecting, IInv, CallType, LogType
  <2>3. ASSUME cuts = 0
        PROVE  PowerQuiet' /\ RecoveryQuiet' /\ OldestQuiet'
    <3>1. \A s \in Sectors : InUse(s) => s = oldest
      BY <2>1, <2>2, <2>3 DEF NoCutInv, OldestQuiet
    <3>2. Alloc(FALSE) = oldest
      <4>1. /\ Alloc(FALSE) \in Sectors
            /\ flash[Alloc(FALSE)].store = "USING" \/ Empty = Sectors
        BY <1>2, <2>2, AllocKind DEF IInv
      <4>2. CASE flash[Alloc(FALSE)].store = "USING"
        BY <3>1, <4>1, <4>2 DEF InUse
      <4>3. CASE Empty = Sectors
        <5>1. Usable(FALSE) = {}
          BY <4>3 DEF Usable, Empty
        <5>2. Alloc(FALSE) = First(Sectors)
          BY <2>2, <4>3, <5>1 DEF Alloc
        <5>3. oldest \in Sectors
          BY <2>3, QuietFacts
        <5> QED BY <5>2, <5>3 DEF First
      <4> QED BY <4>1, <4>2, <4>3
    <3> QED BY <2>1, <2>2, <2>3, <3>2, StepNoCut
  <2> QED BY <2>1, <2>3 DEF NoCutInv
<1>3. CASE oldest # None /\ Alloc(gcRequest) = None
  <2>1. /\ pc = "new" /\ phase \in {"default", "run"} /\ gc.for = "none"
        /\ pc' = "gc"
        /\ UNCHANGED <<flash, phase, oldest, src, missing, cuts>>
    BY <1>3, NewRoom DEF NewKv, loading, IInv, PhaseInv, ContentInv
  <2>2. ~Collecting' /\ ~Collecting /\ ~Placed'
    BY <2>1 DEF Collecting, Placed
  <2>3. ASSUME cuts = 0
        PROVE  PowerQuiet' /\ RecoveryQuiet' /\ OldestQuiet'
    BY <2>1, <2>2, <2>3, StepNoCut
  <2> QED BY <2>1, <2>3 DEF NoCutInv
<1> QED BY <1>1, <1>2, <1>3

(* Steps of an operation on a record.                                      *)
LEMMA WriteNoCut ==
  ASSUME IInv, ShapeInv, NoCutInv, UNCHANGED cuts,
         UNCHANGED <<phase, oldest>>, gc' = gc, missing' = missing,
         \A s \in Sectors : /\ flash'[s].ok = flash[s].ok
                            /\ flash'[s].store = flash[s].store
                            /\ flash'[s].dirty = "GC" => flash[s].dirty = "GC",
         \A a \in Addresses' : flash'[a[1]].kv[a[2]].st = "PRE_DELETE" =>
            \/ a = src /\ src # None
            \/ a \in Addresses /\ At(a).st = "PRE_DELETE",
         src' = src \/ ((phase # "run" => src' = None)
                        /\ \A a \in Addresses' : flash'[a[1]].kv[a[2]].st # "PRE_DELETE"),
         src = None => gcRequest' = gcRequest,
         Placed' => Placed /\ put'.to = put.to,
         pc \notin {"gc", "gcnext", "header"}, pc' \notin {"gc", "gcnext", "header", "halted"}
  PROVE  NoCutInv'
<1>1. Collecting' <=> Collecting
  BY DEF Collecting
<1>2. SUFFICES ASSUME cuts = 0
               PROVE  PowerQuiet' /\ RecoveryQuiet' /\ OldestQuiet'
  BY DEF NoCutInv
<1>3. /\ PowerQuiet /\ RecoveryQuiet /\ OldestQuiet
      /\ src # None => phase = "run"
  BY <1>2, QuietFacts
<1>4. PowerQuiet'
  <2>1. \A s \in Sectors : 1 - s \in Sectors
    BY Other
  <2> QED BY <1>3, <2>1 DEF PowerQuiet
<1>5. RecoveryQuiet'
  <2>1. \A a \in Addresses' : flash'[a[1]].kv[a[2]].st = "PRE_DELETE" =>
           a = src' /\ phase = "run"
    BY <1>3 DEF RecoveryQuiet
  <2>2. phase # "run" => src' = None /\ gcRequest' = gcRequest
    BY <1>3
  <2> QED BY <1>3, <2>1, <2>2 DEF RecoveryQuiet, At
<1>6. OldestQuiet'
  BY <1>1, <1>3 DEF OldestQuiet, InUse
<1> QED BY <1>4, <1>5, <1>6

LEMMA PreWriteNoCut ==
  ASSUME IInv, ShapeInv, NoCutInv, PreWrite
  PROVE  NoCutInv'
<1>1. /\ pc = "prewrite" /\ pc' = "data"
      /\ UNCHANGED <<phase, oldest, gc, gcRequest, put, src, missing, cuts>>
  BY DEF PreWrite, ram, frames, loading
<1>2. /\ \A s \in Sectors : /\ flash'[s].ok = flash[s].ok
                            /\ flash'[s].store = flash[s].store
                            /\ flash'[s].dirty = flash[s].dirty
      /\ \A a \in Addresses' : flash'[a[1]].kv[a[2]].st = "PRE_DELETE" =>
                                a \in Addresses /\ At(a).st = "PRE_DELETE"
  BY PreWriteEffect DEF Blank
<1>3. ~Placed'
  BY <1>1 DEF Placed
<1> QED BY <1>1, <1>2, <1>3, WriteNoCut

LEMMA WriteDataNoCut ==
  ASSUME IInv, ShapeInv, NoCutInv, WriteData
  PROVE  NoCutInv'
<1>1. /\ pc = "data" /\ pc' = "write"
      /\ UNCHANGED <<phase, oldest, gc, gcRequest, put, src, missing, cuts>>
  BY DEF WriteData, ram, frames, loading
<1>2. PICK r \in Whole : Last \in Addresses /\ flash' = Mark(Last, r) /\ r.st = "PRE_WRITE"
  BY WriteDataEffect
<1>3. /\ \A s \in Sectors : /\ flash'[s].ok = flash[s].ok
                            /\ flash'[s].store = flash[s].store
                            /\ flash'[s].dirty = flash[s].dirty
      /\ Addresses' = Addresses
      /\ \A a \in Addresses : flash'[a[1]].kv[a[2]] = IF a = Last THEN r ELSE At(a)
  BY <1>2, MarkFacts DEF IInv, Record
<1>4. ~Placed'
  BY <1>1 DEF Placed
<1> QED BY <1>1, <1>2, <1>3, <1>4, WriteNoCut

LEMMA CommitWriteNoCut ==
  ASSUME IInv, ShapeInv, NoCutInv, CommitWrite
  PROVE  NoCutInv'
<1>1. /\ pc = "write" /\ pc' \in {"delete", "default", "endset"}
      /\ gcRequest' = (gcRequest \/ (put.full /\ ~Moving))
      /\ UNCHANGED <<phase, oldest, gc, src, missing, cuts>>
  BY DEF CommitWrite, loading
<1>2. /\ \A s \in Sectors : /\ flash'[s].store = flash[s].store
      /\ Last \in Addresses /\ Addresses' = Addresses
      /\ \A b \in Addresses : b # Last => flash'[b[1]].kv[b[2]] = At(b)
      /\ flash'[Last[1]].kv[Last[2]].st = "WRITE"
  BY CommitFacts
<1>3. \A s \in Sectors : flash'[s].ok = flash[s].ok /\ flash'[s].dirty = flash[s].dirty
  <2>1. PICK r \in Whole : Last \in Addresses /\ flash' = Mark(Last, r)
    BY CommitWriteEffect
  <2> QED BY <2>1, MarkFacts DEF IInv, Record
<1>4. ~Placed'
  BY <1>1 DEF Placed
<1>5. CASE phase \in {"gccheck", "kvcheck"} /\ cuts = 0
  <2>1. src # None
    BY <1>1, <1>5 DEF IInv, SrcInv, PhaseInv
  <2> QED BY <1>5, <2>1, QuietFacts
<1>6. CASE ~(phase \in {"gccheck", "kvcheck"} /\ cuts = 0)
  <2>1. SUFFICES ASSUME cuts = 0
                 PROVE  PowerQuiet' /\ RecoveryQuiet' /\ OldestQuiet'
    BY <1>1 DEF NoCutInv
  <2>2. PowerQuiet /\ RecoveryQuiet /\ OldestQuiet
    BY <2>1, QuietFacts
  <2>3. PowerQuiet'
    <3>1. \A s \in Sectors : 1 - s \in Sectors
      BY Other
    <3> QED BY <1>1, <1>3, <2>2, <3>1 DEF PowerQuiet
  <2>4. RecoveryQuiet'
    BY <1>1, <1>2, <1>3, <1>6, <2>1, <2>2 DEF RecoveryQuiet, At
  <2>5. OldestQuiet'
    BY <1>1, <1>2, <1>4, <2>2 DEF OldestQuiet, InUse, Collecting
  <2> QED BY <2>3, <2>4, <2>5
<1> QED BY <1>5, <1>6

LEMMA PreDeleteNoCut ==
  ASSUME IInv, ShapeInv, NoCutInv, PreDelete
  PROVE  NoCutInv'
<1>1. /\ pc = "predelete" /\ pc' = "predirty" /\ src # None
      /\ UNCHANGED <<phase, oldest, gc, gcRequest, put, src, missing, cuts>>
  BY DEF PreDelete, frames, loading, IInv, SrcInv
<1>2. PICK r \in Whole : src \in Addresses /\ flash' = Mark(src, r)
  BY PreDeleteEffect
<1>3. /\ \A s \in Sectors : /\ flash'[s].ok = flash[s].ok
                            /\ flash'[s].store = flash[s].store
                            /\ flash'[s].dirty = flash[s].dirty
      /\ Addresses' = Addresses
      /\ \A a \in Addresses : flash'[a[1]].kv[a[2]] = IF a = src THEN r ELSE At(a)
  BY <1>2, MarkFacts DEF IInv, Record
<1>4. Placed' => Placed
  BY <1>1 DEF Placed
<1> QED BY <1>1, <1>3, <1>4, WriteNoCut

LEMMA DeleteNoCut ==
  ASSUME IInv, ShapeInv, NoCutInv, Delete
  PROVE  NoCutInv'
<1>1. /\ pc = "delete" /\ pc' = "dirty" /\ src # None
      /\ UNCHANGED <<phase, oldest, gc, gcRequest, put, src, missing, cuts>>
  BY DEF Delete, frames, loading, IInv, SrcInv
<1>2. src \in Addresses /\ Dead \in Record /\ flash' = Mark(src, Dead)
  BY DeleteEffect
<1>3. /\ \A s \in Sectors : /\ flash'[s].ok = flash[s].ok
                            /\ flash'[s].store = flash[s].store
                            /\ flash'[s].dirty = flash[s].dirty
      /\ Addresses' = Addresses
      /\ \A a \in Addresses : flash'[a[1]].kv[a[2]] = IF a = src THEN Dead ELSE At(a)
  BY <1>2, MarkFacts DEF IInv
<1>4. ~Placed'
  BY <1>1 DEF Placed
<1> QED BY <1>1, <1>3, <1>4, WriteNoCut

LEMMA MarkDirtyNoCut ==
  ASSUME IInv, ShapeInv, ContentInv, NoCutInv, MarkDirty
  PROVE  NoCutInv'
<1>1. /\ pc \in {"predirty", "dirty"}
      /\ pc' \notin {"gc", "gcnext", "header", "halted"}
      /\ pc = "predirty" => pc' \in {"movealloc", "status"}
      /\ pc = "dirty" => pc' \in {"gckv", "kvcheck", "done", "endset"}
      /\ src' = IF pc = "dirty" THEN None ELSE src
      /\ UNCHANGED <<phase, oldest, gc, gcRequest, put, missing, cuts>>
  BY DEF MarkDirty, ram, loading
<1>2. /\ \A s \in Sectors : /\ flash'[s].ok = flash[s].ok
                            /\ flash'[s].store = flash[s].store
                            /\ flash'[s].dirty = "GC" => flash[s].dirty = "GC"
      /\ Addresses' = Addresses
      /\ \A a \in Addresses : flash'[a[1]].kv[a[2]] = At(a)
  <2>1. /\ \A s \in Sectors : /\ flash'[s].ok = flash[s].ok
                              /\ flash'[s].store = flash[s].store
                              /\ flash'[s].kv = flash[s].kv
        /\ \A s \in Sectors : s # src[1] => flash'[s] = flash[s]
        /\ flash'[src[1]].dirty = IF Clean(src[1]) THEN "TRUE" ELSE flash[src[1]].dirty
    BY MarkDirtyEffect
  <2>2. Addresses' = Addresses /\ \A a \in Addresses : flash'[a[1]].kv[a[2]] = At(a)
    BY <2>1, SameRecords DEF IInv
  <2> QED BY <2>1, <2>2
<1>3. Placed' => Placed
  BY <1>1 DEF Placed
<1>4. CASE pc = "predirty"
  BY <1>1, <1>2, <1>3, <1>4, WriteNoCut
<1>5. CASE pc = "dirty"
  <2>1. SUFFICES ASSUME cuts = 0
                 PROVE  NoCutInv'
    BY <1>1 DEF NoCutInv
  <2>2. \A a \in Addresses : At(a).st # "PRE_DELETE"
    <3>1. SUFFICES ASSUME NEW a \in Addresses, At(a).st = "PRE_DELETE"
                   PROVE  FALSE
      OBVIOUS
    <3>2. a = src
      BY <2>1, <3>1 DEF NoCutInv, RecoveryQuiet
    <3>3. a \in Live
      BY <3>1, OfAddress, PreDeleteWholeRecord DEF Live, IInv
    <3>4. src \notin Live
      BY <1>5 DEF IInv, SrcInv, ContentInv, StatusInv
    <3> QED BY <3>2, <3>3, <3>4
  <2>3. src' = None /\ \A a \in Addresses' : flash'[a[1]].kv[a[2]].st # "PRE_DELETE"
    BY <1>1, <1>2, <1>5, <2>2
  <2> QED BY <1>1, <1>2, <1>3, <1>5, <2>3, WriteNoCut
<1> QED BY <1>1, <1>4, <1>5

LEMMA UpdateSecStatusNoCut ==
  ASSUME IInv, ShapeInv, NoCutInv, UpdateSecStatus
  PROVE  NoCutInv'
<1>1. /\ pc = "status" /\ pc' = "prewrite"
      /\ UNCHANGED <<phase, oldest, gc, gcRequest, src, missing, cuts>>
      /\ gc.for # "none" \/ phase \in {"kvcheck", "default", "run"}
  BY DEF UpdateSecStatus, ram, loading, IInv, PhaseInv, Moving
<1>2. /\ put.to \in Sectors
      /\ \A s \in Sectors : /\ flash'[s].ok = flash[s].ok
                            /\ flash'[s].dirty = flash[s].dirty
                            /\ flash'[s].kv = flash[s].kv
      /\ \A s \in Sectors : s # put.to => flash'[s] = flash[s]
  BY UpdateSecStatusEffect
<1>3. SUFFICES ASSUME cuts = 0
               PROVE  PowerQuiet' /\ RecoveryQuiet' /\ OldestQuiet'
  BY <1>1 DEF NoCutInv
<1>4. /\ PowerQuiet /\ RecoveryQuiet /\ OldestQuiet
      /\ Addresses' = Addresses
      /\ \A a \in Addresses : flash'[a[1]].kv[a[2]] = At(a)
  BY <1>2, <1>3, QuietFacts, SameRecords DEF IInv
<1>5. PowerQuiet'
  <2>1. \A s \in Sectors : 1 - s \in Sectors
    BY Other
  <2> QED BY <1>1, <1>2, <1>4, <2>1 DEF PowerQuiet
<1>6. RecoveryQuiet'
  BY <1>1, <1>2, <1>4 DEF RecoveryQuiet, At
<1>7. OldestQuiet'
  <2>1. ~Placed' /\ (Collecting <=> gc.for # "none") /\ (Collecting' <=> gc.for # "none")
    BY <1>1 DEF Placed, Collecting
  <2>2. gc.for = "none" => put.to = oldest
    BY <1>1, <1>4 DEF OldestQuiet, Placed
  <2> QED BY <1>1, <1>2, <1>4, <2>1, <2>2 DEF OldestQuiet, InUse
<1> QED BY <1>5, <1>6, <1>7

LEMMA KvCheckNoCut ==
  ASSUME IInv, ShapeInv, NoCutInv, KvCheck
  PROVE  NoCutInv'
<1>1. /\ pc = "kvcheck" /\ phase = "kvcheck" /\ gc.for = "none" /\ src = None
      /\ UNCHANGED <<phase, oldest, gc, gcRequest, put, missing, cuts>>
      /\ pc' \in {"kvcheck", "kvend", "movealloc"}
  BY DEF KvCheck, IInv, PhaseInv, SrcInv
<1>2. SUFFICES ASSUME cuts = 0
               PROVE  NoCutInv'
  BY <1>1 DEF NoCutInv
<1>3. \A a \in Addresses : At(a).st # "PRE_DELETE"
  BY <1>1, <1>2, NoneReplaced, QuietFacts
<1>4. /\ src' = src
      /\ \/ UNCHANGED flash
         \/ \E a \in Addresses : flash' = Mark(a, Dead)
  BY <1>3 DEF KvCheck
<1>5. /\ \A s \in Sectors : /\ flash'[s].ok = flash[s].ok
                            /\ flash'[s].store = flash[s].store
                            /\ flash'[s].dirty = flash[s].dirty
      /\ \A a \in Addresses' : flash'[a[1]].kv[a[2]].st # "PRE_DELETE"
  <2>1. CASE UNCHANGED flash
    BY <1>3, <2>1, SameRecords DEF IInv
  <2>2. CASE \E a \in Addresses : flash' = Mark(a, Dead)
    <3>1. PICK a \in Addresses : flash' = Mark(a, Dead)
      BY <2>2
    <3>2. Dead \in Record /\ Dead.st = "DELETED"
      BY DEF Record, Dead, Blank
    <3> QED BY <1>3, <3>1, <3>2, MarkFacts DEF IInv
  <2> QED BY <1>4, <2>1, <2>2
<1>6. ~Placed'
  BY <1>1 DEF Placed
<1> QED BY <1>1, <1>4, <1>5, <1>6, WriteNoCut

(* Steps of the collector and of the recovery.                             *)
LEMMA GcStartNoCut ==
  ASSUME IInv, ShapeInv, NoCutInv, GcStart
  PROVE  NoCutInv'
<1>1. CASE oldest = None
  BY <1>1, HaltNoCut DEF GcStart
<1>2. CASE oldest # None
  <2>1. /\ pc = "gc" /\ pc' = "gcnext" /\ gc.for # "none" /\ gc.trav = 0
        /\ gc'.for = gc.for /\ gc'.trav = 0
        /\ gc'.rest = << >> \/ gc'.rest = Order
        /\ UNCHANGED <<flash, phase, oldest, gcRequest, src, missing, cuts>>
    BY <1>2, TypeParts DEF GcStart, ram, loading, IInv, PhaseInv, GcType, ShapeInv, WalkInv
  <2>2. SUFFICES ASSUME cuts = 0
                 PROVE  PowerQuiet' /\ RecoveryQuiet' /\ OldestQuiet'
    BY <2>1 DEF NoCutInv
  <2>3. /\ PowerQuiet /\ RecoveryQuiet /\ OldestQuiet /\ Addresses' = Addresses
        /\ Order' = Order
    BY <2>1, <2>2, QuietFacts, Same DEF Order
  <2>4. PowerQuiet' /\ RecoveryQuiet'
    BY <2>1, <2>3 DEF PowerQuiet, RecoveryQuiet, At
  <2>5. OldestQuiet'
    BY <2>1, <2>3 DEF OldestQuiet, Placed, Collecting, InUse
  <2> QED BY <2>4, <2>5
<1> QED BY <1>1, <1>2

LEMMA GcSectorNoCut ==
  ASSUME IInv, ShapeInv, NoCutInv, GcSector
  PROVE  NoCutInv'
<1> DEFINE x == Head(gc.rest)
           dirty == flash[x].ok /\ flash[x].dirty \in {"TRUE", "GC"}
<1>1. /\ pc = "gcnext" /\ gc.for # "none" /\ gc.rest # << >>
      /\ UNCHANGED <<phase, oldest, gcRequest, src, missing, cuts>>
  BY DEF GcSector, ram, loading, IInv, PhaseInv
<1>2. /\ x \in Sectors /\ gc'.sec = x
      /\ gc'.for = gc.for /\ gc'.rest = Tail(gc.rest) /\ gc'.trav = gc.trav + 1
      /\ \A s \in Sectors : /\ flash'[s].ok = flash[s].ok
                            /\ flash'[s].store = flash[s].store
                            /\ flash'[s].kv = flash[s].kv
      /\ \A s \in Sectors : s # x => flash'[s] = flash[s]
      /\ IF dirty THEN pc' = "gckv" /\ flash'[x].dirty = "GC"
                  ELSE pc' = "gcnext" /\ UNCHANGED flash
  BY GcSectorEffect
<1>3. SUFFICES ASSUME cuts = 0
               PROVE  PowerQuiet' /\ RecoveryQuiet' /\ OldestQuiet'
  BY <1>1 DEF NoCutInv
<1>4. /\ PowerQuiet /\ RecoveryQuiet /\ OldestQuiet
      /\ oldest \in Sectors /\ 1 - oldest \in Sectors /\ 1 - oldest # oldest
      /\ phase \in {"default", "run"}
      /\ Addresses' = Addresses
      /\ \A a \in Addresses : flash'[a[1]].kv[a[2]] = At(a)
  BY <1>1, <1>2, <1>3, QuietFacts, SameRecords, Other DEF IInv
<1>5. \A s \in Sectors : InUse(s) => s = oldest
  BY <1>1, <1>4 DEF OldestQuiet, Collecting
<1>6. \/ gc.rest = Order /\ gc.trav = 0
      \/ gc.rest = <<1 - oldest>>
  BY <1>1, <1>4 DEF OldestQuiet
<1>7. dirty => phase = "run"
  BY <1>2, <1>4 DEF ShapeInv, FormatInv, Clean
<1>8. \/ x = oldest /\ gc'.trav = 1 /\ gc'.rest = <<1 - oldest>>
      \/ ~dirty /\ gc'.rest = << >>
  <2>1. CASE gc.rest = Order /\ gc.trav = 0
    <3>1. Head(Order) = oldest /\ Tail(Order) = <<1 - oldest>>
      BY <1>4, InFacts
    <3> QED BY <1>2, <2>1, <3>1
  <2>2. CASE gc.rest = <<1 - oldest>>
    <3>1. x = 1 - oldest /\ Tail(gc.rest) = << >>
      BY <2>2
    <3>2. ~InUse(x)
      BY <1>2, <1>4, <1>5, <3>1
    <3>3. flash[x].ok => Clean(x)
      <4>1. flash[x] \in Sector
        BY <1>2, SectorType DEF IInv
      <4> QED BY <1>2, <3>2, <4>1 DEF ShapeInv, LayoutInv, InUse, Sector
    <3>4. ~dirty
      BY <3>3 DEF Clean
    <3> QED BY <1>2, <3>1, <3>4
  <2> QED BY <1>6, <2>1, <2>2
<1> HIDE DEF x, dirty
<1>9. PowerQuiet'
  <2>1. \A s \in Sectors : 1 - s \in Sectors
    BY Other
  <2> QED BY <1>1, <1>2, <1>4, <2>1 DEF PowerQuiet
<1>10. RecoveryQuiet'
  BY <1>1, <1>2, <1>4, <1>7 DEF RecoveryQuiet, At
<1>11. OldestQuiet'
  <2>1. ~Placed' /\ (Collecting' <=> dirty)
    BY <1>1, <1>2 DEF Placed, Collecting
  <2> QED BY <1>1, <1>2, <1>4, <1>5, <1>8, <2>1 DEF OldestQuiet, InUse
<1> QED BY <1>9, <1>10, <1>11

LEMMA GcRecordNoCut ==
  ASSUME IInv, ShapeInv, NoCutInv, GcRecord
  PROVE  NoCutInv'
<1>1. /\ pc = "gckv" /\ pc' \in {"erase", "predelete", "movealloc"} /\ gc.for # "none"
      /\ src = None /\ gc'.for = gc.for /\ gc'.sec = gc.sec /\ gc'.trav = gc.trav
      /\ UNCHANGED <<flash, phase, oldest, missing, cuts>>
  BY TypeParts DEF GcRecord, ram, loading, IInv, PhaseInv, SrcInv, GcType
<1>2. Collecting /\ Collecting' /\ ~Placed'
  BY <1>1 DEF Collecting, Placed
<1>3. ASSUME cuts = 0
      PROVE  PowerQuiet' /\ RecoveryQuiet' /\ OldestQuiet'
  <2>1. phase = "run"
    BY <1>2, <1>3, QuietFacts
  <2> QED BY <1>1, <1>2, <1>3, <2>1, StepNoCut
<1> QED BY <1>1, <1>3 DEF NoCutInv

LEMMA GcDoneNoCut ==
  ASSUME IInv, ShapeInv, NoCutInv, GcDone
  PROVE  NoCutInv'
<1>1. /\ pc = "gcnext" /\ pc' \in {"new", "done", "gccheck", "kvstart"}
      /\ gc'.for = "none" /\ gcRequest' = FALSE
      /\ UNCHANGED <<flash, phase, oldest, src, missing, cuts>>
  <2>1. gc.for \in {"new", "set", "gccheck", "kvcheck"}
    BY TypeParts DEF GcDone, IInv, PhaseInv, GcType
  <2> QED BY <2>1, Blanks DEF GcDone, GcReturn, loading
<1>2. ~Collecting /\ ~Collecting' /\ ~Placed'
  BY <1>1 DEF Collecting, Placed
<1>3. ASSUME cuts = 0
      PROVE  PowerQuiet' /\ RecoveryQuiet' /\ OldestQuiet'
  BY <1>1, <1>2, <1>3, StepNoCut
<1> QED BY <1>1, <1>3 DEF NoCutInv

LEMMA MoveAllocNoCut ==
  ASSUME IInv, ShapeInv, ContentInv, NoCutInv, MoveAlloc
  PROVE  NoCutInv'
<1>1. CASE oldest = None
  BY <1>1, HaltNoCut DEF MoveAlloc
<1>2. CASE oldest # None
  <2>1. pc = "movealloc" /\ src # None /\ UNCHANGED <<flash, cuts>>
    BY DEF MoveAlloc, IInv, SrcInv
  <2>2. SUFFICES ASSUME cuts = 0
                 PROVE  PowerQuiet' /\ RecoveryQuiet' /\ OldestQuiet'
    BY <2>1 DEF NoCutInv
  <2>3. phase = "run" /\ gc.for # "none"
    BY <2>1, <2>2, QuietFacts DEF IInv, PhaseInv, Moving
  <2>4. Alloc(gcRequest) # None
    BY <2>1, <2>3, MoveRoom DEF ContentInv
  <2>5. pc' \in {"delete", "status"} /\ UNCHANGED <<phase, oldest, src, gc, missing>>
    BY <1>2, <2>4 DEF MoveAlloc, loading
  <2>6. Collecting /\ Collecting' /\ ~Placed'
    BY <2>1, <2>3, <2>5 DEF Collecting, Placed
  <2> QED BY <2>1, <2>2, <2>3, <2>5, <2>6, StepNoCut
<1> QED BY <1>1, <1>2

LEMMA GcCheckNoCut ==
  ASSUME IInv, ShapeInv, NoCutInv, GcCheck
  PROVE  NoCutInv'
<1>1. /\ pc = "gccheck" /\ phase = "gccheck" /\ gc.for = "none"
      /\ UNCHANGED <<flash, oldest, src, missing, cuts>>
  BY DEF GcCheck, IInv, PhaseInv
<1>2. SUFFICES ASSUME cuts = 0
               PROVE  PowerQuiet' /\ RecoveryQuiet' /\ OldestQuiet'
  BY <1>1 DEF NoCutInv
<1>3. /\ PowerQuiet /\ RecoveryQuiet /\ OldestQuiet /\ Addresses' = Addresses
  BY <1>1, <1>2, QuietFacts, Same
<1>4. /\ pc' \in {"gccheck", "kvstart"} /\ phase' \in {"gccheck", "kvcheck"}
      /\ UNCHANGED <<gc, gcRequest>>
  <2>1. CASE scan.rest = << >>
    BY <1>1, <2>1 DEF GcCheck
  <2>2. CASE scan.rest # << >>
    <3>1. Head(scan.rest) \in Sectors
      BY <2>2, TypeParts, HeadTailProperties DEF IInv, ScanType
    <3>2. flash[Head(scan.rest)].dirty # "GC"
      BY <1>1, <1>3, <3>1 DEF RecoveryQuiet
    <3> QED BY <1>1, <2>2, <3>2 DEF GcCheck
  <2> QED BY <2>1, <2>2
<1>5. PowerQuiet'
  BY <1>1, <1>3, <1>4 DEF PowerQuiet
<1>6. RecoveryQuiet'
  BY <1>1, <1>3, <1>4 DEF RecoveryQuiet, At
<1>7. OldestQuiet'
  BY <1>1, <1>3, <1>4 DEF OldestQuiet, Placed, Collecting, InUse
<1> QED BY <1>5, <1>6, <1>7

LEMMA KvStartNoCut ==
  ASSUME IInv, ShapeInv, NoCutInv, KvStart
  PROVE  NoCutInv'
<1>1. CASE oldest = None
  BY <1>1, HaltNoCut DEF KvStart
<1>2. CASE oldest # None
  <2>1. /\ pc = "kvstart" /\ phase = "kvcheck" /\ gc.for = "none" /\ pc' = "kvcheck"
        /\ UNCHANGED <<flash, phase, oldest, gcRequest, src, gc, missing, cuts>>
    BY <1>2 DEF KvStart, ram, IInv, PhaseInv
  <2>2. ~Collecting /\ ~Collecting' /\ ~Placed'
    BY <2>1 DEF Collecting, Placed
  <2>3. ASSUME cuts = 0
        PROVE  PowerQuiet' /\ RecoveryQuiet' /\ OldestQuiet'
    <3>1. ~gcRequest
      BY <2>1, <2>3 DEF NoCutInv, RecoveryQuiet
    <3> QED BY <2>1, <2>2, <2>3, <3>1, StepNoCut
  <2> QED BY <2>1, <2>3 DEF NoCutInv
<1> QED BY <1>1, <1>2

LEMMA KvEndNoCut ==
  ASSUME IInv, ShapeInv, NoCutInv, KvEnd
  PROVE  NoCutInv'
<1>1. /\ pc = "kvend" /\ phase = "kvcheck" /\ gc.for = "none" /\ src = None
      /\ UNCHANGED <<flash, oldest, gcRequest, src, missing, cuts>>
      /\ ~gcRequest => phase' = "run" /\ pc' = "idle" /\ UNCHANGED gc
  BY DEF KvEnd, ram, IInv, PhaseInv, SrcInv
<1>2. SUFFICES ASSUME cuts = 0
               PROVE  PowerQuiet' /\ RecoveryQuiet' /\ OldestQuiet'
  BY <1>1 DEF NoCutInv
<1>3. /\ PowerQuiet /\ RecoveryQuiet /\ OldestQuiet /\ Addresses' = Addresses
      /\ \A a \in Addresses : At(a).st # "PRE_DELETE"
  BY <1>1, <1>2, QuietFacts, NoneReplaced, Same
<1>4. phase' = "run" /\ pc' = "idle" /\ UNCHANGED gc
  BY <1>1, <1>3 DEF RecoveryQuiet
<1>5. PowerQuiet'
  BY <1>1, <1>3, <1>4 DEF PowerQuiet
<1>6. RecoveryQuiet'
  BY <1>1, <1>3, <1>4 DEF RecoveryQuiet, At
<1>7. OldestQuiet'
  BY <1>1, <1>3, <1>4 DEF OldestQuiet, Placed, Collecting, InUse
<1> QED BY <1>5, <1>6, <1>7

(* The sectors are formatted, and the power goes and comes back.           *)
LEMMA FormatNoCut ==
  ASSUME IInv, ShapeInv, NoCutInv, Erase \/ WriteHeader
  PROVE  NoCutInv'
<1>1. /\ pc \in {"erase", "header"}
      /\ UNCHANGED <<phase, gcRequest, src, missing, cuts>>
      /\ gc'.for = gc.for /\ gc'.sec = gc.sec /\ gc'.trav = gc.trav
  BY TypeParts DEF Erase, WriteHeader, ram, frames, loading, IInv, GcType
<1>2. SUFFICES ASSUME cuts = 0
               PROVE  PowerQuiet' /\ RecoveryQuiet' /\ OldestQuiet'
  BY <1>1 DEF NoCutInv
<1>3. /\ PowerQuiet /\ RecoveryQuiet /\ OldestQuiet /\ oldest \in Sectors
  BY <1>2, QuietFacts
<1>4. /\ Doomed \in Sectors
      /\ \A s \in Sectors : s # Doomed => flash'[s] = flash[s]
      /\ flash'[Doomed] = IF pc = "erase" THEN Erased ELSE Formatted
  BY FormatEffect DEF Erase, WriteHeader
<1>5. flash'[Doomed].store \notin {"USING", "FULL"} /\ flash'[Doomed].dirty # "GC"
  BY <1>4 DEF Erased, Formatted
<1>6. RecoveryQuiet'
  <2>1. \A b \in Addresses' : b \in Addresses /\ flash'[b[1]].kv[b[2]] = At(b)
    BY FormatRecords
  <2> QED BY <1>1, <1>3, <1>4, <1>5, <2>1 DEF RecoveryQuiet, At
<1>7. CASE phase = "format"
  <2>1. /\ oldest' = oldest /\ pc' \in {"header", "formatnext"} /\ gc.for = "none"
    BY <1>1, <1>7 DEF Erase, WriteHeader, ram, IInv, GcInv
  <2>2. PowerQuiet'
    BY <1>1, <1>3, <1>7, <2>1 DEF PowerQuiet
  <2>3. OldestQuiet'
    BY <1>1, <1>3, <1>4, <1>5, <1>7, <2>1 DEF OldestQuiet, Placed, Collecting, InUse
  <2> QED BY <1>6, <2>2, <2>3
<1>8. CASE phase # "format"
  <2>1. /\ Doomed = gc.sec /\ gc.for # "none" /\ gc.sec = oldest /\ gc.trav = 1
    BY <1>1, <1>3, <1>8 DEF Doomed, IInv, GcInv, OldestQuiet, Collecting
  <2>2. phase = "run"
    <3>1. phase \in {"default", "run"}
      BY <1>2, <2>1, QuietFacts
    <3>2. flash[Doomed].dirty # "FALSE"
      <4>1. CASE pc = "erase"
        BY <2>1, <4>1 DEF ShapeInv, MarkedInv, Collecting
      <4>2. CASE pc = "header"
        BY <4>2 DEF IInv, GcInv, Erased
      <4> QED BY <1>1, <4>1, <4>2
    <3> QED BY <1>4, <3>1, <3>2 DEF ShapeInv, FormatInv, Clean
  <2>3. CASE Erase
    <3>1. pc = "erase" /\ pc' = "header" /\ oldest' = oldest
      BY <2>3 DEF Erase, ram
    <3> QED BY <1>1, <1>3, <1>6, <2>1, <2>2, <3>1
            DEF PowerQuiet, OldestQuiet, Placed, Collecting
  <2>4. CASE WriteHeader
    <3>1. /\ pc = "header" /\ pc' = "gcnext"
          /\ oldest' = IF gc.trav < Cardinality(Sectors) THEN 1 - gc.sec ELSE None
          /\ gc'.rest = IF gc.for \in {"new", "set"} THEN << >> ELSE gc.rest
      BY <1>8, <2>4, TypeParts DEF WriteHeader, IInv, GcType
    <3>2. Cardinality(Sectors) = 2
      <4>1. IsFiniteSet({0}) /\ Cardinality({0}) = 1
        BY FS_Singleton
      <4>2. Cardinality({0} \cup {1}) = 1 + 1
        BY <4>1, FS_AddElement
      <4>3. Sectors = {0} \cup {1}
        BY DEF Sectors
      <4> QED BY <4>2, <4>3
    <3>3. oldest' = 1 - gc.sec /\ oldest' \in Sectors
      BY <1>4, <2>1, <3>1, <3>2, Other
    <3>4. gc'.rest = << >>
      BY <2>1, <2>2, <3>1, TypeParts DEF IInv, PhaseInv, GcType
    <3>5. PowerQuiet'
      BY <1>1, <2>2, <3>1, <3>3, Constant DEF PowerQuiet
    <3>6. \A s \in Sectors : InUse(s)' => s = oldest'
      BY <1>4, <1>5, <2>1, <3>3, Other DEF InUse
    <3>7. OldestQuiet'
      BY <1>1, <2>1, <3>1, <3>4, <3>6 DEF OldestQuiet, Placed, Collecting
    <3> QED BY <1>6, <3>5, <3>7
  <2> QED BY <2>3, <2>4
<1> QED BY <1>7, <1>8

LEMMA PowerOffNoCut ==
  ASSUME IInv, ShapeInv, NoCutInv, PowerOff
  PROVE  NoCutInv'
<1>1. /\ UNCHANGED flash /\ phase' = "off" /\ pc' = "off" /\ oldest' = 0 /\ src' = None
      /\ gc'.for = "none"
      /\ IF pc \in {"idle", "halted"} THEN UNCHANGED cuts ELSE cuts' = cuts + 1
  BY Blanks DEF PowerOff, Lost
<1>2. SUFFICES ASSUME cuts' = 0
               PROVE  PowerQuiet' /\ RecoveryQuiet' /\ OldestQuiet'
  BY DEF NoCutInv
<1>3. pc \in {"idle", "halted"} /\ cuts = 0
  BY <1>1, <1>2, Counts DEF IInv
<1>4. /\ PowerQuiet /\ RecoveryQuiet /\ OldestQuiet /\ Addresses' = Addresses
  BY <1>1, <1>3, QuietFacts, Same
<1>5. pc = "idle" /\ phase = "run" /\ gc.for = "none" /\ src = None
  <2>1. pc = "idle"
    BY <1>3, <1>4 DEF PowerQuiet
  <2> QED BY <2>1 DEF IInv, PhaseInv, SrcInv
<1>6. \A s \in Sectors : flash[s].ok /\ flash[s].dirty # "GC"
  BY <1>5 DEF ShapeInv, FormatInv, MarkedInv, Collecting
<1>7. \A a \in Addresses : At(a).st # "PRE_DELETE"
  BY <1>4, <1>5, NoneReplaced
<1>8. PowerQuiet'
  BY <1>1, <1>6, Constant, Other DEF PowerQuiet, Sectors
<1>9. RecoveryQuiet'
  BY <1>1, <1>4, <1>6, <1>7 DEF RecoveryQuiet, At
<1>10. OldestQuiet'
  BY <1>1 DEF OldestQuiet, Placed, Collecting
<1> QED BY <1>8, <1>9, <1>10

LEMMA PowerOnNoCut ==
  ASSUME IInv, ShapeInv, NoCutInv, PowerOn
  PROVE  NoCutInv'
<1>1. /\ phase = "off" /\ pc = "off" /\ phase' = "format" /\ pc' = "formatnext"
      /\ gc.for = "none"
      /\ UNCHANGED <<gcRequest, src, gc, cuts>>
      /\ \A s \in Sectors : flash'[s] = Reread(flash[s])
      /\ \E garbage \in {"EMPTY", "USING"} :
            LET first == IF flash[0].ok THEN flash[0].store ELSE garbage
            IN oldest' = IF first = "EMPTY" /\ flash[1].ok /\ InUse(1) THEN 1 ELSE 0
      /\ missing' # {} => \A s \in Sectors : ~flash[s].ok
  BY DEF PowerOn, IInv, PhaseInv, InUse
<1>2. \A s \in Sectors : /\ flash'[s].ok = flash[s].ok
                         /\ flash'[s].store = flash[s].store
                         /\ flash'[s].dirty = flash[s].dirty
  BY <1>1, SectorType DEF Reread, IInv, Sector
<1>3. SUFFICES ASSUME cuts = 0
               PROVE  PowerQuiet' /\ RecoveryQuiet' /\ OldestQuiet'
  BY <1>1 DEF NoCutInv
<1>4. PowerQuiet /\ RecoveryQuiet /\ OldestQuiet
  BY <1>3, QuietFacts
<1>5. RecoveryQuiet'
  <2>1. \A a \in Addresses : At(a).st # "PRE_DELETE"
    BY <1>1, <1>4, NoneReplaced
  <2>2. \A a \in Addresses' : flash'[a[1]].kv[a[2]] = Dead
                              \/ (a \in Addresses /\ flash'[a[1]].kv[a[2]] = At(a))
    BY RereadAddresses
  <2>3. Dead.st # "PRE_DELETE"
    BY DEF Dead, Blank
  <2> QED BY <1>1, <1>2, <1>4, <2>1, <2>2, <2>3 DEF RecoveryQuiet, At
<1>6. 0 \in Sectors /\ 1 \in Sectors /\ 1 - 0 = 1 /\ \A s \in Sectors : s = 0 \/ s = 1
  BY DEF Sectors
<1>7. \A s \in Sectors : /\ ~flash[s].ok => ~InUse(s)
                         /\ flash[s].ok => InUse(s) \/ flash[s].store = "EMPTY"
  BY SectorType DEF ShapeInv, LayoutInv, InUse, Erased, IInv, Sector
<1>8. oldest' \in {0, 1} /\ (missing' # {} => oldest' = 0)
  BY <1>1, <1>6
<1>9. PowerQuiet'
  BY <1>1, <1>6, <1>8, Constant DEF PowerQuiet
<1>10. \A s \in Sectors : InUse(s) => s = oldest'
  <2>1. flash[0].ok <=> flash[1].ok
    BY <1>1, <1>4, <1>6 DEF PowerQuiet
  <2>2. ~(InUse(0) /\ InUse(1))
    <3>1. flash[0].dirty # "GC" /\ flash[1].dirty # "GC"
      BY <1>1, <1>4, <1>6 DEF RecoveryQuiet
    <3> QED BY <1>6, <3>1 DEF ShapeInv, LayoutInv
  <2>3. InUse(0) => oldest' = 0
    BY <1>1, <1>6, <2>2
  <2>4. InUse(1) => oldest' = 1
    <3>1. InUse(1) => flash[0].store = "EMPTY" /\ flash[0].ok /\ flash[1].ok
      BY <1>6, <1>7, <2>1, <2>2
    <3> QED BY <1>1, <3>1
  <2> QED BY <1>6, <2>3, <2>4
<1>11. OldestQuiet'
  BY <1>1, <1>2, <1>10 DEF OldestQuiet, Placed, Collecting, InUse
<1> QED BY <1>5, <1>9, <1>11

------------------------------------------------------------------------------
(* The three layers together.                                              *)

LEMMA StutterContent ==
  ASSUME IInv, RoomInv, UNCHANGED vars
  PROVE  ContentInv' /\ NoCutInv'
<1>1. /\ UNCHANGED <<flash, phase, pc, oldest, gcRequest, cache, req, put, src, gc,
                     missing, cuts>>
      /\ Addresses' = Addresses /\ \A k : Current(k)' = Current(k)
  BY DEF vars, Addresses, Current, Records, At
<1>2. Live' = Live /\ Held' = Held /\ \A s : HeldIn(s)' = HeldIn(s)
  BY <1>1 DEF Live, Held, HeldIn, At
<1>3. Extra' = Extra /\ \A s : Unfinished(s)' = Unfinished(s)
  BY <1>1 DEF Extra, Unfinished, At
<1>4. CacheInv' /\ StatusInv' /\ DefaultInv' /\ KeyInv'
  BY <1>1, <1>2 DEF RoomInv, ContentInv, CacheInv, StatusInv, DefaultInv, KeyInv, Hit,
     At, Last, Creating, Placed
<1>5. LiveInv' /\ CleanInv'
  BY <1>1, <1>2, <1>3 DEF RoomInv, ContentInv, LiveInv, CleanInv, Clean, InUse
<1>6. CopyInv' /\ GatherInv'
  BY <1>1, <1>2 DEF RoomInv, ContentInv, CopyInv, GatherInv, Collecting, At, Last
<1>7. NoCutInv'
  BY <1>1 DEF RoomInv, NoCutInv, PowerQuiet, RecoveryQuiet, OldestQuiet, Placed, Collecting,
     InUse, Order, At
<1> QED BY <1>1, <1>4, <1>5, <1>6, <1>7 DEF RoomInv, ContentInv

LEMMA NextRoom ==
  ASSUME IInv, IInv', RoomInv, [Next]_vars
  PROVE  RoomInv'
<1> USE DEF RoomInv
<1>1. ASSUME FormatNext \/ DefaultNext \/ NewKv \/ FindOld \/ Return \/ EndSet
      PROVE  RoomInv'
  BY <1>1, FormatNextShape, DefaultNextShape, NewKvShape, FindOldShape, ReturnShape,
     EndSetShape, FormatNextContent, DefaultNextContent, NewKvContent, FindOldContent,
     ReturnContent, EndSetContent, FormatNextNoCut, DefaultNextNoCut, NewKvNoCut,
     FindOldNoCut, ReturnNoCut, EndSetNoCut
<1>2. ASSUME Erase \/ WriteHeader
      PROVE  RoomInv'
  BY <1>2, EraseShape, WriteHeaderShape, FormatContent, FormatNoCut
<1>3. ASSUME UpdateSecStatus \/ PreWrite \/ WriteData \/ CommitWrite
      PROVE  RoomInv'
  <2>1. phase = "default" => ~put.full
    BY DEF ContentInv, DefaultInv
  <2> QED BY <1>3, <2>1, UpdateSecStatusShape, PreWriteShape, WriteDataShape,
          CommitWriteShape, UpdateSecStatusContent, PreWriteContent, WriteDataContent,
          CommitWriteContent, UpdateSecStatusNoCut, PreWriteNoCut, WriteDataNoCut,
          CommitWriteNoCut
<1>4. ASSUME PreDelete \/ Delete \/ MarkDirty
      PROVE  RoomInv'
  BY <1>4, PreDeleteShape, DeleteShape, MarkDirtyShape, PreDeleteContent, DeleteContent,
     MarkDirtyContent, PreDeleteNoCut, DeleteNoCut, MarkDirtyNoCut
<1>5. ASSUME GcStart \/ GcSector \/ GcRecord \/ GcDone \/ MoveAlloc
      PROVE  RoomInv'
  BY <1>5, GcStartShape, GcSectorShape, GcRecordShape, GcDoneShape, MoveAllocShape,
     GcStartContent, GcSectorContent, GcRecordContent, GcDoneContent, MoveAllocContent,
     GcStartNoCut, GcSectorNoCut, GcRecordNoCut, GcDoneNoCut, MoveAllocNoCut
<1>6. ASSUME GcCheck \/ KvStart \/ KvCheck \/ KvEnd
      PROVE  RoomInv'
  BY <1>6, GcCheckShape, KvStartShape, KvCheckShape, KvEndShape, GcCheckContent,
     KvStartContent, KvCheckContent, KvEndContent, GcCheckNoCut, KvStartNoCut,
     KvCheckNoCut, KvEndNoCut
<1>7. ASSUME PowerOn \/ PowerOff
      PROVE  RoomInv'
  BY <1>7, PowerOnShape, PowerOffShape, PowerOnContent, PowerOffContent, PowerOnNoCut,
     PowerOffNoCut
<1>8. ASSUME NEW k \in Keys, Get(k)
      PROVE  RoomInv'
  BY <1>8, GetShape, GetContent, GetNoCut
<1>9. ASSUME NEW k \in Keys, NEW v \in Values \cup {None}, Call(k, v)
      PROVE  RoomInv'
  BY <1>9, CallShape, CallContent, CallNoCut
<1>10. ASSUME UNCHANGED vars
       PROVE  RoomInv'
  BY <1>10, StutterShape, StutterContent
<1> QED BY <1>1, <1>2, <1>3, <1>4, <1>5, <1>6, <1>7, <1>8, <1>9, <1>10 DEF Next, Step

LEMMA InitRoom == Init => RoomInv
<1> SUFFICES ASSUME Init
             PROVE  RoomInv
  OBVIOUS
<1>1. /\ phase = "off" /\ pc = "off" /\ oldest = 0 /\ ~gcRequest /\ ~alreadyGc
      /\ src = None /\ gc.for = "none" /\ todo = << >> /\ missing = {} /\ ~put.full
      /\ cuts = 0 /\ \A s \in Sectors : flash[s] = Erased
      /\ \A k \in Keys : cache[k] = None
  BY Blanks DEF Init
<1>2. Addresses = {}
  <2>1. DOMAIN << >> = {}
    BY EmptySeq
  <2> QED BY <1>1, <2>1, Blanks DEF Addresses
<1>3. LayoutInv /\ FormatInv /\ MarkedInv
  BY <1>1, Constant DEF LayoutInv, FormatInv, MarkedInv, InUse, Clean, Collecting, Erased,
     Sectors
<1>4. WalkInv /\ AimInv
  BY <1>1, Constant DEF WalkInv, AimInv, Creating, Placed, Sectors
<1>5. CacheInv /\ StatusInv /\ DefaultInv /\ KeyInv /\ CopyInv /\ GatherInv
  BY <1>1, <1>2 DEF CacheInv, StatusInv, DefaultInv, KeyInv, CopyInv, GatherInv, Hit,
     Creating, Placed, Collecting
<1>6. Live = {} /\ Held = {} /\ Extra = 0
  BY <1>1, <1>2 DEF Live, Held, Current, Records, Extra
<1>7. LiveInv
  BY <1>1, <1>6, FS_EmptySet DEF LiveInv
<1>8. CleanInv
  BY <1>1 DEF CleanInv, Clean, Erased
<1>9. PowerQuiet /\ RecoveryQuiet /\ OldestQuiet
  BY <1>1, <1>2, Constant, Other DEF PowerQuiet, RecoveryQuiet, OldestQuiet, Placed,
     Collecting, Erased, Sectors
<1> QED BY <1>1, <1>3, <1>4, <1>5, <1>7, <1>8, <1>9
        DEF RoomInv, ShapeInv, ContentInv, NoCutInv

(* The three layers hold in every behaviour.                               *)
THEOREM RoomInvariant == Spec => []RoomInv
<1>1. IInv /\ RoomInv /\ [Next]_vars => (IInv /\ RoomInv)'
  BY NextInv, NextRoom
<1>2. Init => IInv /\ RoomInv
  BY InitInv, InitRoom
<1> QED BY <1>1, <1>2, PTL DEF Spec

------------------------------------------------------------------------------
(* No call is turned away for want of room and the collector never erases  *)
(* a record that it could not copy, for every size of a sector with room   *)
(* for a record of each key, one for each power cut, and the reserve.      *)
THEOREM RoomForAll == Spec => []RoomRemains
<1>1. IInv /\ RoomInv => RoomRemains
  BY MoveRoom DEF RoomInv, ContentInv, RoomRemains
<1> QED BY <1>1, Invariant, RoomInvariant, PTL

(* The assertion of read_sector_info never fails before an operation was   *)
(* cut off; and where it fails both sectors have a header and none is half *)
(* collected, so that the next start does not run into it again.           *)
THEOREM HaltsHeal == Spec => []HaltHeals
<1>1. IInv /\ RoomInv => HaltHeals
  <2>1. SUFFICES ASSUME IInv, RoomInv, phase = "halted"
                 PROVE  cuts > 0 /\ \A s \in Sectors : flash[s].ok /\ flash[s].dirty # "GC"
    BY DEF HaltHeals
  <2>2. cuts # 0
    BY <2>1 DEF RoomInv, NoCutInv, PowerQuiet
  <2>3. cuts > 0
    BY <2>1, <2>2, Counts DEF IInv
  <2> QED BY <2>1, <2>3 DEF RoomInv, ShapeInv, MarkedInv
<1> QED BY <1>1, Invariant, RoomInvariant, PTL
==============================================================================
