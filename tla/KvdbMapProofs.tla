---------------------------- MODULE KvdbMapProofs ----------------------------
(***************************************************************************)
(* Proofs that the database of Kvdb implements DurableMap as long as no    *)
(* more than two operations are cut off, for every set of keys and values  *)
(* and every size of a sector, and that it programs no byte twice.  A      *)
(* third cut can hide a value (RecoveredAll in Kvdb), so no more is true   *)
(* of the code.                                                            *)
(*                                                                         *)
(* The invariant MapInv stands on RoomInv.  It says where the records are  *)
(* that a cut left behind, and with it that the recovery, which stops at   *)
(* the first unfinished record, has seen every half-replaced one.          *)
(***************************************************************************)
EXTENDS KvdbRoomProofs

------------------------------------------------------------------------------
(* The invariant.                                                          *)

(* The records in force, the ones about to be replaced, and the unfinished *)
(* ones that a cut has left.                                               *)
InForce == {a \in Live : At(a).st = "WRITE"}
Hidden == {a \in Live : At(a).st = "PRE_DELETE"}
Leftover == {a \in Addresses :
                At(a).st = "PRE_WRITE" /\ ~(pc \in {"data", "write"} /\ a = Last)}

(* The recovery comes to h before it comes to u: it collects a sector that *)
(* is marked for it before it looks for unfinished records.                *)
Before(h, u) == flash[h[1]].dirty = "GC" \/ (h[1] = u[1] /\ h[2] < u[2])

(* A start clears one unfinished record, and so all that one cut left.     *)
CutInv == /\ cuts = 0 => Leftover = {}
          /\ cuts <= 1 => /\ \A a, b \in Leftover : a = b
                          /\ phase = "run" => Leftover = {}

(* Where the half-replaced records are.                                    *)
HiddenInv ==
    /\ \A h \in Hidden : flash[1 - h[1]].dirty # "GC"
    /\ phase = "run" => Hidden \subseteq {src}
    /\ phase = "default" => Hidden = {}
    /\ phase # "run" => \A h \in Hidden, u \in Leftover : Before(h, u)

(* A key has one of them, older than the record in force.                  *)
AgeInv ==
    /\ \A h, g \in Hidden : At(h).key = At(g).key => h = g
    /\ \A h \in Hidden, w \in InForce :
          At(h).key = At(w).key /\ h[1] = w[1] => h[2] < w[2]

(* The recovery leaves nothing behind it, and when it is done nothing of   *)
(* value is left.                                                          *)
Ahead(a) == /\ scan.rest # << >>
            /\ \/ a[1] = Head(scan.rest) /\ a[2] >= scan.at
               \/ In(a[1], Tail(scan.rest))
ScanInv ==
    phase = "kvcheck" /\ gc.for = "none" =>
       /\ pc = "kvend" => gcRequest \/ (Hidden = {} /\ (cuts <= 1 => Leftover = {}))
       /\ pc \notin {"kvstart", "kvend"} =>
             /\ scan.at >= 1 /\ scan.rest \in {Order, <<1 - oldest>>, << >>}
             /\ \A h \in Hidden : h = src \/ Ahead(h)
             /\ \A u \in Leftover : Ahead(u)

(* A key has one record in force, and none while another is created.       *)
Unheld(k) == \A a \in InForce : At(a).key # k
OnlyOne == \A a, b \in InForce : At(a).key = At(b).key => a = b
Deleting == gc.for = "none" /\ phase = "run" /\ req.val = None
ForceInv ==
    /\ OnlyOne
    /\ pc = "predelete" => src \in InForce /\ \A h \in Hidden : At(h).key # At(src).key
    /\ pc = "predirty" => Unheld(At(src).key)
    /\ pc = "movealloc" /\ (phase = "run" \/ lastDel) => Unheld(At(src).key)
    /\ Creating => Unheld(put.key)
    /\ pc = "delete" => src \in IF Deleting THEN InForce ELSE Hidden

(* The cached address is that of the record in force, or of the one that   *)
(* is being replaced.                                                      *)
Known(k, a) == \/ a \in InForce /\ At(a).key = k
               \/ /\ a = src /\ src \in Hidden /\ At(src).key = k /\ lastDel
                  /\ Creating \/ pc \in {"predirty", "movealloc"}
FoundInv == /\ \A k \in Keys : cache[k] # None => Known(k, cache[k])
            /\ lastDel => src \in Hidden
            /\ phase = "kvcheck" /\ gc.for = "none" => ~lastDel

(* The record being created has the value of the call or of the record     *)
(* that it is a copy of.                                                   *)
Asked == put.key = req.key /\ put.val = req.val
ValueInv ==
    /\ Creating /\ Moving => put.val = At(src).val
    /\ Creating /\ ~Moving => Asked
    /\ gc.for = "none" /\ pc = "new" => Asked
    /\ pc \in {"find", "predelete", "predirty"} /\ ~Moving /\ req.val # None => Asked
    /\ phase = "default" /\ pc # "default" => req.val = Default[req.key]
    /\ phase \notin {"run", "default"} => req = NoReq
    /\ phase = "run" => IF pc = "idle" THEN req = NoReq ELSE req.key \in Keys

(* Once one sector was formatted there is always one with a header.        *)
LifeInv ==
    /\ phase \in {"default", "gccheck", "kvcheck", "run", "halted"} =>
          \E s \in Sectors : flash[s].ok
    /\ phase = "format" => todo \in {<<0, 1, 0, 1>>, <<1, 0, 1>>, <<0, 1>>, <<1>>, <<0>>, << >>}
    /\ phase = "format" /\ todo # << >> =>
          \/ flash[1 - Head(todo)].ok
          \/ \A s \in Sectors : ~flash[s].ok

PlaceInv == CutInv /\ HiddenInv /\ AgeInv
MapInv == PlaceInv /\ ScanInv /\ ForceInv /\ FoundInv /\ ValueInv /\ LifeInv

------------------------------------------------------------------------------
(* The three kinds of records, and what each write does to them.           *)

LEMMA Kinds ==
  ASSUME TypeOK
  PROVE  /\ Live = InForce \cup Hidden /\ InForce \cap Hidden = {}
         /\ Live \in SUBSET Addresses /\ Leftover \in SUBSET Addresses
         /\ Leftover \cap Live = {} /\ None \notin Live
         /\ \A a \in Live : a[1] \in Sectors /\ At(a).key \in Keys /\ At(a).val \in Values
<1>1. \A a \in Live : /\ At(a).st \in {"WRITE", "PRE_DELETE"} /\ a \in Addresses
                      /\ a[1] \in Sectors /\ a # None
                      /\ At(a).key \in Keys /\ At(a).val \in Values
  BY LiveFacts, OfAddress DEF Whole
<1> QED BY <1>1 DEF InForce, Hidden, Leftover

LEMMA CurrentForce ==
  /\ \A k : Current(k) = {a \in InForce : At(a).key = k}
  /\ \A k : Replaced(k) = {a \in Hidden : At(a).key = k}
  /\ \A k : Unheld(k) <=> Current(k) = {}
BY DEF Current, Replaced, Records, Live, InForce, Hidden, Unheld

LEMMA KindsStay ==
  ASSUME Stays
  PROVE  /\ InForce' = InForce /\ Hidden' = Hidden
         /\ \A a \in Live : flash'[a[1]].kv[a[2]] = At(a)
         /\ \A k : Unheld(k)' <=> Unheld(k)
         /\ OnlyOne' <=> OnlyOne
<1>1. /\ InForce' = {a \in Live' : flash'[a[1]].kv[a[2]].st = "WRITE"}
      /\ Hidden' = {a \in Live' : flash'[a[1]].kv[a[2]].st = "PRE_DELETE"}
  BY DEF InForce, Hidden, At
<1>2. InForce' = InForce /\ Hidden' = Hidden
  BY <1>1 DEF InForce, Hidden, Stays
<1>3. \A a \in Live : flash'[a[1]].kv[a[2]] = At(a)
  BY DEF Stays
<1>4. ASSUME NEW k
      PROVE  Unheld(k)' <=> Unheld(k)
  <2>1. Unheld(k)' <=> \A a \in InForce' : flash'[a[1]].kv[a[2]].key # k
    BY DEF Unheld, At
  <2> QED BY <1>2, <1>3, <2>1 DEF Unheld, InForce
<1>5. OnlyOne' <=> OnlyOne
  <2>1. OnlyOne' <=> \A a, b \in InForce' :
                       flash'[a[1]].kv[a[2]].key = flash'[b[1]].kv[b[2]].key => a = b
    BY DEF OnlyOne, At
  <2> QED BY <1>2, <1>3, <2>1 DEF OnlyOne, InForce
<1> QED BY <1>2, <1>3, <1>4, <1>5

(* A record is marked.                                                     *)
LEMMA MarkKinds ==
  ASSUME TypeOK, NEW a \in Addresses, NEW r \in Record, flash' = Mark(a, r)
  PROVE  /\ Addresses' = Addresses
         /\ \A b \in Addresses : flash'[b[1]].kv[b[2]] = IF b = a THEN r ELSE At(b)
         /\ \A s \in Sectors : /\ flash'[s].ok = flash[s].ok
                               /\ flash'[s].dirty = flash[s].dirty
         /\ r.ok /\ r.st = "WRITE" =>
               InForce' = InForce \cup {a} /\ Hidden' = Hidden \ {a}
         /\ r.ok /\ r.st = "PRE_DELETE" =>
               InForce' = InForce \ {a} /\ Hidden' = Hidden \cup {a}
         /\ ~r.ok \/ r.st \notin {"WRITE", "PRE_DELETE"} =>
               InForce' = InForce \ {a} /\ Hidden' = Hidden \ {a}
<1>1. /\ Addresses' = Addresses
      /\ \A b \in Addresses : flash'[b[1]].kv[b[2]] = IF b = a THEN r ELSE At(b)
      /\ \A s \in Sectors : /\ flash'[s].ok = flash[s].ok
                            /\ flash'[s].dirty = flash[s].dirty
  BY MarkFacts
<1>2. /\ InForce = {b \in Addresses : At(b).ok /\ At(b).st = "WRITE"}
      /\ Hidden = {b \in Addresses : At(b).ok /\ At(b).st = "PRE_DELETE"}
  BY DEF InForce, Hidden, Live
<1>3. /\ InForce' = {b \in Addresses' : flash'[b[1]].kv[b[2]].ok
                                      /\ flash'[b[1]].kv[b[2]].st = "WRITE"}
      /\ Hidden' = {b \in Addresses' : flash'[b[1]].kv[b[2]].ok
                                     /\ flash'[b[1]].kv[b[2]].st = "PRE_DELETE"}
  BY DEF InForce, Hidden, Live, At
<1>4. ASSUME r.ok, r.st = "WRITE"
      PROVE  InForce' = InForce \cup {a} /\ Hidden' = Hidden \ {a}
  BY <1>1, <1>2, <1>3, <1>4
<1>5. ASSUME r.ok, r.st = "PRE_DELETE"
      PROVE  InForce' = InForce \ {a} /\ Hidden' = Hidden \cup {a}
  BY <1>1, <1>2, <1>3, <1>5
<1>6. ASSUME ~r.ok \/ r.st \notin {"WRITE", "PRE_DELETE"}
      PROVE  InForce' = InForce \ {a} /\ Hidden' = Hidden \ {a}
  BY <1>1, <1>2, <1>3, <1>6
<1> QED BY <1>1, <1>4, <1>5, <1>6

LEMMA PreDeleteKinds ==
  ASSUME IInv, StatusInv, PreDelete
  PROVE  /\ src \in Live /\ Addresses' = Addresses
         /\ Hidden' = Hidden \cup {src} /\ InForce' = InForce \ {src}
         /\ \A b \in Addresses : b # src => flash'[b[1]].kv[b[2]] = At(b)
         /\ LET r == flash'[src[1]].kv[src[2]]
            IN r.st = "PRE_DELETE" /\ r.key = At(src).key /\ r.val = At(src).val
         /\ \A s \in Sectors : /\ flash'[s].ok = flash[s].ok
                               /\ flash'[s].dirty = flash[s].dirty
<1>1. pc = "predelete" /\ flash' = Mark(src, [At(src) EXCEPT !.st = "PRE_DELETE"])
  BY DEF PreDelete
<1>2. src \in Live /\ src \in Addresses /\ At(src) \in Whole
  BY <1>1, PreDeleteEffect DEF StatusInv, IInv, SrcInv
<1> DEFINE r == [At(src) EXCEPT !.st = "PRE_DELETE"]
<1>3. /\ r \in Record /\ r.ok /\ r.st = "PRE_DELETE"
      /\ r.key = At(src).key /\ r.val = At(src).val
  BY <1>2 DEF Record, Whole, Statuses
<1>4. flash' = Mark(src, r)
  BY <1>1
<1> HIDE DEF r
<1>5. TypeOK
  BY DEF IInv
<1> QED BY <1>2, <1>3, <1>4, <1>5, MarkKinds

LEMMA DeleteKinds ==
  ASSUME IInv, Delete
  PROVE  /\ src \in Addresses /\ Addresses' = Addresses
         /\ Hidden' = Hidden \ {src} /\ InForce' = InForce \ {src}
         /\ \A b \in Addresses : b # src => flash'[b[1]].kv[b[2]] = At(b)
         /\ flash'[src[1]].kv[src[2]].st = "DELETED"
         /\ \A s \in Sectors : /\ flash'[s].ok = flash[s].ok
                               /\ flash'[s].dirty = flash[s].dirty
<1>1. /\ src \in Addresses /\ Dead \in Record /\ flash' = Mark(src, Dead) /\ TypeOK
  BY DeleteEffect DEF IInv
<1>2. Dead.st = "DELETED" /\ Dead.ok = FALSE
  BY DEF Dead, Blank
<1> QED BY <1>1, <1>2, MarkKinds

LEMMA CommitKinds ==
  ASSUME IInv, CommitWrite
  PROVE  /\ Last \in Addresses /\ Last \notin Live /\ Addresses' = Addresses
         /\ Last[1] = put.to /\ put.to \in Sectors /\ put.key \in Keys
         /\ Hidden' = Hidden /\ InForce' = InForce \cup {Last}
         /\ \A b \in Addresses : b # Last => flash'[b[1]].kv[b[2]] = At(b)
         /\ LET r == flash'[Last[1]].kv[Last[2]]
            IN r.st = "WRITE" /\ r.key = put.key /\ r.val = put.val
         /\ \A s \in Sectors : /\ flash'[s].ok = flash[s].ok
                               /\ flash'[s].dirty = flash[s].dirty
<1>1. Last \in Addresses /\ Last[1] = put.to /\ put.key \in Keys
      /\ Last \notin Live /\ put.to \in Sectors
  BY CommitFacts
<1>2. At(Last) = [st |-> "PRE_WRITE", ok |-> TRUE, key |-> put.key, val |-> put.val]
  BY DEF CommitWrite, IInv, PutInv
<1> DEFINE q == At(Last)
           r == [q EXCEPT !.st = "WRITE"]
<1>3. q \in Whole
  BY <1>1, <1>2, OfAddress, RecordFacts DEF IInv
<1>4. q.key = put.key /\ q.val = put.val
  BY <1>2
<1>6. flash' = Mark(Last, r) /\ TypeOK
  BY DEF CommitWrite, IInv
<1> HIDE DEF q
<1>5. r \in Record /\ r.ok /\ r.st = "WRITE" /\ r.key = put.key /\ r.val = put.val
  BY <1>3, <1>4 DEF Record, Whole, Statuses
<1> HIDE DEF r
<1> DEFINE a == Last
<1>7. a \in Addresses /\ flash' = Mark(a, r) /\ a \notin Hidden
  BY <1>1, <1>6 DEF Hidden
<1> HIDE DEF a
<1>8. /\ Addresses' = Addresses
      /\ \A b \in Addresses : flash'[b[1]].kv[b[2]] = IF b = a THEN r ELSE At(b)
      /\ \A s \in Sectors : /\ flash'[s].ok = flash[s].ok
                            /\ flash'[s].dirty = flash[s].dirty
      /\ InForce' = InForce \cup {a} /\ Hidden' = Hidden \ {a}
  BY <1>5, <1>6, <1>7, MarkKinds
<1>9. Hidden' = Hidden /\ flash'[a[1]].kv[a[2]] = r
  BY <1>7, <1>8
<1> QED BY <1>1, <1>5, <1>8, <1>9 DEF a

(* What a step can do to the unfinished records that a cut has left.       *)
LEMMA LeftoverSame ==
  ASSUME TypeOK, \A s \in Sectors : flash'[s].kv = flash[s].kv,
         pc \notin {"data", "write"}, pc' \notin {"data", "write"}
  PROVE  Leftover' = Leftover
<1>1. Addresses' = Addresses /\ \A a \in Addresses : flash'[a[1]].kv[a[2]] = At(a)
  BY SameRecords
<1>2. Leftover' = {a \in Addresses' : flash'[a[1]].kv[a[2]].st = "PRE_WRITE"}
  BY DEF Leftover, At
<1> QED BY <1>1, <1>2 DEF Leftover

LEMMA LeftoverMark ==
  ASSUME TypeOK, NEW a \in Addresses, NEW r \in Record, flash' = Mark(a, r),
         r.st # "PRE_WRITE", pc \in {"data", "write"} => a = Last,
         pc' \notin {"data", "write"}
  PROVE  Leftover' = Leftover \ {a}
<1>1. /\ Addresses' = Addresses
      /\ \A b \in Addresses : flash'[b[1]].kv[b[2]] = IF b = a THEN r ELSE At(b)
  BY MarkFacts
<1>2. Leftover' = {b \in Addresses' : flash'[b[1]].kv[b[2]].st = "PRE_WRITE"}
  BY DEF Leftover, At
<1>3. ASSUME NEW b \in Addresses, b # a
      PROVE  b \in Leftover <=> At(b).st = "PRE_WRITE"
  BY <1>3 DEF Leftover
<1>4. Leftover \in SUBSET Addresses
  BY DEF Leftover
<1> QED BY <1>1, <1>2, <1>3, <1>4

(* Fewer records of each kind, and the sectors that are marked as before.  *)
LEMMA PlaceStep ==
  ASSUME TypeOK, PlaceInv, UNCHANGED cuts,
         Hidden' \subseteq Hidden, InForce' \subseteq InForce, Leftover' \subseteq Leftover,
         \A a \in InForce' \cup Hidden' : flash'[a[1]].kv[a[2]].key = At(a).key,
         \A s \in Sectors : flash'[s].dirty = "GC" => flash[s].dirty = "GC",
         \A h \in Hidden' : flash[h[1]].dirty = "GC" => flash'[h[1]].dirty = "GC",
         phase' = "run" => phase = "run" /\ Hidden' \subseteq {src'},
         phase' = "default" => phase = "default" \/ Hidden' = {},
         phase = "run" => phase' = "run" \/ Hidden' = {}
  PROVE  PlaceInv'
<1>1. \A h \in Hidden : h[1] \in Sectors /\ 1 - h[1] \in Sectors
  BY Kinds, Other DEF Hidden
<1>2. CutInv'
  BY DEF PlaceInv, CutInv
<1>3. HiddenInv'
  <2>1. \A h \in Hidden' : flash'[1 - h[1]].dirty # "GC"
    BY <1>1 DEF PlaceInv, HiddenInv
  <2>2. phase' = "default" => Hidden' = {}
    BY DEF PlaceInv, HiddenInv
  <2>3. ASSUME phase' # "run", NEW h \in Hidden', NEW u \in Leftover'
        PROVE  Before(h, u)'
    <3>1. Before(h, u)
      BY <2>3 DEF PlaceInv, HiddenInv
    <3> QED BY <3>1 DEF Before
  <2> QED BY <2>1, <2>2, <2>3 DEF HiddenInv
<1>4. AgeInv'
  BY DEF PlaceInv, AgeInv, At
<1> QED BY <1>2, <1>3, <1>4 DEF PlaceInv

(* Between the calls and their steps nothing is about to be replaced.      *)
LEMMA RunRest ==
  ASSUME TypeOK, HiddenInv, phase = "run", src \notin Live
  PROVE  Hidden = {}
BY DEF HiddenInv, Hidden

(* A step that writes nothing.                                             *)
LEMMA QuietPlace ==
  ASSUME TypeOK, PlaceInv, UNCHANGED <<flash, cuts>>,
         pc \notin {"data", "write"}, pc' \notin {"data", "write"},
         phase' = "run" => phase = "run" /\ (src' = src \/ src \notin Live),
         phase' = "default" => phase = "default" \/ Hidden = {},
         phase = "run" => phase' = "run" \/ src \notin Live
  PROVE  /\ PlaceInv' /\ Stays /\ Leftover' = Leftover
         /\ InForce' = InForce /\ Hidden' = Hidden
<1>1. Leftover' = Leftover /\ Stays
  BY LeftoverSame, StaysSame
<1>2. InForce' = InForce /\ Hidden' = Hidden /\ \A a \in Live : flash'[a[1]].kv[a[2]] = At(a)
  BY <1>1, KindsStay
<1>3. \A a \in InForce' \cup Hidden' : flash'[a[1]].kv[a[2]].key = At(a).key
  BY <1>2 DEF InForce, Hidden
<1>4. phase = "run" /\ src \notin Live => Hidden = {}
  BY RunRest DEF PlaceInv
<1>5. phase' = "run" => Hidden \subseteq {src'}
  BY <1>4 DEF PlaceInv, HiddenInv
<1> QED BY <1>1, <1>2, <1>3, <1>4, <1>5, PlaceStep

(* A step that writes, but no record that is in force or replaced.         *)
LEMMA WritePlace ==
  ASSUME TypeOK, PlaceInv, Stays, UNCHANGED <<cuts, phase>>,
         Leftover' \subseteq Leftover,
         \A s \in Sectors : flash'[s].dirty = "GC" <=> flash[s].dirty = "GC",
         phase = "run" => src' = src \/ src \notin Live
  PROVE  PlaceInv' /\ InForce' = InForce /\ Hidden' = Hidden
<1>2. InForce' = InForce /\ Hidden' = Hidden /\ \A a \in Live : flash'[a[1]].kv[a[2]] = At(a)
  BY KindsStay
<1>3. \A a \in InForce' \cup Hidden' : flash'[a[1]].kv[a[2]].key = At(a).key
  BY <1>2 DEF InForce, Hidden
<1>4. phase = "run" /\ src \notin Live => Hidden = {}
  BY RunRest DEF PlaceInv
<1>5. phase' = "run" => Hidden \subseteq {src'}
  BY <1>4 DEF PlaceInv, HiddenInv
<1>6. \A h \in Hidden : h[1] \in Sectors
  BY Kinds DEF Hidden
<1> QED BY <1>2, <1>3, <1>4, <1>5, <1>6, PlaceStep

(* The record that is written is behind all others of its sector.          *)
LEMMA LastGreatest ==
  ASSUME TypeOK, put.to \in Sectors, Last \in Addresses,
         NEW a \in Addresses, a # Last, a[1] = put.to
  PROVE  a[2] < Last[2]
<1>1. /\ a[2] \in 1..Len(flash[a[1]].kv) /\ a = <<a[1], a[2]>>
      /\ Len(flash[put.to].kv) \in Nat
  BY OfAddress, SectorType
<1>2. Last = <<put.to, Len(flash[put.to].kv)>>
  BY DEF Last
<1>3. a[2] # Len(flash[put.to].kv)
  BY <1>1, <1>2
<1> QED BY <1>1, <1>2, <1>3

LEMMA LastRecord ==
  ASSUME IInv, pc \in {"data", "write"}
  PROVE  Last \in Addresses /\ Last \notin Live /\ put.to \in Sectors /\ Last[1] = put.to
<1>1. put.to \in Sectors /\ Len(flash[put.to].kv) > 0
  BY DEF IInv, PutInv
<1>2. Len(flash[put.to].kv) \in Nat
  BY <1>1, SectorType DEF IInv
<1>3. Last \in Addresses
  BY <1>1, <1>2, InAddresses DEF IInv, Last
<1>4. At(Last).st = "PRE_WRITE"
  <2>1. Blank("PRE_WRITE").st = "PRE_WRITE"
    BY DEF Blank
  <2>2. CASE pc = "data"
    BY <2>1, <2>2 DEF IInv, PutInv
  <2>3. CASE pc = "write"
    <3>1. At(Last) = [st |-> "PRE_WRITE", ok |-> TRUE, key |-> put.key, val |-> put.val]
      BY <2>3 DEF IInv, PutInv
    <3> QED BY <3>1
  <2> QED BY <2>2, <2>3
<1>5. Last \notin Live
  BY <1>4 DEF Live
<1>6. Last[1] = put.to
  BY DEF Last
<1> QED BY <1>1, <1>3, <1>5, <1>6

(* Two sectors hold records only while one of them is collected.           *)
LEMMA TwoUsed ==
  ASSUME IInv, ShapeInv, HiddenInv, NEW h \in Hidden, NEW s \in Sectors, InUse(s), h[1] # s
  PROVE  flash[h[1]].dirty = "GC"
<1>1. h \in Live /\ h[1] \in Sectors /\ InUse(h[1])
  BY LiveFacts DEF Hidden, IInv
<1>2. s = 1 - h[1]
  BY <1>1, Other
<1> QED BY <1>1, <1>2 DEF ShapeInv, LayoutInv, HiddenInv

LEMMA BeforeLast ==
  ASSUME IInv, ShapeInv, HiddenInv, pc \in {"data", "write"}, NEW h \in Hidden
  PROVE  Before(h, Last)
<1>1. /\ Last \in Addresses /\ Last \notin Live /\ put.to \in Sectors
      /\ h \in Live /\ h \in Addresses /\ Last[1] = put.to
  <2>1. h \in Live /\ h \in Addresses
    BY DEF Hidden, Live
  <2> QED BY <2>1, LastRecord
<1>2. InUse(put.to)
  BY DEF ShapeInv, AimInv
<1>3. CASE h[1] = put.to
  BY <1>1, <1>3, LastGreatest DEF Before, IInv
<1>4. CASE h[1] # put.to
  BY <1>1, <1>2, <1>4, TwoUsed DEF Before
<1> QED BY <1>3, <1>4

LEMMA UpdateSecStatusPlace ==
  ASSUME IInv, PlaceInv, UpdateSecStatus
  PROVE  PlaceInv' /\ Stays /\ Leftover' \subseteq Leftover
<1>1. /\ \A s \in Sectors : flash'[s].kv = flash[s].kv /\ flash'[s].dirty = flash[s].dirty
      /\ pc \notin {"data", "write"} /\ pc' \notin {"data", "write"}
      /\ UNCHANGED <<cuts, phase, src>> /\ TypeOK
  BY UpdateSecStatusEffect DEF UpdateSecStatus, IInv
<1>2. Stays /\ Leftover' = Leftover
  BY <1>1, StaysSame, LeftoverSame
<1> QED BY <1>1, <1>2, WritePlace

LEMMA MarkDirtyPlace ==
  ASSUME IInv, StatusInv, PlaceInv, MarkDirty
  PROVE  PlaceInv' /\ Stays /\ Leftover' \subseteq Leftover
<1>1. /\ \A s \in Sectors : flash'[s].kv = flash[s].kv
      /\ \A s \in Sectors : flash'[s].dirty = "GC" <=> flash[s].dirty = "GC"
      /\ pc \notin {"data", "write"} /\ pc' \notin {"data", "write"}
      /\ UNCHANGED <<cuts, phase>> /\ TypeOK
  BY MarkDirtyEffect DEF MarkDirty, IInv, Clean
<1>2. Stays /\ Leftover' = Leftover
  BY <1>1, StaysSame, LeftoverSame
<1>3. src' = src \/ src \notin Live
  BY DEF MarkDirty, StatusInv, IInv, SrcInv
<1> QED BY <1>1, <1>2, <1>3, WritePlace

LEMMA PreWritePlace ==
  ASSUME IInv, PlaceInv, PreWrite
  PROVE  PlaceInv' /\ Stays /\ Leftover' \subseteq Leftover
<1>1. /\ \A s \in Sectors : flash'[s].dirty = flash[s].dirty
      /\ Addresses' = Addresses \cup {Last'}
      /\ \A a \in Addresses : flash'[a[1]].kv[a[2]] = At(a)
      /\ pc = "prewrite" /\ pc' = "data"
      /\ UNCHANGED <<cuts, phase, src>> /\ TypeOK
  BY PreWriteEffect DEF PreWrite, IInv, frames
<1>2. Leftover' \subseteq Leftover
  <2>1. Leftover' = {a \in Addresses' : flash'[a[1]].kv[a[2]].st = "PRE_WRITE" /\ a # Last'}
    BY <1>1 DEF Leftover, At
  <2> QED BY <1>1, <2>1 DEF Leftover
<1> QED BY <1>1, <1>2, StaysPreWrite, WritePlace

LEMMA WriteDataPlace ==
  ASSUME IInv, PlaceInv, WriteData
  PROVE  PlaceInv' /\ Stays /\ Leftover' \subseteq Leftover
<1>1. /\ pc = "data" /\ pc' = "write" /\ UNCHANGED <<cuts, phase, src>> /\ TypeOK
      /\ Last \in Addresses /\ Last \notin Live /\ Last' = Last
  <2>1. pc = "data" /\ pc' = "write" /\ UNCHANGED <<cuts, phase, src>> /\ TypeOK
    BY DEF WriteData, frames, IInv
  <2>2. Last' = Last
    BY WriteDataEffect
  <2> QED BY <2>1, <2>2, LastRecord
<1>2. PICK r \in Whole : flash' = Mark(Last, r) /\ r.st = "PRE_WRITE"
  BY WriteDataEffect
<1>3. r \in Record
  BY DEF Record
<1>4. /\ Addresses' = Addresses
      /\ \A b \in Addresses : b # Last => flash'[b[1]].kv[b[2]] = At(b)
      /\ \A s \in Sectors : flash'[s].dirty = flash[s].dirty
  BY <1>1, <1>2, <1>3, MarkFacts
<1>5. Stays
  BY <1>1, <1>2, <1>3, StaysMark
<1>6. Leftover' \subseteq Leftover
  <2>1. Leftover' = {a \in Addresses' : flash'[a[1]].kv[a[2]].st = "PRE_WRITE" /\ a # Last'}
    BY <1>1 DEF Leftover, At
  <2> QED BY <1>1, <1>4, <2>1 DEF Leftover
<1> QED BY <1>1, <1>4, <1>5, <1>6, WritePlace

LEMMA FormatPlace ==
  ASSUME IInv, ShapeInv, ContentInv, PlaceInv, Erase \/ WriteHeader
  PROVE  PlaceInv' /\ Stays /\ Leftover' \subseteq Leftover
<1>1. /\ Doomed \in Sectors /\ TypeOK
      /\ \A s \in Sectors : s # Doomed => flash'[s] = flash[s]
      /\ flash'[Doomed] \in {Erased, Formatted}
      /\ pc \in {"erase", "header"} /\ pc' \notin {"data", "write"}
      /\ UNCHANGED <<cuts, phase, src>>
  BY FormatEffect DEF Erase, WriteHeader, frames, IInv
<1>2. \A a \in Live : a[1] # Doomed
  BY <1>1, DoomedEmpty
<1>3. Stays
  BY <1>2, StaysFormat
<1>4. /\ InForce' = InForce /\ Hidden' = Hidden
      /\ \A a \in Live : flash'[a[1]].kv[a[2]] = At(a)
  BY <1>3, KindsStay
<1>5. Leftover' \subseteq Leftover
  <2>1. \A b \in Addresses' : b \in Addresses /\ flash'[b[1]].kv[b[2]] = At(b)
    BY FormatRecords
  <2>2. Leftover' \subseteq {a \in Addresses' : flash'[a[1]].kv[a[2]].st = "PRE_WRITE"}
    BY DEF Leftover, At
  <2> QED BY <1>1, <2>1, <2>2 DEF Leftover
<1>6. /\ \A s \in Sectors : flash'[s].dirty = "GC" => flash[s].dirty = "GC"
      /\ \A h \in Hidden' : flash[h[1]].dirty = "GC" => flash'[h[1]].dirty = "GC"
  <2>1. flash'[Doomed].dirty # "GC"
    BY <1>1 DEF Erased, Formatted
  <2>2. \A h \in Hidden' : h[1] \in Sectors /\ h[1] # Doomed
    BY <1>1, <1>2, <1>4, Kinds DEF Hidden
  <2> QED BY <1>1, <2>1, <2>2
<1>7. /\ \A a \in InForce' \cup Hidden' : flash'[a[1]].kv[a[2]].key = At(a).key
      /\ phase' = "run" => Hidden' \subseteq {src'}
  BY <1>1, <1>4 DEF InForce, Hidden, PlaceInv, HiddenInv
<1> QED BY <1>1, <1>3, <1>4, <1>5, <1>6, <1>7, PlaceStep

LEMMA PowerOnPlace ==
  ASSUME IInv, PlaceInv, PowerOn
  PROVE  PlaceInv' /\ Stays /\ Leftover' \subseteq Leftover
<1>1. /\ pc = "off" /\ phase = "off" /\ phase' = "format" /\ pc' = "formatnext"
      /\ UNCHANGED cuts /\ TypeOK
      /\ flash' = [s \in Sectors |-> Reread(flash[s])]
  BY DEF PowerOn, IInv, PhaseInv
<1>2. Stays
  BY StaysPowerOn
<1>3. /\ InForce' = InForce /\ Hidden' = Hidden
      /\ \A a \in Live : flash'[a[1]].kv[a[2]] = At(a)
  BY <1>2, KindsStay
<1>4. Leftover' \subseteq Leftover
  <2>1. \A a \in Addresses' : flash'[a[1]].kv[a[2]].st = "PRE_WRITE"
                                => a \in Addresses /\ At(a).st = "PRE_WRITE"
    BY RereadAddresses DEF Dead, Blank
  <2>2. Leftover' \subseteq {a \in Addresses' : flash'[a[1]].kv[a[2]].st = "PRE_WRITE"}
    BY DEF Leftover, At
  <2> QED BY <1>1, <2>1, <2>2 DEF Leftover
<1>5. \A s \in Sectors : flash'[s].dirty = flash[s].dirty
  BY <1>1, RereadEffect
<1>6. \A h \in Hidden' : h[1] \in Sectors
  BY <1>1, <1>3, Kinds DEF Hidden
<1>7. \A a \in InForce' \cup Hidden' : flash'[a[1]].kv[a[2]].key = At(a).key
  BY <1>3 DEF InForce, Hidden
<1> QED BY <1>1, <1>2, <1>3, <1>4, <1>5, <1>6, <1>7, PlaceStep

LEMMA DeletePlace ==
  ASSUME IInv, PlaceInv, Delete
  PROVE  PlaceInv' /\ Leftover' \subseteq Leftover
<1>1. /\ pc = "delete" /\ pc' = "dirty" /\ UNCHANGED <<cuts, phase, src>> /\ TypeOK
      /\ src \in Addresses /\ Dead \in Record /\ flash' = Mark(src, Dead)
  BY DeleteEffect DEF Delete, frames, IInv
<1>2. Dead.st # "PRE_WRITE"
  BY DEF Dead, Blank
<1>3. Leftover' = Leftover \ {src}
  BY <1>1, <1>2, LeftoverMark
<1>4. /\ Hidden' = Hidden \ {src} /\ InForce' = InForce \ {src}
      /\ \A b \in Addresses : b # src => flash'[b[1]].kv[b[2]] = At(b)
      /\ \A s \in Sectors : flash'[s].dirty = flash[s].dirty
  BY DeleteKinds
<1>5. /\ \A a \in InForce' \cup Hidden' : flash'[a[1]].kv[a[2]].key = At(a).key
      /\ \A h \in Hidden' : h[1] \in Sectors
  BY <1>1, <1>4, Kinds DEF InForce, Hidden
<1>6. phase' = "run" => Hidden' \subseteq {src'}
  BY <1>1, <1>4 DEF PlaceInv, HiddenInv
<1> QED BY <1>1, <1>3, <1>4, <1>5, <1>6, PlaceStep

LEMMA CommitPlace ==
  ASSUME IInv, PlaceInv, CommitWrite
  PROVE  PlaceInv' /\ Leftover' \subseteq Leftover
<1>1. /\ pc = "write" /\ pc' \notin {"data", "write"} /\ UNCHANGED <<cuts, phase, src>>
      /\ TypeOK
  BY DEF CommitWrite, IInv, Moving
<1>2. /\ Last \in Addresses /\ Last \notin Live /\ Addresses' = Addresses
      /\ Last[1] = put.to /\ put.to \in Sectors
      /\ Hidden' = Hidden /\ InForce' = InForce \cup {Last}
      /\ \A b \in Addresses : b # Last => flash'[b[1]].kv[b[2]] = At(b)
      /\ flash'[Last[1]].kv[Last[2]].st = "WRITE"
      /\ \A s \in Sectors : flash'[s].dirty = flash[s].dirty
  BY CommitKinds
<1>3. Leftover' \subseteq Leftover
  <2>1. Leftover' \subseteq {a \in Addresses' : flash'[a[1]].kv[a[2]].st = "PRE_WRITE"}
    BY DEF Leftover, At
  <2> QED BY <1>2, <2>1 DEF Leftover
<1>4. /\ Live \in SUBSET Addresses /\ InForce \subseteq Live /\ Hidden \subseteq Live
      /\ \A h \in Hidden : h[1] \in Sectors /\ 1 - h[1] \in Sectors
  BY <1>1, Kinds, Other
<1>5. CutInv'
  BY <1>1, <1>3 DEF PlaceInv, CutInv
<1>6. HiddenInv'
  <2>1. ASSUME phase' # "run", NEW h \in Hidden', NEW u \in Leftover'
        PROVE  Before(h, u)'
    <3>1. Before(h, u) /\ h[1] \in Sectors
      BY <1>1, <1>2, <1>3, <1>4, <2>1 DEF PlaceInv, HiddenInv
    <3> QED BY <1>2, <3>1 DEF Before
  <2> QED BY <1>1, <1>2, <1>4, <2>1 DEF PlaceInv, HiddenInv
<1>7. AgeInv'
  <2>1. \A h \in Hidden' : h \in Live /\ flash'[h[1]].kv[h[2]] = At(h)
    BY <1>2, <1>4
  <2>2. \A w \in InForce : flash'[w[1]].kv[w[2]] = At(w)
    BY <1>2, <1>4
  <2>3. \A h \in Hidden' : h[1] = Last[1] => h[2] < Last[2]
    BY <1>1, <1>2, <1>4, LastGreatest
  <2>4. ASSUME NEW h \in Hidden', NEW w \in InForce', h[1] = w[1], At(h)'.key = At(w)'.key
        PROVE  h[2] < w[2]
    <3>1. CASE w = Last
      BY <2>3, <2>4, <3>1
    <3>2. CASE w # Last
      BY <1>2, <2>1, <2>2, <2>4, <3>2 DEF PlaceInv, AgeInv, At
    <3> QED BY <3>1, <3>2
  <2>5. ASSUME NEW h \in Hidden', NEW g \in Hidden', At(h)'.key = At(g)'.key
        PROVE  h = g
    <3>1. At(h).key = At(g).key
      BY <2>1, <2>5 DEF At
    <3> QED BY <1>2, <3>1 DEF PlaceInv, AgeInv
  <2> QED BY <2>4, <2>5 DEF AgeInv
<1> QED BY <1>3, <1>5, <1>6, <1>7 DEF PlaceInv

LEMMA PreDeletePlace ==
  ASSUME IInv, ShapeInv, ContentInv, PlaceInv, ForceInv, PreDelete
  PROVE  PlaceInv' /\ Leftover' \subseteq Leftover
<1>1. /\ pc = "predelete" /\ pc' = "predirty" /\ UNCHANGED <<cuts, phase, src>>
      /\ TypeOK /\ src \in InForce /\ \A h \in Hidden : At(h).key # At(src).key
  BY DEF PreDelete, IInv, frames, ForceInv
<1>2. /\ src \in Live /\ Addresses' = Addresses
      /\ Hidden' = Hidden \cup {src} /\ InForce' = InForce \ {src}
      /\ \A b \in Addresses : b # src => flash'[b[1]].kv[b[2]] = At(b)
      /\ flash'[src[1]].kv[src[2]].st = "PRE_DELETE"
      /\ flash'[src[1]].kv[src[2]].key = At(src).key
      /\ \A s \in Sectors : flash'[s].dirty = flash[s].dirty
  BY PreDeleteKinds DEF ContentInv
<1>3. Leftover' \subseteq Leftover
  <2>1. Leftover' \subseteq {a \in Addresses' : flash'[a[1]].kv[a[2]].st = "PRE_WRITE"}
    BY DEF Leftover, At
  <2> QED BY <1>1, <1>2, <2>1 DEF Leftover
<1>4. /\ Live \in SUBSET Addresses /\ InForce \subseteq Live /\ Hidden \subseteq Live
      /\ \A h \in Hidden : h[1] \in Sectors /\ 1 - h[1] \in Sectors
      /\ src[1] \in Sectors /\ 1 - src[1] \in Sectors
  BY <1>1, Kinds, Other
<1>5. CutInv'
  BY <1>1, <1>3 DEF PlaceInv, CutInv
<1>6. /\ flash[1 - src[1]].dirty # "GC"
      /\ phase # "run" => flash[src[1]].dirty = "GC"
  <2>1. CASE gc.for # "none"
    <3>1. Collecting /\ src[1] = gc.sec /\ flash[src[1]].dirty = "GC"
      BY <1>1, <1>2, <2>1, Kinds DEF Collecting, ShapeInv, AimInv, MarkedInv
    <3>2. Clean(1 - src[1])
      BY <1>4, <3>1 DEF ShapeInv, LayoutInv
    <3> QED BY <3>1, <3>2 DEF Clean
  <2>2. CASE gc.for = "none"
    <3>1. phase = "run" /\ ~Collecting
      BY <1>1, <2>2 DEF ShapeInv, AimInv, Collecting
    <3> QED BY <1>4, <3>1 DEF ShapeInv, MarkedInv
  <2> QED BY <2>1, <2>2
<1>7. HiddenInv'
  <2>1. phase' # "default"
    BY <1>1, NotDefault
  <2>2. phase' = "run" => Hidden' \subseteq {src'}
    BY <1>1, <1>2 DEF PlaceInv, HiddenInv
  <2>3. \A h \in Hidden' : flash'[1 - h[1]].dirty # "GC"
    BY <1>2, <1>4, <1>6 DEF PlaceInv, HiddenInv
  <2>4. ASSUME phase' # "run", NEW h \in Hidden', NEW u \in Leftover'
        PROVE  Before(h, u)'
    <3>1. CASE h = src
      BY <1>1, <1>2, <1>4, <1>6, <2>4, <3>1 DEF Before
    <3>2. CASE h # src
      <4>1. Before(h, u) /\ h[1] \in Sectors
        BY <1>1, <1>2, <1>3, <1>4, <2>4, <3>2 DEF PlaceInv, HiddenInv
      <4> QED BY <1>2, <4>1 DEF Before
    <3> QED BY <3>1, <3>2
  <2> QED BY <2>1, <2>2, <2>3, <2>4 DEF HiddenInv
<1>8. AgeInv'
  <2>1. \A a \in Live : flash'[a[1]].kv[a[2]].key = At(a).key
    BY <1>2, <1>4
  <2>2. \A h \in Hidden' : flash'[h[1]].kv[h[2]].key = At(h).key
    BY <1>2, <1>4, <2>1
  <2>3. \A w \in InForce' : w \in InForce /\ flash'[w[1]].kv[w[2]].key = At(w).key
    BY <1>2, <1>4, <2>1
  <2>4. \A w \in InForce' : At(w).key # At(src).key
    BY <1>1, <1>2 DEF ForceInv, OnlyOne
  <2>5. ASSUME NEW h \in Hidden', NEW g \in Hidden', At(h)'.key = At(g)'.key
        PROVE  h = g
    <3>1. At(h).key = At(g).key
      BY <2>2, <2>5 DEF At
    <3> QED BY <1>1, <1>2, <3>1 DEF PlaceInv, AgeInv
  <2>6. ASSUME NEW h \in Hidden', NEW w \in InForce', h[1] = w[1], At(h)'.key = At(w)'.key
        PROVE  h[2] < w[2]
    <3>1. At(h).key = At(w).key /\ w \in InForce /\ h # src
      BY <2>2, <2>3, <2>4, <2>6 DEF At
    <3> QED BY <1>2, <2>6, <3>1 DEF PlaceInv, AgeInv
  <2> QED BY <2>5, <2>6 DEF AgeInv
<1> QED BY <1>3, <1>5, <1>7, <1>8 DEF PlaceInv

LEMMA GcSectorPlace ==
  ASSUME IInv, ShapeInv, PlaceInv, GcSector
  PROVE  PlaceInv' /\ Stays /\ Leftover' \subseteq Leftover
<1> DEFINE x == Head(gc.rest)
<1>1. /\ x \in Sectors /\ TypeOK
      /\ \A s \in Sectors : flash'[s].kv = flash[s].kv
      /\ \A s \in Sectors : s # x => flash'[s] = flash[s]
      /\ \/ flash[x].ok /\ flash[x].dirty \in {"TRUE", "GC"} /\ flash'[x].dirty = "GC"
         \/ UNCHANGED flash
  BY GcSectorEffect DEF IInv
<1> HIDE DEF x
<1>2. /\ pc = "gcnext" /\ pc' \notin {"data", "write"} /\ UNCHANGED <<cuts, phase, src>>
  BY DEF GcSector
<1>3. Stays /\ Leftover' = Leftover
  BY <1>1, <1>2, StaysSame, LeftoverSame
<1>4. /\ InForce' = InForce /\ Hidden' = Hidden
      /\ \A a \in Live : flash'[a[1]].kv[a[2]] = At(a)
  BY <1>3, KindsStay
<1>5. CASE UNCHANGED flash
  BY <1>1, <1>2, <1>3, <1>5, WritePlace
<1>6. CASE flash[x].ok /\ flash[x].dirty \in {"TRUE", "GC"} /\ flash'[x].dirty = "GC"
  <2>1. CutInv'
    BY <1>2, <1>3 DEF PlaceInv, CutInv
  <2>2. AgeInv'
    BY <1>4 DEF PlaceInv, AgeInv, At, InForce, Hidden
  <2>3. ~Clean(x) /\ InUse(x)
    <3>1. flash[x] \in Sector /\ flash[x].store # "UNUSED" /\ ~Clean(x)
      BY <1>1, <1>6, SectorType DEF ShapeInv, LayoutInv, Clean
    <3> QED BY <1>1, <3>1 DEF ShapeInv, LayoutInv, InUse, Sector
  <2>4. \A h \in Hidden : flash'[1 - h[1]].dirty # "GC"
    <3>1. SUFFICES ASSUME NEW h \in Hidden
                   PROVE  flash'[1 - h[1]].dirty # "GC"
      OBVIOUS
    <3>2. h[1] \in Sectors /\ 1 - h[1] \in Sectors /\ 1 - (1 - h[1]) = h[1]
      BY <1>1, Kinds, Other DEF Hidden
    <3>3. CASE h[1] = x
      BY <1>1, <3>2, <3>3, Other DEF PlaceInv, HiddenInv
    <3>4. CASE h[1] # x
      <4>1. flash[h[1]].dirty = "GC" /\ 1 - h[1] = x
        BY <1>1, <2>3, <3>2, <3>4, TwoUsed, Other DEF PlaceInv
      <4> QED BY <2>3, <3>2, <4>1 DEF ShapeInv, LayoutInv
    <3> QED BY <3>3, <3>4
  <2>5. ASSUME phase' # "run", NEW h \in Hidden', NEW u \in Leftover'
        PROVE  Before(h, u)'
    <3>1. Before(h, u) /\ h[1] \in Sectors
      BY <1>1, <1>2, <1>3, <1>4, <2>5, Kinds DEF PlaceInv, HiddenInv, Hidden
    <3> QED BY <1>1, <1>6, <3>1 DEF Before
  <2> QED BY <1>2, <1>3, <1>4, <2>1, <2>2, <2>4, <2>5 DEF PlaceInv, HiddenInv
<1> QED BY <1>1, <1>5, <1>6

LEMMA PowerOffPlace ==
  ASSUME IInv, ShapeInv, PlaceInv, PowerOff, MaxCuts <= 2
  PROVE  PlaceInv' /\ Stays
<1>1. /\ UNCHANGED flash /\ phase' = "off" /\ pc' = "off" /\ TypeOK
      /\ IF pc \in {"idle", "halted"} THEN UNCHANGED cuts
         ELSE cuts < MaxCuts /\ cuts' = cuts + 1
      /\ cuts \in Nat /\ MaxCuts \in Nat
  BY Constant DEF PowerOff, IInv, TypeOK
<1>2. Stays
  BY <1>1, StaysSame
<1>3. /\ InForce' = InForce /\ Hidden' = Hidden
      /\ \A a \in Live : flash'[a[1]].kv[a[2]] = At(a)
  BY <1>2, KindsStay
<1>4. \A u \in Leftover' : u \in Leftover \/ (u = Last /\ pc \in {"data", "write"})
  <2>1. Addresses' = Addresses
    BY <1>1, SameRecords
  <2>2. Leftover' \subseteq {a \in Addresses : At(a).st = "PRE_WRITE"}
    BY <1>1, <2>1 DEF Leftover, At
  <2> QED BY <2>2 DEF Leftover
<1>5. CASE pc \in {"idle", "halted"}
  <2>1. src \notin Live /\ Leftover' \subseteq Leftover
    BY <1>1, <1>4, <1>5, Kinds DEF IInv, SrcInv
  <2>2. \A a \in InForce' \cup Hidden' : flash'[a[1]].kv[a[2]].key = At(a).key
    BY <1>3 DEF InForce, Hidden
  <2>3. phase = "run" => Hidden = {}
    BY <1>1, <2>1, RunRest DEF PlaceInv
  <2> QED BY <1>1, <1>2, <1>3, <1>5, <2>1, <2>2, <2>3, PlaceStep
<1>6. CASE pc \notin {"idle", "halted"}
  <2>1. cuts <= 1 /\ cuts' = cuts + 1
    BY <1>1, <1>6
  <2>2. CutInv'
    <3>1. cuts' # 0
      BY <1>1, <2>1
    <3>2. ASSUME cuts' <= 1, NEW a \in Leftover', NEW b \in Leftover'
          PROVE  a = b
      <4>1. cuts = 0
        BY <1>1, <2>1, <3>2
      <4>2. Leftover = {}
        BY <4>1 DEF PlaceInv, CutInv
      <4> QED BY <1>4, <3>2, <4>2
    <3> QED BY <1>1, <3>1, <3>2 DEF CutInv
  <2>3. HiddenInv'
    <3>1. ASSUME NEW h \in Hidden', NEW u \in Leftover'
          PROVE  Before(h, u)
      <4>1. CASE pc \in {"data", "write"} /\ u = Last
        BY <1>3, <3>1, <4>1, BeforeLast DEF PlaceInv
      <4>2. CASE u \in Leftover
        <5>1. phase # "run"
          BY <2>1, <4>2 DEF PlaceInv, CutInv
        <5> QED BY <1>3, <3>1, <4>2, <5>1 DEF PlaceInv, HiddenInv
      <4> QED BY <1>4, <3>1, <4>1, <4>2
    <3>2. \A h, u : Before(h, u)' <=> Before(h, u)
      BY <1>1 DEF Before
    <3> QED BY <1>1, <1>3, <3>1, <3>2 DEF PlaceInv, HiddenInv
  <2>4. AgeInv'
    BY <1>3 DEF PlaceInv, AgeInv, At, InForce, Hidden
  <2> QED BY <1>2, <2>2, <2>3, <2>4 DEF PlaceInv
<1> QED BY <1>5, <1>6

LEMMA KvEndPlace ==
  ASSUME IInv, PlaceInv, ScanInv, KvEnd
  PROVE  PlaceInv' /\ Stays
<1>1. /\ UNCHANGED <<flash, cuts>> /\ pc = "kvend" /\ TypeOK
      /\ phase = "kvcheck" /\ gc.for = "none"
      /\ \/ gcRequest /\ phase' = "kvcheck" /\ pc' = "gc"
         \/ ~gcRequest /\ phase' = "run" /\ pc' = "idle"
  BY DEF KvEnd, IInv, PhaseInv, TypeOK
<1>2. CASE gcRequest /\ phase' = "kvcheck" /\ pc' = "gc"
  BY <1>1, <1>2, QuietPlace
<1>3. CASE ~gcRequest /\ phase' = "run" /\ pc' = "idle"
  <2>1. Hidden = {} /\ (cuts <= 1 => Leftover = {})
    BY <1>1, <1>3 DEF ScanInv
  <2>2. Stays /\ Leftover' = Leftover
    BY <1>1, <1>3, StaysSame, LeftoverSame
  <2>3. /\ InForce' = InForce /\ Hidden' = {}
    BY <2>1, <2>2, KindsStay
  <2>4. CutInv'
    BY <1>1, <2>1, <2>2 DEF PlaceInv, CutInv
  <2>5. HiddenInv' /\ AgeInv'
    BY <1>3, <2>3 DEF HiddenInv, AgeInv
  <2> QED BY <2>2, <2>4, <2>5 DEF PlaceInv
<1> QED BY <1>1, <1>2, <1>3

(* The record reached by the recovery, and what becomes of it.             *)
LEMMA KvCheckCases ==
  ASSUME IInv, KvCheck
  PROVE  LET a == <<Head(scan.rest), scan.at>>
         IN /\ pc = "kvcheck" /\ phase = "kvcheck" /\ gc.for = "none" /\ src = None
            /\ UNCHANGED <<phase, oldest, gcRequest, lastDel, req, put, gc, cuts>>
            /\ \/ /\ scan.rest = << >> /\ pc' = "kvend"
                  /\ UNCHANGED <<flash, scan, src, cache>>
               \/ /\ scan.rest # << >> /\ a \notin Addresses
                  /\ scan' = [rest |-> Tail(scan.rest), at |-> 1]
                  /\ UNCHANGED <<flash, src, cache, pc>>
               \/ /\ scan.rest # << >> /\ a \in Addresses
                  /\ scan' = [scan EXCEPT !.at = @ + 1]
                  /\ \/ /\ a \in Hidden /\ src' = a /\ pc' = "movealloc"
                        /\ UNCHANGED <<flash, cache>>
                     \/ /\ At(a).st = "PRE_WRITE" /\ flash' = Mark(a, Dead) /\ pc' = "kvend"
                        /\ UNCHANGED <<src, cache>>
                     \/ /\ a \in InForce /\ cache' = [cache EXCEPT ![At(a).key] = a]
                        /\ UNCHANGED <<flash, src, pc>>
                     \/ /\ a \notin Hidden /\ At(a).st # "PRE_WRITE"
                        /\ UNCHANGED <<flash, src, cache, pc>>
<1> DEFINE s == Head(scan.rest)
           a == <<s, scan.at>>
<1>1. /\ pc = "kvcheck" /\ phase = "kvcheck" /\ gc.for = "none" /\ src = None
      /\ UNCHANGED <<phase, oldest, gcRequest, lastDel, req, put, gc, cuts>>
  BY DEF KvCheck, IInv, PhaseInv, SrcInv
<1>2. CASE scan.rest = << >>
  BY <1>1, <1>2 DEF KvCheck
<1>3. CASE scan.rest # << >> /\ (flash[s].store \notin {"USING", "FULL"} \/ a \notin Addresses)
  <2>1. a \notin Addresses
    <3>1. SUFFICES ASSUME flash[s].store \notin {"USING", "FULL"}, a \in Addresses
                   PROVE  FALSE
      BY <1>3
    <3>2. s \in Sectors /\ scan.at \in 1..Len(flash[s].kv)
      BY <3>1, OfAddress DEF IInv
    <3>3. flash[s].kv = << >>
      BY <3>1, <3>2, SectorType DEF IInv, SectorInv, Sector
    <3> QED BY <3>2, <3>3
  <2>2. /\ scan' = [rest |-> Tail(scan.rest), at |-> 1]
        /\ UNCHANGED <<flash, src, cache, pc>>
    BY <1>3 DEF KvCheck
  <2> QED BY <1>1, <1>3, <2>1, <2>2
<1>4. CASE scan.rest # << >> /\ flash[s].store \in {"USING", "FULL"} /\ a \in Addresses
  <2>1. scan' = [scan EXCEPT !.at = @ + 1]
    BY <1>4 DEF KvCheck
  <2>2. /\ a \in Hidden <=> At(a).ok /\ At(a).st = "PRE_DELETE"
        /\ a \in InForce <=> At(a).ok /\ At(a).st = "WRITE"
    BY <1>4 DEF Hidden, InForce, Live
  <2>3. CASE At(a).ok /\ At(a).st = "PRE_DELETE"
    BY <1>1, <1>4, <2>1, <2>2, <2>3 DEF KvCheck
  <2>4. CASE At(a).st = "PRE_WRITE"
    BY <1>1, <1>4, <2>1, <2>2, <2>4 DEF KvCheck
  <2>5. CASE At(a).ok /\ At(a).st = "WRITE"
    BY <1>1, <1>4, <2>1, <2>2, <2>5 DEF KvCheck
  <2>6. CASE /\ ~(At(a).ok /\ At(a).st = "PRE_DELETE") /\ At(a).st # "PRE_WRITE"
             /\ ~(At(a).ok /\ At(a).st = "WRITE")
    BY <1>1, <1>4, <2>1, <2>2, <2>6 DEF KvCheck
  <2> QED BY <2>3, <2>4, <2>5, <2>6
<1> QED BY <1>2, <1>3, <1>4

LEMMA KvCheckPlace ==
  ASSUME IInv, PlaceInv, KvCheck
  PROVE  /\ PlaceInv' /\ Stays
         /\ UNCHANGED flash => Leftover' = Leftover
         /\ Leftover' \subseteq Leftover
         /\ ~UNCHANGED flash => Leftover' = Leftover \ {<<Head(scan.rest), scan.at>>}
<1> DEFINE a == <<Head(scan.rest), scan.at>>
<1>1. /\ pc = "kvcheck" /\ pc' \in {"kvcheck", "kvend", "movealloc"} /\ phase = "kvcheck"
      /\ UNCHANGED <<phase, cuts>> /\ TypeOK
      /\ \/ UNCHANGED flash
         \/ a \in Addresses /\ At(a).st = "PRE_WRITE" /\ flash' = Mark(a, Dead)
  BY KvCheckCases DEF IInv
<1> HIDE DEF a
<1>2. CASE UNCHANGED flash
  BY <1>1, <1>2, QuietPlace
<1>3. CASE /\ ~UNCHANGED flash
           /\ a \in Addresses /\ At(a).st = "PRE_WRITE" /\ flash' = Mark(a, Dead)
  <2>1. a \notin Live /\ Dead \in Record /\ Dead.st = "DELETED"
    BY <1>3 DEF Live, Record, Dead, Blank
  <2>2. Stays /\ Leftover' = Leftover \ {a}
    BY <1>1, <1>3, <2>1, StaysMark, LeftoverMark
  <2>3. \A s \in Sectors : flash'[s].dirty = flash[s].dirty
    BY <1>1, <1>3, <2>1, MarkFacts
  <2>4. PlaceInv'
    BY <1>1, <2>2, <2>3, WritePlace
  <2> QED BY <1>3, <2>2, <2>4 DEF a
<1> QED BY <1>1, <1>2, <1>3 DEF a

(* The steps that write nothing.                                           *)
Quiet == FormatNext \/ DefaultNext \/ NewKv \/ FindOld \/ Return \/ EndSet
         \/ GcStart \/ GcRecord \/ GcDone \/ MoveAlloc \/ GcCheck \/ KvStart
         \/ (\E k \in Keys : Get(k)) \/ (\E k \in Keys, v \in Values \cup {None} : Call(k, v))

LEMMA ResumeMove ==
  ASSUME IInv, ShapeInv, pc = "movealloc"
  PROVE  oldest # None
<1>1. gc.for # "none" \/ phase = "kvcheck"
  BY DEF IInv, PhaseInv, Moving
<1> QED BY <1>1 DEF ShapeInv, WalkInv

LEMMA QuietStep ==
  ASSUME IInv, ShapeInv, ContentInv, Quiet
  PROVE  /\ UNCHANGED <<flash, cuts>>
         /\ pc \notin {"data", "write"} /\ pc' \notin {"data", "write"}
         /\ src' = src \/ src = None \/ (pc = "movealloc" /\ phase = "kvcheck")
         /\ phase' = "run" => phase = "run"
         /\ phase' = "default" => phase = "default" \/ Hidden = {}
         /\ phase = "run" => phase' = "run" \/ src = None
         /\ pc \notin {"movealloc"} => src = None
<1>0. pc \notin {"predelete", "predirty", "movealloc", "status", "prewrite", "data", "write",
                 "delete", "dirty"} => src = None
  BY DEF IInv, SrcInv
<1>1. CASE FormatNext
  <2>1. pc = "formatnext" /\ phase = "format"
    BY <1>1 DEF FormatNext, IInv, PhaseInv
  <2>2. phase' = "default" => Hidden = {}
    <3>1. SUFFICES ASSUME missing # {}, NEW h \in Hidden
                   PROVE  FALSE
      BY <1>1, <2>1 DEF FormatNext
    <3>2. h \in Addresses /\ h[1] \in Sectors /\ h[2] \in 1..Len(flash[h[1]].kv)
      BY OfAddress DEF Hidden, Live, IInv
    <3>3. flash[h[1]].kv = << >>
      BY <2>1, <3>1, <3>2 DEF ShapeInv, FormatInv, Erased, Formatted
    <3> QED BY <3>2, <3>3
  <2> QED BY <1>0, <1>1, <2>1, <2>2 DEF FormatNext
<1>2. CASE DefaultNext
  <2>1. pc = "default" /\ phase = "default"
    BY <1>2 DEF DefaultNext, IInv, PhaseInv
  <2> QED BY <1>0, <1>2, <2>1 DEF DefaultNext
<1>3. CASE NewKv
  <2>1. pc = "new" /\ pc' \notin {"data", "write"} /\ phase' \in {phase, "halted"}
        /\ UNCHANGED <<flash, cuts>>
    BY <1>3 DEF NewKv, Halt
  <2> QED BY <1>0, <2>1
<1>4. CASE FindOld
  <2>1. pc = "find" /\ pc' \notin {"data", "write"} /\ phase' \in {phase, "halted"}
        /\ UNCHANGED <<flash, cuts>>
    BY <1>4 DEF FindOld, Halt
  <2> QED BY <1>0, <2>1
<1>5. CASE Return
  BY <1>0, <1>5 DEF Return
<1>6. CASE EndSet
  BY <1>0, <1>6 DEF EndSet
<1>7. CASE GcStart
  <2>1. pc = "gc" /\ pc' \notin {"data", "write"} /\ phase' \in {phase, "halted"}
        /\ UNCHANGED <<flash, cuts>>
    BY <1>7 DEF GcStart, Halt
  <2> QED BY <1>0, <2>1
<1>8. CASE GcRecord
  BY <1>0, <1>8 DEF GcRecord
<1>9. CASE GcDone
  <2>1. GcReturn \notin {"data", "write"}
    <3>1. pc = "gcnext" /\ gc.for \in {"new", "set", "gccheck", "kvcheck"}
      BY <1>9 DEF GcDone, IInv, PhaseInv, TypeOK
    <3> QED BY <3>1 DEF GcReturn
  <2> QED BY <1>0, <1>9, <2>1 DEF GcDone
<1>10. CASE MoveAlloc
  <2>1. oldest # None /\ pc = "movealloc"
    BY <1>10, ResumeMove DEF MoveAlloc
  <2>2. /\ pc' \in {"gckv", "kvend", "delete", "status"} /\ UNCHANGED <<flash, cuts, phase>>
        /\ gc.for # "none" => src' = src
    <3>1. gc.for # "none" => Alloc(gcRequest) # None
      BY <2>1, MoveRoom DEF ContentInv
    <3> QED BY <1>10, <2>1, <3>1 DEF MoveAlloc
  <2>3. gc.for = "none" => phase = "kvcheck"
    BY <2>1 DEF IInv, PhaseInv, Moving
  <2> QED BY <2>1, <2>2, <2>3
<1>11. CASE GcCheck
  <2>1. pc = "gccheck" /\ phase = "gccheck"
    BY <1>11 DEF GcCheck, IInv, PhaseInv
  <2> QED BY <1>0, <1>11, <2>1 DEF GcCheck
<1>12. CASE KvStart
  <2>1. pc = "kvstart" /\ pc' \notin {"data", "write"} /\ phase' \in {phase, "halted"}
        /\ UNCHANGED <<flash, cuts>>
    BY <1>12 DEF KvStart, Halt
  <2> QED BY <1>0, <2>1
<1>13. ASSUME NEW k \in Keys, Get(k)
       PROVE  /\ UNCHANGED <<flash, cuts>> /\ pc = "idle" /\ pc' \in {"idle", "halted"}
              /\ phase' \in {phase, "halted"}
  BY <1>13 DEF Get, Halt
<1>14. ASSUME NEW k \in Keys, NEW v \in Values \cup {None}, Call(k, v)
       PROVE  /\ UNCHANGED <<flash, cuts, phase>> /\ pc = "idle" /\ pc' \in {"find", "new"}
  BY <1>14 DEF Call
<1> QED BY <1>0, <1>1, <1>2, <1>3, <1>4, <1>5, <1>6, <1>7, <1>8, <1>9, <1>10, <1>11, <1>12,
        <1>13, <1>14 DEF Quiet

LEMMA QuietStepPlace ==
  ASSUME IInv, ShapeInv, ContentInv, PlaceInv, Quiet
  PROVE  /\ PlaceInv' /\ Stays /\ UNCHANGED <<flash, cuts>>
         /\ Leftover' = Leftover /\ InForce' = InForce /\ Hidden' = Hidden
<1>1. TypeOK /\ None \notin Live
  BY Kinds DEF IInv
<1>2. phase' = "run" => src' = src \/ src \notin Live
  BY <1>1, QuietStep
<1> QED BY <1>1, <1>2, QuietStep, QuietPlace

------------------------------------------------------------------------------
(* The scan of the recovery.                                               *)

LEMMA ScanStays ==
  ASSUME ScanInv, UNCHANGED <<scan, oldest>>,
         Hidden' \subseteq Hidden, Leftover' \subseteq Leftover,
         phase' = "kvcheck" /\ gc'.for = "none" /\ pc' # "kvstart" =>
            /\ phase = "kvcheck" /\ gc.for = "none"
            /\ pc \notin {"kvstart", "kvend"} /\ pc' # "kvend"
            /\ \A h \in Hidden' : h = src => h = src'
  PROVE  ScanInv'
<1> SUFFICES ASSUME phase' = "kvcheck", gc'.for = "none", pc' # "kvstart"
             PROVE  ScanInv'
  BY DEF ScanInv
<1>1. \A a : Ahead(a)' <=> Ahead(a)
  BY DEF Ahead, In
<1>2. Order' = Order
  BY DEF Order
<1> QED BY <1>1, <1>2 DEF ScanInv

LEMMA KvStartScan ==
  ASSUME IInv, KvStart, Stays, Leftover' = Leftover
  PROVE  ScanInv'
<1>1. \/ phase' = "halted"
      \/ /\ oldest # None /\ scan' = [rest |-> Order, at |-> 1] /\ pc' = "kvcheck"
         /\ UNCHANGED oldest
  BY DEF KvStart, Halt, ram
<1>2. CASE phase' = "halted"
  BY <1>2 DEF ScanInv
<1>3. CASE /\ oldest # None /\ scan' = [rest |-> Order, at |-> 1] /\ pc' = "kvcheck"
           /\ UNCHANGED oldest
  <2>1. oldest \in Sectors
    BY <1>3 DEF IInv, TypeOK
  <2>2. Hidden' \subseteq Addresses /\ Leftover' \subseteq Addresses
    BY KindsStay DEF Hidden, Leftover, Live
  <2>3. ASSUME NEW a \in Addresses
        PROVE  Ahead(a)'
    <3>1. a[1] \in Sectors /\ a[2] >= 1
      BY OfAddress DEF IInv
    <3>2. /\ Order # << >> /\ Head(Order) = oldest /\ Tail(Order) = <<1 - oldest>>
          /\ a[1] = oldest \/ a[1] = 1 - oldest
      BY <2>1, <3>1, InFacts, Other
    <3>3. 1 - oldest \in Sectors /\ In(1 - oldest, <<1 - oldest>>)
      BY <2>1, Other, InFacts
    <3>4. scan'.rest = Order /\ scan'.at = 1
      BY <1>3
    <3>5. a[1] = Head(scan'.rest) \/ In(a[1], Tail(scan'.rest))
      BY <3>2, <3>3, <3>4
    <3>6. In(a[1], Tail(scan'.rest)) => In(a[1], Tail(scan.rest))'
      BY DEF In
    <3> QED BY <3>1, <3>2, <3>4, <3>5, <3>6 DEF Ahead
  <2>4. scan'.at >= 1 /\ scan'.rest = Order'
    BY <1>3 DEF Order
  <2> QED BY <1>3, <2>2, <2>3, <2>4 DEF ScanInv
<1> QED BY <1>1, <1>2, <1>3

(* Without room for a copy a sector is empty, and a collection is asked for. *)
LEMMA CheckRaised ==
  ASSUME IInv, ShapeInv, pc = "movealloc", phase = "kvcheck", gc.for = "none",
         Alloc(gcRequest) = None
  PROVE  Raised(gcRequest)
<1>1. /\ \A s \in Sectors : flash[s].ok /\ flash[s].dirty # "GC"
      /\ \A s \in Sectors : flash[s].store # "UNUSED" /\ flash[s] \in Sector
  <2>1. ~Collecting
    BY DEF Collecting
  <2>2. TypeOK
    BY DEF IInv
  <2>3. \A s \in Sectors : flash[s].ok /\ flash[s].dirty # "GC"
    BY <2>1 DEF ShapeInv, FormatInv, MarkedInv
  <2>4. \A s \in Sectors : flash[s].store # "UNUSED"
    BY <2>3 DEF ShapeInv, LayoutInv
  <2> QED BY <2>2, <2>3, <2>4, SectorType
<1>2. 0 \in Sectors /\ 1 \in Sectors /\ 1 = 1 - 0
  BY DEF Sectors
<1>3. ~InUse(0) \/ ~InUse(1)
  BY <1>1, <1>2 DEF ShapeInv, LayoutInv
<1>4. \E s \in Sectors : flash[s].ok /\ flash[s].store = "EMPTY"
  BY <1>1, <1>2, <1>3 DEF InUse, Sector
<1>5. Empty # {}
  BY <1>4 DEF Empty
<1> QED BY <1>5 DEF Raised

LEMMA MoveAllocScan ==
  ASSUME IInv, ShapeInv, ScanInv, MoveAlloc,
         Hidden' = Hidden, Leftover' = Leftover
  PROVE  ScanInv'
<1>1. pc = "movealloc" /\ oldest # None
  BY ResumeMove DEF MoveAlloc
<1>2. /\ UNCHANGED <<phase, oldest, scan, gc>> /\ gcRequest' = Raised(gcRequest)
      /\ IF Alloc(gcRequest) = None
         THEN pc' = IF gc.for # "none" THEN "gckv" ELSE "kvend"
         ELSE pc' \in {"delete", "status"} /\ UNCHANGED src
  BY <1>1 DEF MoveAlloc, loading
<1>3. CASE Alloc(gcRequest) # None
  BY <1>1, <1>2, <1>3, ScanStays
<1>4. CASE Alloc(gcRequest) = None /\ gc.for = "none"
  <2>1. phase = "kvcheck" => gcRequest'
    BY <1>1, <1>2, <1>4, CheckRaised
  <2> QED BY <1>2, <1>4, <2>1 DEF ScanInv
<1>5. CASE gc.for # "none"
  BY <1>2, <1>5 DEF ScanInv
<1> QED BY <1>3, <1>4, <1>5

LEMMA KvCheckScan ==
  ASSUME IInv, ShapeInv, PlaceInv, ScanInv, KvCheck
  PROVE  ScanInv'
<1> DEFINE a == <<Head(scan.rest), scan.at>>
<1>1. /\ pc = "kvcheck" /\ phase = "kvcheck" /\ gc.for = "none" /\ src = None
      /\ UNCHANGED <<phase, oldest, gc, cuts>> /\ TypeOK
  BY KvCheckCases DEF IInv
<1>2. /\ scan.at >= 1 /\ scan.at \in Nat
      /\ scan.rest \in {Order, <<1 - oldest>>, << >>} /\ Order' = Order
      /\ \A h \in Hidden : Ahead(h)
      /\ \A u \in Leftover : Ahead(u)
      /\ Hidden \subseteq Addresses /\ Leftover \subseteq Addresses
      /\ oldest \in Sectors
  <2>1. None \notin Hidden /\ Hidden \subseteq Addresses /\ Leftover \subseteq Addresses
    BY <1>1, Kinds
  <2>2. oldest \in Sectors
    BY <1>1 DEF ShapeInv, WalkInv, TypeOK
  <2> QED BY <1>1, <2>1, <2>2 DEF ScanInv, TypeOK, Order
<1>3. scan.rest # << >> =>
         /\ Head(scan.rest) \in Sectors /\ ~In(Head(scan.rest), Tail(scan.rest))
         /\ Tail(scan.rest) \in {<<1 - oldest>>, << >>}
  <2>1. 1 - oldest \in Sectors /\ oldest # 1 - oldest
    BY <1>2, Other
  <2>2. CASE scan.rest = Order
    <3>1. Head(scan.rest) = oldest /\ Tail(scan.rest) = <<1 - oldest>>
      BY <1>2, <2>2, InFacts
    <3>2. ~In(oldest, <<1 - oldest>>)
      BY <1>2, <2>1, InFacts
    <3> QED BY <1>2, <3>1, <3>2
  <2>3. CASE scan.rest = <<1 - oldest>>
    <3>1. Head(scan.rest) = 1 - oldest /\ Tail(scan.rest) = << >>
      BY <2>3
    <3> QED BY <1>2, <2>1, <3>1, InFacts
  <2> QED BY <1>2, <2>2, <2>3
<1>4. /\ Hidden' = Hidden /\ Leftover' \subseteq Leftover
      /\ ~UNCHANGED flash => Leftover' = Leftover \ {a}
  BY KvCheckPlace, KindsStay
<1>5. CASE scan.rest = << >> /\ pc' = "kvend" /\ UNCHANGED flash
  <2>1. Hidden = {} /\ Leftover = {}
    BY <1>2, <1>5 DEF Ahead
  <2> QED BY <1>1, <1>4, <1>5, <2>1 DEF ScanInv
<1>6. CASE /\ scan.rest # << >> /\ a \notin Addresses
           /\ scan' = [rest |-> Tail(scan.rest), at |-> 1]
           /\ UNCHANGED <<flash, src, cache, pc>>
  <2>1. ASSUME NEW b \in Addresses, Ahead(b)
        PROVE  Ahead(b)'
    <3>1. b[1] \in Sectors /\ b = <<b[1], b[2]>> /\ b[2] \in 1..Len(flash[b[1]].kv)
      BY <1>1, OfAddress
    <3>2. In(b[1], Tail(scan.rest))
      <4>1. SUFFICES ASSUME b[1] = Head(scan.rest), b[2] >= scan.at
                     PROVE  FALSE
        BY <2>1 DEF Ahead
      <4>2. scan.at <= Len(flash[Head(scan.rest)].kv)
        BY <1>1, <1>2, <1>3, <1>6, <3>1, <4>1, SectorType
      <4>3. a \in Addresses
        BY <1>1, <1>2, <1>3, <1>6, <4>2, InAddresses
      <4> QED BY <1>6, <4>3
    <3>3. Tail(scan.rest) = <<1 - oldest>> /\ b[1] = 1 - oldest
      <4>1. Tail(scan.rest) # << >>
        BY <3>1, <3>2, InFacts
      <4>2. 1 - oldest \in Sectors
        BY <1>2, Other
      <4>3. Tail(scan.rest) = <<1 - oldest>>
        BY <1>3, <1>6, <4>1
      <4>4. In(b[1], <<1 - oldest>>)
        BY <3>2, <4>3
      <4> QED BY <3>1, <4>2, <4>3, <4>4, InFacts
    <3>4. scan'.rest = <<b[1]>> /\ scan'.at = 1
      BY <1>6, <3>3
    <3> QED BY <3>1, <3>4 DEF Ahead
  <2>2. scan'.at >= 1 /\ scan'.rest \in {Order', <<1 - oldest>>, << >>}
    BY <1>3, <1>6
  <2> QED BY <1>1, <1>2, <1>4, <1>6, <2>1, <2>2 DEF ScanInv
<1>7. CASE scan.rest # << >> /\ a \in Addresses /\ scan' = [scan EXCEPT !.at = @ + 1]
  <2>1. scan'.at = scan.at + 1 /\ scan'.rest = scan.rest
    BY <1>1, <1>7 DEF TypeOK
  <2>2. ASSUME NEW b \in Addresses, Ahead(b), b # a
        PROVE  Ahead(b)'
    <3>1. b[1] \in Sectors /\ b = <<b[1], b[2]>> /\ b[2] \in Nat
      BY <1>1, OfAddress
    <3>2. b[1] = Head(scan.rest) => b[2] # scan.at
      BY <2>2, <3>1
    <3>3. In(b[1], Tail(scan.rest)) => In(b[1], Tail(scan.rest))'
      BY <2>1 DEF In
    <3> QED BY <1>2, <2>1, <2>2, <3>1, <3>2, <3>3 DEF Ahead
  <2>3. scan'.at >= 1 /\ scan'.rest \in {Order', <<1 - oldest>>, << >>}
    BY <1>2, <2>1
  <2>4. CASE a \in Hidden /\ src' = a /\ pc' = "movealloc" /\ UNCHANGED flash
    <3>1. a \notin Leftover
      BY <2>4, Kinds, <1>1
    <3> QED BY <1>1, <1>2, <1>4, <2>2, <2>3, <2>4, <3>1 DEF ScanInv
  <2>5. CASE At(a).st = "PRE_WRITE" /\ flash' = Mark(a, Dead) /\ pc' = "kvend"
    <3>1. a \in Leftover
      BY <1>1, <1>7, <2>5 DEF Leftover
    <3>2. Hidden = {}
      <4>1. SUFFICES ASSUME NEW h \in Hidden
                     PROVE  FALSE
        OBVIOUS
      <4>2. h[1] \in Sectors /\ flash[h[1]].dirty # "GC" /\ h[2] \in Nat
        <5>1. ~Collecting
          BY <1>1 DEF Collecting
        <5>2. h[1] \in Sectors /\ h[2] \in Nat
          BY <1>1, <1>2, OfAddress
        <5> QED BY <1>1, <5>1, <5>2 DEF ShapeInv, MarkedInv
      <4>3. h[1] = Head(scan.rest) /\ h[2] < scan.at
        BY <1>1, <3>1, <4>2 DEF PlaceInv, HiddenInv, Before
      <4> QED BY <1>2, <1>3, <1>7, <4>1, <4>2, <4>3 DEF Ahead
    <3>3. cuts <= 1 => Leftover' = {}
      <4>1. ASSUME cuts <= 1, NEW u \in Leftover'
            PROVE  FALSE
        <5>1. u \in Leftover /\ u = a
          BY <1>4, <3>1, <4>1 DEF PlaceInv, CutInv
        <5>2. flash'[a[1]].kv[a[2]] = Dead
          BY <1>1, <1>7, <2>5, MarkFacts DEF Record
        <5>3. flash'[u[1]].kv[u[2]].st = "PRE_WRITE"
          BY <4>1 DEF Leftover, At
        <5>4. Dead.st # "PRE_WRITE"
          BY DEF Dead, Blank
        <5> HIDE DEF a
        <5> QED BY <5>1, <5>2, <5>3, <5>4
      <4> QED BY <4>1
    <3> QED BY <1>1, <1>4, <2>5, <3>2, <3>3 DEF ScanInv
  <2>6. CASE a \notin Hidden /\ At(a).st # "PRE_WRITE" /\ UNCHANGED <<flash, src, pc>>
    <3>1. a \notin Leftover
      BY <2>6 DEF Leftover
    <3> QED BY <1>1, <1>2, <1>4, <2>2, <2>3, <2>6, <3>1 DEF ScanInv
  <2>7. a \in InForce => a \notin Hidden /\ At(a).st # "PRE_WRITE"
    BY DEF InForce, Hidden
  <2> HIDE DEF a
  <2> QED BY <1>7, <2>4, <2>5, <2>6, <2>7, KvCheckCases DEF a
<1> QED BY <1>5, <1>6, <1>7, KvCheckCases

------------------------------------------------------------------------------
(* The record in force.                                                    *)

LEMMA ForceRest ==
  ASSUME ForceInv, Stays, ~Creating',
         pc' \notin {"predelete", "predirty", "movealloc", "delete"}
  PROVE  ForceInv'
<1>1. OnlyOne'
  BY KindsStay DEF ForceInv
<1> QED BY <1>1 DEF ForceInv

LEMMA UnheldLater ==
  ASSUME Stays, NEW k, Unheld(k)
  PROVE  /\ put'.key = k => Unheld(put.key)'
         /\ At(src)'.key = k => Unheld(At(src).key)'
<1>1. \A a \in InForce' : a \in InForce /\ flash'[a[1]].kv[a[2]] = At(a)
  BY KindsStay DEF InForce
<1>2. \A a \in InForce' : At(a)'.key # k
  BY <1>1 DEF Unheld, At
<1> QED BY <1>2 DEF Unheld

(* What a look-up in the middle of a call finds.                           *)
LEMMA FindForce ==
  ASSUME IInv, ContentInv, HiddenInv, phase = "run", src = None, pc # "write",
         NEW k \in Keys
  PROVE  /\ Find(k) = None => Unheld(k)
         /\ Find(k) # None => Find(k) \in InForce /\ At(Find(k)).key = k
<1>1. TypeOK /\ None \notin Live
  BY Kinds DEF IInv
<1>2. Hidden = {}
  BY <1>1, RunRest
<1>3. /\ Find(k) = None => Current(k) = {}
      /\ Find(k) # None => Find(k) \in Live /\ At(Find(k)).key = k
  BY FindLive DEF ContentInv
<1> QED BY <1>1, <1>2, <1>3, Kinds, CurrentForce

LEMMA FindOldForce ==
  ASSUME IInv, ContentInv, PlaceInv, ForceInv, FindOld, Stays
  PROVE  ForceInv'
<1>1. /\ pc = "find" /\ phase = "run" /\ gc.for = "none" /\ src = None
      /\ req.key \in Keys
  BY DEF FindOld, IInv, PhaseInv, SrcInv, PutInv
<1> DEFINE a == Find(req.key)
<1>2. \/ phase' = "halted" /\ pc' = "halted"
      \/ /\ src' = a /\ UNCHANGED <<flash, phase, req, put, gc>>
         /\ pc' = IF req.val = None THEN IF a = None THEN "absent" ELSE "delete"
                                    ELSE IF a = None THEN "status" ELSE "predelete"
  BY DEF FindOld, Halt
<1>3. /\ a = None => Unheld(req.key)
      /\ a # None => a \in InForce /\ At(a).key = req.key
  BY <1>1, FindForce DEF PlaceInv
<1>4. /\ Hidden = {} /\ InForce' = InForce /\ Hidden' = Hidden /\ OnlyOne'
      /\ \A k : Unheld(k)' <=> Unheld(k)
  <2>1. Hidden = {}
    BY <1>1, Kinds, RunRest DEF PlaceInv, IInv
  <2> QED BY <2>1, KindsStay DEF ForceInv
<1>5. CASE pc' \in {"halted", "absent"}
  BY <1>5, ForceRest DEF Creating
<1> HIDE DEF a
<1>6. CASE pc' = "delete" /\ src' = a /\ a # None /\ req.val = None
           /\ UNCHANGED <<flash, phase, req, put, gc>>
  <2>1. Deleting'
    BY <1>1, <1>6 DEF Deleting
  <2> QED BY <1>3, <1>4, <1>6, <2>1 DEF ForceInv, Creating
<1>7. CASE pc' = "status" /\ a = None /\ req.val # None
           /\ UNCHANGED <<flash, phase, req, put, gc>>
  <2>1. put'.key = req.key
    BY <1>1, <1>7 DEF ContentInv, KeyInv
  <2>2. Unheld(put.key)'
    BY <1>3, <1>7, <2>1, UnheldLater
  <2> QED BY <1>4, <1>7, <2>2 DEF ForceInv
<1>8. CASE pc' = "predelete" /\ src' = a /\ a # None
  BY <1>3, <1>4, <1>8 DEF ForceInv, Creating
<1> QED BY <1>2, <1>5, <1>6, <1>7, <1>8 DEF a

LEMMA NewKvForce ==
  ASSUME IInv, ContentInv, ForceInv, NewKv, Stays
  PROVE  ForceInv'
<1>1. pc = "new" /\ pc' \in {"halted", "status", "find", "gc", "default", "full"}
      /\ gc.for = "none"
  BY DEF NewKv, Halt, IInv, PhaseInv
<1>2. CASE pc' # "status"
  BY <1>1, <1>2, ForceRest DEF Creating
<1>3. CASE pc' = "status"
  <2>1. phase = "default" /\ put'.key = put.key
    BY <1>1, <1>3 DEF NewKv, Halt, IInv, TypeOK
  <2>2. put.key = req.key /\ Current(req.key) = {}
    BY <1>1, <2>1 DEF ContentInv, KeyInv, DefaultInv
  <2>3. Unheld(put.key)'
    BY <2>1, <2>2, CurrentForce, UnheldLater
  <2> QED BY <1>3, <2>3, KindsStay DEF ForceInv
<1> QED BY <1>2, <1>3

(* The record the collector comes to.                                      *)
LEMMA GcRecordTaken ==
  ASSUME IInv, GcRecord
  PROVE  /\ pc = "gckv" /\ src = None /\ gc.for # "none" /\ Collecting /\ gc.sec \in Sectors
         /\ UNCHANGED <<flash, phase, lastDel, cache, req, put, cuts>> /\ gc'.for = gc.for
         /\ \/ pc' = "erase" /\ UNCHANGED src
            \/ /\ src' \in Live /\ src'[1] = gc.sec
               /\ \A b \in Live : b[1] = gc.sec /\ b[2] >= gc.at => src'[2] <= b[2]
               /\ \/ src' \in InForce /\ pc' = "predelete"
                  \/ src' \in Hidden /\ pc' = "movealloc"
<1> DEFINE live == {i \in gc.at..Len(flash[gc.sec].kv) :
                       LET r == At(<<gc.sec, i>>)
                       IN r.ok /\ r.st \in {"WRITE", "PRE_DELETE"}}
           i == CHOOSE i \in live : \A j \in live : i <= j
           a == <<gc.sec, i>>
<1>1. /\ pc = "gckv" /\ src = None /\ gc.for # "none" /\ Collecting /\ gc.sec \in Sectors
      /\ gc.at \in Nat /\ gc.at >= 1 /\ TypeOK
      /\ UNCHANGED <<flash, phase, lastDel, cache, req, put, cuts>>
  BY DEF GcRecord, IInv, PhaseInv, GcInv, SrcInv, TypeOK, Collecting, ram
<1>2. \A b \in Live : b[1] = gc.sec /\ b[2] >= gc.at => b[2] \in live
  <2>1. SUFFICES ASSUME NEW b \in Live, b[1] = gc.sec, b[2] >= gc.at
                 PROVE  b[2] \in live
    OBVIOUS
  <2>2. b \in Addresses /\ At(b).ok /\ At(b).st \in {"WRITE", "PRE_DELETE"}
    BY DEF Live
  <2>3. b = <<gc.sec, b[2]>> /\ b[2] \in 1..Len(flash[gc.sec].kv)
    BY <1>1, <2>1, <2>2, OfAddress
  <2>4. At(<<gc.sec, b[2]>>).ok /\ At(<<gc.sec, b[2]>>).st \in {"WRITE", "PRE_DELETE"}
    BY <2>2, <2>3
  <2>5. b[2] \in gc.at..Len(flash[gc.sec].kv)
    BY <1>1, <2>1, <2>3, SectorType
  <2> QED BY <2>4, <2>5
<1>3. CASE live = {}
  BY <1>1, <1>3 DEF GcRecord
<1>4. CASE live # {}
  <2>1. src' = a /\ gc' = [gc EXCEPT !.at = i + 1]
        /\ pc' = IF At(a).st = "WRITE" THEN "predelete" ELSE "movealloc"
    BY <1>4 DEF GcRecord
  <2>2. live \in SUBSET Nat
    BY <1>1, SectorType
  <2>3. i \in live /\ \A j \in live : i <= j
    BY <1>4, <2>2, Least
  <2>4. a \in Live
    <3>1. i \in Nat /\ i >= 1 /\ i <= Len(flash[gc.sec].kv)
      BY <1>1, <2>3, SectorType
    <3>2. a \in Addresses
      BY <1>1, <3>1, InAddresses
    <3> QED BY <2>3, <3>2 DEF Live
  <2>5. a[1] = gc.sec /\ a[2] = i
    OBVIOUS
  <2>6. a \in InForce \/ a \in Hidden
    BY <1>1, <2>4, Kinds
  <2>7. gc'.for = gc.for
    BY <1>1, <2>1 DEF TypeOK
  <2>8. \A b \in Live : b[1] = gc.sec /\ b[2] >= gc.at => i <= b[2]
    BY <1>2, <2>3
  <2> HIDE DEF a, i, live
  <2> QED BY <1>1, <2>1, <2>4, <2>5, <2>6, <2>7, <2>8 DEF InForce, Hidden
<1> QED BY <1>3, <1>4

LEMMA GcRecordForce ==
  ASSUME IInv, ShapeInv, ContentInv, PlaceInv, ForceInv, FoundInv, GcRecord, Stays
  PROVE  ForceInv'
<1>1. /\ pc = "gckv" /\ src = None /\ gc.for # "none" /\ Collecting /\ gc.sec \in Sectors
      /\ UNCHANGED <<flash, phase, lastDel, req, put>> /\ gc'.for = gc.for
      /\ InForce' = InForce /\ Hidden' = Hidden /\ OnlyOne'
  BY GcRecordTaken, KindsStay DEF ForceInv
<1>2. CASE pc' = "erase"
  BY <1>2, ForceRest DEF Creating
<1>3. CASE src' \in InForce /\ pc' = "predelete" /\ src'[1] = gc.sec
           /\ \A b \in Live : b[1] = gc.sec /\ b[2] >= gc.at => src'[2] <= b[2]
  <2>1. ASSUME NEW h \in Hidden, At(h).key = At(src').key
        PROVE  FALSE
    <3>1. h \in Live /\ h \in Addresses /\ h[1] \in Sectors /\ h # None /\ h[2] \in Nat
      BY OfAddress DEF Hidden, Live, IInv
    <3>2. src' \in Addresses /\ src'[2] \in Nat
      BY <1>3, OfAddress DEF InForce, Live, IInv
    <3>3. CASE h[1] = gc.sec
      <4>1. h[2] < src'[2]
        BY <1>3, <2>1, <3>3 DEF PlaceInv, AgeInv
      <4>2. h[2] >= gc.at
        BY <1>1, <3>1, <3>3 DEF ContentInv, GatherInv
      <4> QED BY <1>3, <3>1, <3>2, <3>3, <4>1, <4>2
    <3>4. CASE h[1] # gc.sec
      <4>1. 1 - h[1] = gc.sec
        BY <1>1, <3>1, <3>4, Other
      <4> QED BY <1>1, <4>1 DEF PlaceInv, HiddenInv, ShapeInv, MarkedInv
    <3> QED BY <3>3, <3>4
  <2>2. At(src)' = At(src')
    BY <1>1 DEF At
  <2>3. \A h \in Hidden' : At(h)'.key # At(src)'.key
    BY <1>1, <2>1, <2>2 DEF At
  <2> QED BY <1>1, <1>3, <2>3 DEF ForceInv, Creating
<1>4. CASE src' \in Hidden /\ pc' = "movealloc"
  <2>1. phase # "run"
    <3>1. src' # None
      BY <1>4, Kinds DEF IInv
    <3> QED BY <1>1, <1>4, <3>1 DEF PlaceInv, HiddenInv
  <2>2. ~lastDel
    <3>1. None \notin Hidden
      BY Kinds DEF IInv
    <3> QED BY <1>1, <3>1 DEF FoundInv
  <2> QED BY <1>1, <1>4, <2>1, <2>2 DEF ForceInv, Creating
<1> QED BY <1>2, <1>3, <1>4, GcRecordTaken

LEMMA MoveAllocForce ==
  ASSUME IInv, ShapeInv, ContentInv, ForceInv, MoveAlloc, Stays
  PROVE  ForceInv'
<1>1. pc = "movealloc" /\ oldest # None /\ Moving /\ src \in Live /\ src \in Hidden
  <2>1. pc = "movealloc"
    BY DEF MoveAlloc
  <2>2. src # None /\ Moving
    BY <2>1 DEF IInv, SrcInv, PhaseInv
  <2> QED BY <2>1, <2>2, ResumeMove DEF ContentInv, StatusInv, Hidden
<1>2. /\ InForce' = InForce /\ Hidden' = Hidden /\ OnlyOne'
      /\ \A k : Unheld(k)' <=> Unheld(k)
  BY KindsStay DEF ForceInv
<1>3. UNCHANGED <<flash, phase, gc, req>>
  BY <1>1 DEF MoveAlloc
<1>4. CASE Alloc(gcRequest) = None
  <2>1. pc' \in {"gckv", "kvend"}
    BY <1>1, <1>4 DEF MoveAlloc
  <2> QED BY <2>1, ForceRest DEF Creating
<1>5. CASE Alloc(gcRequest) # None /\ Copied(At(src).key)
  <2>1. pc' = "delete" /\ src' = src
    BY <1>1, <1>5 DEF MoveAlloc
  <2>2. ~Deleting'
    BY <1>1, <1>3, <1>5 DEF Deleting, Moving
  <2> QED BY <1>1, <1>2, <2>1, <2>2 DEF ForceInv, Creating
<1>6. CASE Alloc(gcRequest) # None /\ ~Copied(At(src).key)
  <2>1. pc' = "status" /\ put'.key = At(src).key
    BY <1>1, <1>6 DEF MoveAlloc
  <2>2. Unheld(At(src).key)
    <3>1. CASE phase = "run"
      BY <1>1, <3>1 DEF ForceInv
    <3>2. CASE phase \in {"gccheck", "kvcheck"}
      BY <1>6, <3>2, CurrentForce DEF Copied, Current
    <3>3. CASE phase = "default"
      <4>1. gc.for # "none" /\ Collecting
        BY <1>1, <3>3 DEF Moving, Collecting
      <4>2. gc.sec \in Sectors
        BY <1>1, <4>1 DEF IInv, GcInv, TypeOK
      <4> QED BY <3>3, <4>1, <4>2 DEF ShapeInv, MarkedInv, FormatInv, Clean
    <3> QED BY <1>1, <3>1, <3>2, <3>3, PhaseOfSteps
  <2>3. Unheld(put.key)'
    BY <2>1, <2>2, UnheldLater
  <2> QED BY <1>2, <2>1, <2>3 DEF ForceInv
<1> QED BY <1>4, <1>5, <1>6

(* The steps of create_kv_blob before the record is in force.              *)
LEMMA CreateStep ==
  ASSUME IInv, UpdateSecStatus \/ PreWrite \/ WriteData
  PROVE  /\ Creating /\ Creating'
         /\ UNCHANGED <<phase, oldest, lastDel, cache, req, src, gc, scan>>
         /\ put'.key = put.key /\ put'.val = put.val /\ pc' \notin {"delete", "status"}
<1>1. CASE UpdateSecStatus
  <2>1. put'.key = put.key /\ put'.val = put.val
    BY <1>1, UpdateSecStatusEffect
  <2> QED BY <1>1, <2>1 DEF UpdateSecStatus, Creating, ram, loading
<1>2. CASE PreWrite \/ WriteData
  BY <1>2 DEF PreWrite, WriteData, Creating, ram, loading, frames
<1> QED BY <1>1, <1>2

LEMMA CreateForce ==
  ASSUME IInv, ForceInv, UpdateSecStatus \/ PreWrite \/ WriteData, Stays
  PROVE  ForceInv'
<1>1. Creating /\ Creating' /\ put'.key = put.key
      /\ pc' \notin {"predelete", "predirty", "movealloc", "delete"}
  BY CreateStep DEF Creating
<1>2. Unheld(put.key)'
  BY <1>1, UnheldLater DEF ForceInv
<1> QED BY <1>1, <1>2, KindsStay DEF ForceInv

LEMMA CommitForce ==
  ASSUME IInv, ShapeInv, ContentInv, ForceInv, CommitWrite
  PROVE  ForceInv'
<1>1. /\ pc = "write" /\ Creating /\ UNCHANGED <<phase, gc, req, src>>
      /\ pc' \in {"delete", "default", "endset"}
      /\ pc' = "delete" => Moving \/ (phase # "default" /\ src # None)
  BY DEF CommitWrite, Creating
<1>2. /\ Last \in Addresses /\ Last \notin Live
      /\ Hidden' = Hidden /\ InForce' = InForce \cup {Last}
      /\ \A b \in Addresses : b # Last => flash'[b[1]].kv[b[2]] = At(b)
      /\ flash'[Last[1]].kv[Last[2]].key = put.key
  BY CommitKinds
<1>3. InForce \subseteq Addresses /\ InForce \subseteq Live
  BY DEF InForce, Live
<1>4. OnlyOne'
  <2>1. SUFFICES ASSUME NEW a \in InForce', NEW b \in InForce', At(a)'.key = At(b)'.key
                 PROVE  a = b
    BY DEF OnlyOne
  <2>2. \A w \in InForce : flash'[w[1]].kv[w[2]].key = At(w).key /\ At(w).key # put.key
    BY <1>1, <1>2, <1>3 DEF ForceInv, Unheld
  <2>3. flash'[a[1]].kv[a[2]].key = flash'[b[1]].kv[b[2]].key
    BY <2>1 DEF At
  <2>4. CASE a \in InForce /\ b \in InForce
    BY <2>2, <2>3, <2>4 DEF ForceInv, OnlyOne
  <2>5. CASE a = Last \/ b = Last
    BY <1>2, <2>2, <2>3, <2>5
  <2> QED BY <1>2, <2>4, <2>5
<1>5. ASSUME pc' = "delete"
      PROVE  ~Deleting' /\ src' \in Hidden'
  <2>1. src # None
    BY <1>1, <1>5 DEF IInv, SrcInv
  <2>2. src \in Hidden
    BY <1>1, <2>1 DEF ContentInv, StatusInv, Hidden
  <2>3. ~Deleting'
    BY <1>1, <1>5, <2>1 DEF ShapeInv, AimInv, Deleting, Moving
  <2> QED BY <1>1, <1>2, <2>2, <2>3
<1> QED BY <1>1, <1>4, <1>5 DEF ForceInv, Creating

LEMMA PreDeleteForce ==
  ASSUME IInv, ContentInv, ForceInv, PreDelete
  PROVE  ForceInv'
<1>1. /\ pc = "predelete" /\ pc' = "predirty" /\ UNCHANGED src
      /\ src \in InForce /\ OnlyOne
  BY DEF PreDelete, frames, ForceInv
<1>2. /\ InForce' = InForce \ {src}
      /\ \A b \in Addresses : b # src => flash'[b[1]].kv[b[2]] = At(b)
      /\ flash'[src[1]].kv[src[2]].key = At(src).key
  BY PreDeleteKinds DEF ContentInv
<1>3. \A w \in InForce' : w \in InForce /\ w # src /\ At(w)' = At(w)
  BY <1>2 DEF At, InForce, Live
<1>4. OnlyOne'
  BY <1>1, <1>3 DEF OnlyOne
<1>5. At(src)'.key = At(src).key
  BY <1>1, <1>2 DEF At
<1>6. Unheld(At(src).key)'
  BY <1>1, <1>3, <1>5 DEF Unheld, OnlyOne
<1> QED BY <1>1, <1>4, <1>6 DEF ForceInv, Creating

LEMMA DeleteForce ==
  ASSUME IInv, ForceInv, Delete
  PROVE  ForceInv'
<1>1. pc' = "dirty"
  BY DEF Delete
<1>2. /\ InForce' = InForce \ {src}
      /\ \A b \in Addresses : b # src => flash'[b[1]].kv[b[2]] = At(b)
  BY DeleteKinds
<1>3. \A w \in InForce' : w \in InForce /\ At(w)' = At(w)
  BY <1>2 DEF At, InForce, Live
<1>4. OnlyOne'
  BY <1>3 DEF OnlyOne, ForceInv
<1> QED BY <1>1, <1>4 DEF ForceInv, Creating

LEMMA MarkDirtyForce ==
  ASSUME IInv, ShapeInv, ContentInv, ForceInv, MarkDirty, Stays
  PROVE  ForceInv'
<1>1. /\ pc \in {"predirty", "dirty"} /\ UNCHANGED <<phase, gc, req, put>>
      /\ pc' \in {"movealloc", "status", "gckv", "kvcheck", "done", "endset"}
  BY DEF MarkDirty
<1>2. CASE pc' \notin {"movealloc", "status"}
  BY <1>1, <1>2, ForceRest DEF Creating
<1>3. CASE pc' \in {"movealloc", "status"}
  <2>1. pc = "predirty" /\ UNCHANGED src /\ src # None /\ (pc' = "status" => ~Moving)
    BY <1>1, <1>3 DEF MarkDirty, IInv, SrcInv
  <2>2. src \in Live /\ Unheld(At(src).key)
    BY <2>1 DEF ContentInv, StatusInv, ForceInv
  <2>3. At(src)' = At(src)
    BY <2>1, <2>2 DEF Stays, At
  <2>4. Unheld(At(src).key)'
    BY <2>2, <2>3, UnheldLater
  <2>5. pc' = "status" => put.key = At(src).key
    BY <2>1 DEF ContentInv, KeyInv, Placed, Moving
  <2>6. pc' = "status" => Unheld(put.key)'
    BY <1>1, <2>2, <2>5, UnheldLater
  <2> QED BY <1>3, <2>4, <2>6, KindsStay DEF ForceInv, Creating
<1> QED BY <1>2, <1>3

LEMMA KvCheckForce ==
  ASSUME IInv, ForceInv, FoundInv, KvCheck, Stays
  PROVE  ForceInv'
<1>1. /\ pc = "kvcheck" /\ phase = "kvcheck" /\ phase' = phase /\ gc.for = "none"
      /\ pc' \in {"kvcheck", "kvend", "movealloc"} /\ lastDel' = lastDel
  BY KvCheckCases
<1>2. ~lastDel
  BY <1>1 DEF FoundInv
<1> QED BY <1>1, <1>2, KindsStay DEF ForceInv, Creating

------------------------------------------------------------------------------
(* The cache.                                                              *)

LEMMA NotReplacing ==
  ASSUME TypeOK, FoundInv, src \notin Live
  PROVE  ~lastDel /\ \A k \in Keys : cache[k] # None => cache[k] \in InForce
                                                        /\ At(cache[k]).key = k
BY DEF FoundInv, Known, Hidden

LEMMA FoundRest ==
  ASSUME FoundInv, Stays, ~lastDel, ~lastDel',
         \A k \in Keys : \/ cache'[k] \in {cache[k], None}
                         \/ cache'[k] \in InForce /\ At(cache'[k]).key = k
  PROVE  FoundInv'
<1>1. InForce' = InForce /\ \A a \in InForce : flash'[a[1]].kv[a[2]] = At(a)
  BY KindsStay DEF InForce
<1>2. \A k \in Keys : cache'[k] # None => cache'[k] \in InForce /\ At(cache'[k]).key = k
  BY DEF FoundInv, Known
<1>3. ASSUME NEW k \in Keys, cache'[k] # None
      PROVE  Known(k, cache[k])'
  <2>1. cache'[k] \in InForce' /\ flash'[cache'[k][1]].kv[cache'[k][2]].key = k
    BY <1>1, <1>2, <1>3
  <2> QED BY <2>1 DEF Known, At
<1> QED BY <1>3 DEF FoundInv

(* The record that is replaced stays the same.                             *)
LEMMA FoundOn ==
  ASSUME FoundInv, Stays, UNCHANGED <<cache, lastDel, src>>,
         Creating' \/ pc' \in {"predirty", "movealloc"},
         phase' = "kvcheck" /\ gc'.for = "none" => phase = "kvcheck" /\ gc.for = "none"
  PROVE  FoundInv'
<1>1. /\ InForce' = InForce /\ Hidden' = Hidden
      /\ \A a \in InForce \cup Hidden : flash'[a[1]].kv[a[2]] = At(a)
  BY KindsStay DEF InForce, Hidden
<1>2. ASSUME NEW k \in Keys, cache'[k] # None
      PROVE  Known(k, cache[k])'
  <2>1. cache'[k] = cache[k] /\ Known(k, cache[k])
    BY <1>2 DEF FoundInv
  <2>2. At(cache[k])' = flash'[cache[k][1]].kv[cache[k][2]]
    BY <2>1 DEF At
  <2>3. At(src)' = flash'[src[1]].kv[src[2]]
    BY DEF At
  <2> QED BY <1>1, <2>1, <2>2, <2>3 DEF Known
<1> QED BY <1>1, <1>2 DEF FoundInv

LEMMA LostFound == Lost => FoundInv'
<1> SUFFICES ASSUME Lost
             PROVE  FoundInv'
  OBVIOUS
<1>1. ~lastDel' /\ \A k \in Keys : cache'[k] = None
  BY Blanks DEF Lost
<1> QED BY <1>1 DEF FoundInv

LEMMA LookUpFound ==
  ASSUME IInv, ContentInv, HiddenInv, FoundInv, Stays, phase = "run", src = None,
         pc # "write", lastDel' = lastDel,
         NEW k \in Keys,
         cache' = IF Find(k) = None THEN cache ELSE [cache EXCEPT ![k] = Find(k)]
  PROVE  FoundInv'
<1>1. TypeOK /\ src \notin Live
  BY Kinds DEF IInv
<1>2. \A j \in Keys : cache'[j] = cache[j] \/ (j = k /\ Find(k) # None /\ cache'[j] = Find(k))
  BY <1>1 DEF TypeOK
<1>3. Find(k) # None => Find(k) \in InForce /\ At(Find(k)).key = k
  BY FindForce
<1>4. ~lastDel
  BY <1>1, NotReplacing
<1>5. ASSUME NEW j \in Keys
      PROVE  \/ cache'[j] \in {cache[j], None}
             \/ cache'[j] \in InForce /\ At(cache'[j]).key = j
  BY <1>2, <1>3
<1> QED BY <1>4, <1>5, FoundRest

LEMMA KvCheckFound ==
  ASSUME IInv, FoundInv, KvCheck, Stays
  PROVE  FoundInv'
<1> DEFINE a == <<Head(scan.rest), scan.at>>
<1>1. /\ ~lastDel /\ ~lastDel' /\ TypeOK
      /\ \/ UNCHANGED cache
         \/ a \in InForce /\ cache' = [cache EXCEPT ![At(a).key] = a]
  BY KvCheckCases DEF FoundInv, IInv
<1> HIDE DEF a
<1>2. ASSUME NEW k \in Keys
      PROVE  \/ cache'[k] \in {cache[k], None}
             \/ cache'[k] \in InForce /\ At(cache'[k]).key = k
  BY <1>1 DEF TypeOK
<1> QED BY <1>1, <1>2, FoundRest

LEMMA MoveAllocFound ==
  ASSUME IInv, ShapeInv, ContentInv, ForceInv, FoundInv, MoveAlloc, Stays
  PROVE  FoundInv'
<1>1. pc = "movealloc" /\ oldest # None /\ UNCHANGED <<cache, lastDel, phase, gc>>
  BY ResumeMove DEF MoveAlloc
<1>2. CASE pc' = "status" /\ src' = src
  BY <1>1, <1>2, FoundOn DEF Creating
<1>3. CASE Alloc(gcRequest) # None /\ Copied(At(src).key)
  <2>1. ~lastDel
    BY <1>1, <1>3, CurrentForce DEF ForceInv, Copied, Current
  <2> QED BY <1>1, <2>1, FoundRest
<1>4. CASE Alloc(gcRequest) = None /\ gc.for = "none"
  <2>1. ~lastDel
    BY <1>1, <1>4 DEF FoundInv, IInv, PhaseInv, Moving
  <2> QED BY <1>1, <2>1, FoundRest
<1>5. gc.for # "none" => Alloc(gcRequest) # None
  BY <1>1, MoveRoom DEF ContentInv
<1>6. Alloc(gcRequest) # None /\ ~Copied(At(src).key) => pc' = "status" /\ src' = src
  BY <1>1 DEF MoveAlloc
<1> QED BY <1>2, <1>3, <1>4, <1>5, <1>6

LEMMA PreDeleteFound ==
  ASSUME IInv, ShapeInv, ContentInv, FoundInv, PreDelete
  PROVE  FoundInv'
<1>1. /\ pc = "predelete" /\ pc' = "predirty" /\ lastDel' = TRUE
      /\ UNCHANGED <<cache, src, phase, gc>>
      /\ phase # "kvcheck" \/ gc.for # "none"
  BY DEF PreDelete, frames, ShapeInv, AimInv
<1>2. /\ src \in Live /\ Hidden' = Hidden \cup {src} /\ InForce' = InForce \ {src}
      /\ \A b \in Addresses : b # src => flash'[b[1]].kv[b[2]] = At(b)
      /\ flash'[src[1]].kv[src[2]].key = At(src).key
  BY PreDeleteKinds DEF ContentInv
<1>3. ASSUME NEW k \in Keys, cache'[k] # None
      PROVE  Known(k, cache[k])'
  <2> DEFINE a == cache[k]
  <2>1. cache'[k] = a /\ a \in InForce /\ At(a).key = k /\ a \in Addresses
    BY <1>1, <1>3 DEF FoundInv, Known, Creating, InForce, Live
  <2>2. CASE a = src
    <3>1. At(src)'.key = k
      BY <1>1, <1>2, <2>1, <2>2 DEF At
    <3>2. src' \in Hidden'
      BY <1>1, <1>2
    <3>3. cache'[k] = src'
      BY <1>1, <2>1, <2>2
    <3> QED BY <1>1, <3>1, <3>2, <3>3 DEF Known
  <2>3. CASE a # src
    <3>1. a \in InForce' /\ flash'[a[1]].kv[a[2]].key = k
      BY <1>2, <2>1, <2>3
    <3>2. flash'[cache'[k][1]].kv[cache'[k][2]].key = k /\ cache'[k] \in InForce'
      BY <2>1, <3>1
    <3> QED BY <3>2 DEF Known, At
  <2> QED BY <2>2, <2>3
<1> QED BY <1>1, <1>2, <1>3 DEF FoundInv

LEMMA MarkDirtyFound ==
  ASSUME IInv, ContentInv, FoundInv, MarkDirty, Stays
  PROVE  FoundInv'
<1>1. /\ UNCHANGED <<cache, lastDel, phase, gc>>
      /\ \/ pc = "predirty" /\ UNCHANGED src /\ pc' \in {"movealloc", "status"}
         \/ pc = "dirty"
  BY DEF MarkDirty, ram
<1>2. CASE pc = "predirty" /\ UNCHANGED src /\ pc' \in {"movealloc", "status"}
  BY <1>1, <1>2, FoundOn DEF Creating
<1>3. CASE pc = "dirty"
  <2>1. src \notin Live
    BY <1>3 DEF ContentInv, StatusInv, IInv, SrcInv
  <2>2. ~lastDel
    BY <2>1, NotReplacing DEF IInv
  <2> QED BY <1>1, <2>2, FoundRest
<1> QED BY <1>1, <1>2, <1>3

LEMMA CommitFound ==
  ASSUME IInv, ContentInv, FoundInv, CommitWrite
  PROVE  FoundInv'
<1>1. /\ pc = "write" /\ Creating /\ UNCHANGED <<lastDel, src, phase, gc>>
      /\ cache' = [cache EXCEPT ![put.key] = Last]
      /\ cache \in [Keys -> SomeAddress \cup {None}]
      /\ pc' \in {"delete", "default", "endset"}
  BY DEF CommitWrite, Creating, IInv, TypeOK
<1>2. /\ Last \in Addresses /\ Last \notin Live /\ put.key \in Keys
      /\ Hidden' = Hidden /\ InForce' = InForce \cup {Last}
      /\ \A b \in Addresses : b # Last => flash'[b[1]].kv[b[2]] = At(b)
      /\ flash'[Last[1]].kv[Last[2]].key = put.key
  BY CommitKinds
<1>3. ASSUME NEW k \in Keys, cache'[k] # None
      PROVE  Known(k, cache[k])'
  <2> DEFINE a == cache'[k]
  <2>1. a \in InForce' /\ flash'[a[1]].kv[a[2]].key = k
    <3>1. CASE k = put.key
      BY <1>1, <1>2, <3>1
    <3>2. CASE k # put.key
      <4>1. a = cache[k] /\ Known(k, a)
        BY <1>1, <1>3, <3>2 DEF FoundInv
      <4>2. src # None => At(src).key = put.key
        BY <1>1 DEF ContentInv, KeyInv
      <4>3. a \in InForce /\ At(a).key = k
        BY <3>2, <4>1, <4>2, Kinds DEF Known, IInv, Hidden
      <4>4. a \in Addresses /\ a # Last
        BY <1>2, <4>3 DEF InForce, Live
      <4> HIDE DEF a
      <4> QED BY <1>2, <4>3, <4>4
    <3> QED BY <3>1, <3>2
  <2> QED BY <2>1 DEF Known, At
<1> QED BY <1>1, <1>2, <1>3 DEF FoundInv

LEMMA DeleteFound ==
  ASSUME IInv, FoundInv, Delete
  PROVE  FoundInv'
<1>1. /\ pc = "delete" /\ ~lastDel' /\ TypeOK
      /\ cache' = IF lastDel THEN cache ELSE [cache EXCEPT ![At(src).key] = None]
  BY DEF Delete, IInv
<1>2. /\ InForce' = InForce \ {src}
      /\ \A b \in Addresses : b # src => flash'[b[1]].kv[b[2]] = At(b)
  BY DeleteKinds
<1>3. ASSUME NEW k \in Keys, cache'[k] # None
      PROVE  Known(k, cache[k])'
  <2> DEFINE a == cache'[k]
  <2>1. a = cache[k] /\ a \in InForce /\ At(a).key = k /\ a \in Addresses
    BY <1>1, <1>3 DEF FoundInv, Known, Creating, InForce, Live, TypeOK
  <2>2. a # src
    <3>1. CASE lastDel
      BY <1>1, <2>1, <3>1, Kinds DEF FoundInv
    <3>2. CASE ~lastDel
      <4>1. k # At(src).key
        BY <1>1, <1>3, <3>2 DEF TypeOK
      <4> QED BY <2>1, <4>1
    <3> QED BY <3>1, <3>2
  <2> HIDE DEF a
  <2>3. a \in InForce' /\ flash'[a[1]].kv[a[2]].key = k
    BY <1>2, <2>1, <2>2
  <2> QED BY <2>3 DEF Known, At, a
<1> QED BY <1>1, <1>3 DEF FoundInv

------------------------------------------------------------------------------
(* The value that is stored, and the sectors with a header.                *)

LEMMA ValueRest ==
  ASSUME ValueInv, UNCHANGED <<phase, req>>, ~Creating',
         gc'.for # "none" \/ pc' \notin {"new", "find", "predelete", "predirty"},
         phase = "run" => (pc = "idle" <=> pc' = "idle"),
         phase = "default" /\ pc = "default" => pc' = "default"
  PROVE  ValueInv'
BY DEF ValueInv, Moving

LEMMA LostValue ==
  ASSUME Lost, phase' \in {"off", "halted"}, pc' \in {"off", "halted"}
  PROVE  ValueInv'
<1>1. req' = NoReq
  BY DEF Lost
<1> QED BY <1>1 DEF ValueInv, Creating

LEMMA FormatNextValue ==
  ASSUME IInv, ValueInv, FormatNext
  PROVE  ValueInv'
<1>1. /\ phase = "format" /\ UNCHANGED req /\ pc' \in {"erase", "default", "gccheck"}
      /\ phase' \in {"format", "default", "gccheck"} /\ (phase' = "default" => pc' = "default")
  BY DEF FormatNext, IInv, PhaseInv
<1>2. req = NoReq
  BY <1>1 DEF ValueInv
<1> QED BY <1>1, <1>2 DEF ValueInv, Creating

LEMMA DefaultNextValue ==
  ASSUME IInv, ValueInv, DefaultNext
  PROVE  ValueInv'
<1>1. pc = "default" /\ phase = "default"
  BY DEF DefaultNext, IInv, PhaseInv
<1>2. CASE missing = {}
  <2>1. phase' = "gccheck" /\ pc' = "gccheck" /\ req' = NoReq
    BY <1>2 DEF DefaultNext
  <2> QED BY <2>1 DEF ValueInv, Creating
<1>3. CASE missing # {}
  <2>1. PICK k \in missing : req' = [key |-> k, val |-> Default[k]]
                             /\ put' = ToCreate(k, Default[k])
    BY <1>3 DEF DefaultNext
  <2>2. k \in Keys /\ Default[k] \in Values
    BY Constant DEF IInv, TypeOK, Defaults
  <2>3. /\ req'.key = k /\ req'.val = Default[k] /\ phase' = "default" /\ pc' = "new"
        /\ put'.key = k /\ put'.val = Default[k]
    BY <1>1, <1>3, <2>1, <2>2, Created DEF DefaultNext
  <2> QED BY <2>3 DEF ValueInv, Creating, Asked
<1> QED BY <1>2, <1>3

LEMMA NewKvValue ==
  ASSUME IInv, ValueInv, NewKv
  PROVE  ValueInv'
<1>1. /\ pc = "new" /\ gc.for = "none" /\ phase \in {"default", "run"} /\ ~Moving
      /\ Asked
  BY DEF NewKv, IInv, PhaseInv, Moving, ValueInv
<1>2. CASE phase' = "halted"
  <2>1. pc' = "halted" /\ req' = NoReq
    BY <1>1, <1>2 DEF NewKv, Halt, Lost
  <2> QED BY <1>2, <2>1 DEF ValueInv, Creating
<1>3. CASE /\ put' = [put EXCEPT !.to = Alloc(gcRequest)] /\ UNCHANGED <<phase, req, gc>>
           /\ pc' = IF phase = "default" THEN "status" ELSE "find"
  <2>1. put'.key = put.key /\ put'.val = put.val
    BY <1>3, TypeParts DEF IInv, CallType
  <2> QED BY <1>1, <1>3, <2>1 DEF ValueInv, Creating, Asked, Moving
<1>4. CASE /\ UNCHANGED <<phase, req>> /\ pc' \in {"gc", "default", "full"}
           /\ phase = "default" => pc' # "full"
           /\ pc' = "default" => phase = "default"
  BY <1>1, <1>4, ValueRest DEF Creating
<1> QED BY <1>1, <1>2, <1>3, <1>4 DEF NewKv, Halt

LEMMA FindOldValue ==
  ASSUME IInv, ValueInv, FindOld
  PROVE  ValueInv'
<1>1. pc = "find" /\ gc.for = "none" /\ phase = "run" /\ ~Moving
  BY DEF FindOld, IInv, PhaseInv, Moving
<1>2. CASE phase' = "halted"
  <2>1. pc' = "halted" /\ req' = NoReq
    BY <1>1, <1>2 DEF FindOld, Halt, Lost
  <2> QED BY <1>2, <2>1 DEF ValueInv, Creating
<1>3. CASE /\ UNCHANGED <<phase, req, put, gc>>
           /\ pc' \in {"absent", "delete", "status", "predelete"}
           /\ pc' \in {"status", "predelete"} => req.val # None
  BY <1>1, <1>3 DEF ValueInv, Creating, Asked, Moving
<1> QED BY <1>2, <1>3 DEF FindOld, Halt

LEMMA GcDoneValue ==
  ASSUME IInv, ValueInv, GcDone
  PROVE  ValueInv'
<1>1. /\ pc = "gcnext" /\ gc.for \in {"new", "set", "gccheck", "kvcheck"}
      /\ pc' = GcReturn /\ gc' = NoGc /\ UNCHANGED <<phase, req>>
      /\ put' = IF gc.for = "new" THEN ToCreate(req.key, req.val) ELSE put
  BY DEF GcDone, IInv, PhaseInv, TypeOK
<1>2. CASE gc.for = "new"
  <2>1. pc' = "new" /\ phase \in {"default", "run"} /\ req.key \in Keys /\ req.val \in Values
    BY <1>1, <1>2 DEF GcReturn, IInv, PutInv, PhaseInv
  <2>2. put'.key = req.key /\ put'.val = req.val
    BY <1>1, <1>2, <2>1, Created
  <2> QED BY <1>1, <2>1, <2>2 DEF ValueInv, Creating, Asked
<1>3. CASE gc.for # "new"
  <2>1. pc' \in {"done", "gccheck", "kvstart"} /\ phase # "default"
    BY <1>1, <1>3 DEF GcReturn, IInv, PhaseInv
  <2> QED BY <1>1, <2>1, ValueRest DEF Creating
<1> QED BY <1>2, <1>3

LEMMA MoveAllocValue ==
  ASSUME IInv, ShapeInv, ValueInv, MoveAlloc
  PROVE  ValueInv'
<1>1. pc = "movealloc" /\ oldest # None /\ Moving
  BY ResumeMove DEF MoveAlloc, IInv, PhaseInv
<1>2. UNCHANGED <<phase, req, gc, flash>> /\ pc' \in {"gckv", "kvend", "delete", "status"}
  BY <1>1 DEF MoveAlloc
<1>3. CASE pc' # "status"
  BY <1>1, <1>2, <1>3, ValueRest DEF Creating
<1>4. CASE pc' = "status"
  <2>1. put'.val = At(src).val /\ src' = src
    BY <1>1, <1>4 DEF MoveAlloc
  <2>2. At(src)' = At(src)
    BY <1>2, <2>1 DEF At
  <2>3. Moving'
    BY <1>1, <1>2 DEF Moving
  <2> QED BY <1>1, <1>2, <1>4, <2>1, <2>2, <2>3 DEF ValueInv
<1> QED BY <1>3, <1>4

LEMMA CallValue ==
  ASSUME IInv, ValueInv, NEW k \in Keys, NEW v \in Values \cup {None}, Call(k, v)
  PROVE  ValueInv'
<1>1. /\ phase = "run" /\ gc.for = "none" /\ UNCHANGED <<phase, gc>>
      /\ req' = [key |-> k, val |-> v]
      /\ IF v = None THEN pc' = "find" ELSE pc' = "new" /\ put' = ToCreate(k, v)
  BY DEF Call, IInv, PhaseInv
<1>2. req'.key = k /\ req'.val = v
  BY <1>1
<1>3. v # None => put'.key = k /\ put'.val = v
  BY <1>1, Created
<1> QED BY <1>1, <1>2, <1>3 DEF ValueInv, Creating, Asked

LEMMA GetValue ==
  ASSUME IInv, ValueInv, NEW k \in Keys, Get(k)
  PROVE  ValueInv'
<1>1. pc = "idle" /\ phase = "run"
  BY DEF Get, IInv, PhaseInv
<1>2. CASE Halt
  BY <1>2, LostValue DEF Halt
<1>3. CASE UNCHANGED <<phase, pc, req>>
  BY <1>1, <1>3, ValueRest DEF Creating
<1> QED BY <1>2, <1>3 DEF Get, frames

LEMMA CheckValue ==
  ASSUME IInv, ValueInv, GcCheck \/ KvStart \/ KvCheck \/ KvEnd
  PROVE  ValueInv'
<1>1. /\ phase \in {"gccheck", "kvcheck"}
      /\ pc \in {"gccheck", "kvstart", "kvcheck", "kvend"}
  BY DEF GcCheck, KvStart, KvCheck, KvEnd, IInv, PhaseInv
<1>2. req = NoReq
  BY <1>1 DEF ValueInv
<1>3. \/ Halt
      \/ /\ UNCHANGED req /\ pc' \in {"gccheck", "kvstart", "gc", "kvcheck", "movealloc",
                                      "kvend", "idle"}
         /\ phase' \in {"gccheck", "kvcheck", "run"} /\ (phase' = "run" => pc' = "idle")
  <2>1. CASE GcCheck
    BY <1>1, <2>1 DEF GcCheck
  <2>2. CASE KvStart
    BY <1>1, <2>2 DEF KvStart
  <2>3. CASE KvCheck
    BY <1>1, <2>3, KvCheckCases
  <2>4. CASE KvEnd
    BY <1>1, <2>4 DEF KvEnd
  <2> QED BY <2>1, <2>2, <2>3, <2>4
<1>4. CASE Halt
  BY <1>4, LostValue DEF Halt
<1> QED BY <1>2, <1>3, <1>4 DEF ValueInv, Creating

LEMMA GcValue ==
  ASSUME IInv, ValueInv, GcStart \/ GcSector \/ GcRecord
  PROVE  ValueInv'
<1>1. pc \in {"gc", "gcnext", "gckv"} /\ gc.for # "none"
  BY DEF GcStart, GcSector, GcRecord, IInv, PhaseInv
<1>2. \/ Halt
      \/ /\ UNCHANGED <<phase, req>> /\ gc'.for # "none"
         /\ pc' \in {"gcnext", "gckv", "erase", "predelete", "movealloc"}
  <2>1. CASE GcStart
    <3>1. ~Halt => gc'.for = gc.for /\ pc' = "gcnext" /\ UNCHANGED <<phase, req>>
      BY <2>1 DEF GcStart, IInv, TypeOK
    <3> QED BY <1>1, <3>1
  <2>2. CASE GcSector
    <3>1. gc'.for = gc.for
      BY <2>2, GcSectorEffect
    <3> QED BY <1>1, <2>2, <3>1 DEF GcSector
  <2>3. CASE GcRecord
    BY <1>1, <2>3, GcRecordTaken
  <2> QED BY <2>1, <2>2, <2>3
<1>3. CASE Halt
  BY <1>3, LostValue DEF Halt
<1> QED BY <1>1, <1>2, <1>3, ValueRest DEF Creating

LEMMA ReturnValue ==
  ASSUME IInv, ValueInv, Return \/ EndSet
  PROVE  ValueInv'
<1>1. phase = "run" /\ UNCHANGED phase /\ pc # "idle"
  BY DEF Return, EndSet, IInv, PhaseInv
<1>2. CASE Return
  BY <1>1, <1>2 DEF Return, ValueInv, Creating
<1>3. CASE EndSet
  <2>1. pc' \in {"gc", "done"} /\ UNCHANGED req
    BY <1>3 DEF EndSet
  <2> QED BY <1>1, <2>1, ValueRest DEF Creating
<1> QED BY <1>2, <1>3

LEMMA FormatValue ==
  ASSUME IInv, ValueInv, Erase \/ WriteHeader
  PROVE  ValueInv'
<1>1. /\ UNCHANGED <<phase, req>> /\ pc \in {"erase", "header"}
      /\ pc' \in {"header", "formatnext", "gcnext"}
  BY DEF Erase, WriteHeader, frames
<1> QED BY <1>1, ValueRest DEF Creating

LEMMA PowerOnValue ==
  ASSUME IInv, ValueInv, PowerOn
  PROVE  ValueInv'
<1>1. phase = "off" /\ phase' = "format" /\ pc' = "formatnext" /\ UNCHANGED req
  BY DEF PowerOn
<1> QED BY <1>1 DEF ValueInv, Creating

LEMMA CreateValue ==
  ASSUME IInv, ContentInv, ValueInv, UpdateSecStatus \/ PreWrite \/ WriteData, Stays
  PROVE  ValueInv'
<1>1. /\ Creating /\ Creating' /\ UNCHANGED <<phase, req, src, gc>>
      /\ put'.key = put.key /\ put'.val = put.val
  BY CreateStep
<1>2. Moving' <=> Moving
  BY <1>1 DEF Moving
<1>3. Moving => At(src)' = At(src)
  <2>1. Moving => src # None
    BY <1>1 DEF IInv, SrcInv, Creating
  <2>2. Moving => src \in Live
    BY <1>1, <2>1 DEF ContentInv, StatusInv, Creating
  <2> QED BY <1>1, <2>2 DEF Stays, At
<1> QED BY <1>1, <1>2, <1>3 DEF ValueInv, Creating, Asked

LEMMA CommitValue ==
  ASSUME IInv, ValueInv, CommitWrite
  PROVE  ValueInv'
<1>1. /\ UNCHANGED <<phase, req>> /\ pc' \in {"delete", "default", "endset"}
      /\ pc = "write" /\ (phase = "default" => pc' = "default" \/ pc # "default")
  BY DEF CommitWrite
<1> QED BY <1>1, ValueRest DEF Creating

LEMMA PreDeleteValue ==
  ASSUME IInv, ValueInv, PreDelete
  PROVE  ValueInv'
<1>1. /\ UNCHANGED <<phase, req, put, gc>> /\ pc' = "predirty" /\ pc = "predelete"
  BY DEF PreDelete, frames
<1> QED BY <1>1 DEF ValueInv, Creating, Asked, Moving

LEMMA DeleteValue ==
  ASSUME IInv, ValueInv, Delete
  PROVE  ValueInv'
<1>1. UNCHANGED <<phase, req>> /\ pc' = "dirty" /\ pc = "delete"
  BY DEF Delete, frames
<1> QED BY <1>1, ValueRest DEF Creating

LEMMA MarkDirtyValue ==
  ASSUME IInv, ValueInv, MarkDirty
  PROVE  ValueInv'
<1>1. /\ UNCHANGED <<phase, req, put, gc>> /\ pc \in {"predirty", "dirty"}
      /\ pc' \in {"movealloc", "status", "gckv", "kvcheck", "done", "endset"}
  BY DEF MarkDirty
<1>2. CASE pc' # "status"
  BY <1>1, <1>2, ValueRest DEF Creating
<1>3. CASE pc' = "status"
  <2>1. pc = "predirty" /\ ~Moving /\ req.val # None
    BY <1>1, <1>3 DEF MarkDirty, IInv, PutInv
  <2> QED BY <1>1, <1>3, <2>1 DEF ValueInv, Creating, Asked, Moving
<1> QED BY <1>2, <1>3

LEMMA LifeStays ==
  ASSUME LifeInv, \A s \in Sectors : flash'[s].ok = flash[s].ok, UNCHANGED todo,
         phase' \in {"default", "gccheck", "kvcheck", "run", "halted"} =>
            phase \in {"default", "gccheck", "kvcheck", "run", "halted"},
         phase' = "format" => phase = "format"
  PROVE  LifeInv'
<1>1. \A s \in Sectors : flash[s].ok => flash'[s].ok
  OBVIOUS
<1>2. todo' # << >> /\ phase' = "format" => Head(todo) \in Sectors /\ 1 - Head(todo) \in Sectors
  BY DEF LifeInv, Sectors
<1> QED BY <1>1, <1>2 DEF LifeInv

LEMMA PowerOffLife == PowerOff => LifeInv'
BY DEF PowerOff, LifeInv

LEMMA HaltLife ==
  ASSUME ShapeInv, oldest = None, Halt, UNCHANGED flash
  PROVE  LifeInv'
<1>1. \E s \in Sectors : flash[s].ok
  BY DEF ShapeInv, MarkedInv, Sectors
<1> QED BY <1>1 DEF Halt, LifeInv

LEMMA QuietLife ==
  ASSUME IInv, ShapeInv, LifeInv, Quiet, UNCHANGED flash
  PROVE  LifeInv'
<1> DEFINE after == {"default", "gccheck", "kvcheck", "run", "halted"}
<1>1. CASE oldest = None /\ Halt
  BY <1>1, HaltLife
<1>2. CASE UNCHANGED todo /\ phase \in after /\ phase' # "format"
  BY <1>2, LifeStays
<1>3. CASE FormatNext
  <2>1. phase = "format" /\ UNCHANGED todo
    BY <1>3 DEF FormatNext, IInv, PhaseInv
  <2>2. CASE todo # << >>
    <3>1. phase' = phase
      BY <1>3, <2>2 DEF FormatNext
    <3> QED BY <2>1, <3>1, LifeStays
  <2>3. CASE todo = << >>
    <3>1. phase' \in {"default", "gccheck"}
      BY <1>3, <2>3 DEF FormatNext
    <3>2. 0 \in Sectors /\ ~In(0, todo)
      BY <2>3, InFacts DEF Sectors
    <3>3. flash[0].ok
      BY <2>1, <3>2 DEF ShapeInv, FormatInv
    <3> QED BY <3>1, <3>2, <3>3 DEF LifeInv
  <2> QED BY <2>2, <2>3
<1>4. CASE DefaultNext
  <2>1. pc = "default" /\ phase = "default"
    BY <1>4 DEF DefaultNext, IInv, PhaseInv
  <2>2. UNCHANGED todo /\ phase' # "format"
    BY <1>4, <2>1 DEF DefaultNext
  <2> QED BY <1>2, <2>1, <2>2
<1>5. CASE NewKv \/ FindOld
  <2>1. pc \in {"new", "find"} /\ phase \in {"default", "run"}
    BY <1>5 DEF NewKv, FindOld, IInv, PhaseInv
  <2>2. (oldest = None /\ Halt) \/ (UNCHANGED todo /\ UNCHANGED phase)
    BY <1>5 DEF NewKv, FindOld, loading
  <2> QED BY <1>1, <1>2, <2>1, <2>2
<1>6. CASE Return \/ EndSet
  <2>1. phase = "run" /\ UNCHANGED <<phase, todo>>
    BY <1>6 DEF Return, EndSet, loading, IInv, PhaseInv
  <2> QED BY <1>2, <2>1
<1>7. CASE GcStart \/ GcRecord \/ GcDone \/ MoveAlloc
  <2>1. phase \in after
    <3>1. gc.for # "none" \/ pc = "movealloc"
      BY <1>7 DEF GcStart, GcRecord, GcDone, MoveAlloc, IInv, PhaseInv
    <3> QED BY <3>1, PhaseOfSteps
  <2>2. (oldest = None /\ Halt) \/ (UNCHANGED todo /\ UNCHANGED phase)
    BY <1>7 DEF GcStart, GcRecord, GcDone, MoveAlloc, loading
  <2> QED BY <1>1, <1>2, <2>1, <2>2
<1>8. CASE GcCheck \/ KvStart
  <2>1. phase \in {"gccheck", "kvcheck"}
    BY <1>8 DEF GcCheck, KvStart, IInv, PhaseInv
  <2>2. (oldest = None /\ Halt) \/ (UNCHANGED todo /\ phase' \in {"gccheck", "kvcheck"})
    BY <1>8, <2>1 DEF GcCheck, KvStart
  <2> QED BY <1>1, <1>2, <2>1, <2>2
<1>9. ASSUME NEW k \in Keys, Get(k)
      PROVE  LifeInv'
  <2>1. phase = "run" /\ ((oldest = None /\ Halt) \/ UNCHANGED <<todo, phase>>)
    BY <1>9 DEF Get, frames, loading, IInv, PhaseInv
  <2> QED BY <1>1, <1>2, <2>1
<1>10. ASSUME NEW k \in Keys, NEW v \in Values \cup {None}, Call(k, v)
       PROVE  LifeInv'
  <2>1. phase = "run" /\ UNCHANGED <<todo, phase>>
    BY <1>10 DEF Call, loading, IInv, PhaseInv
  <2> QED BY <1>2, <2>1
<1> QED BY <1>3, <1>4, <1>5, <1>6, <1>7, <1>8, <1>9, <1>10 DEF Quiet

LEMMA EraseLife ==
  ASSUME IInv, ShapeInv, LifeInv, Erase
  PROVE  LifeInv'
<1>1. /\ pc = "erase" /\ UNCHANGED <<phase, todo>> /\ Doomed \in Sectors
      /\ \A s \in Sectors : s # Doomed => flash'[s] = flash[s]
      /\ flash'[Doomed] = Erased /\ ~Erased.ok
  BY FormatEffect DEF Erase, frames, loading, Erased
<1>2. CASE phase = "format"
  <2>1. /\ Doomed = Head(todo) /\ todo # << >>
        /\ 1 - Doomed \in Sectors /\ 1 - Doomed # Doomed
        /\ \A s \in Sectors : s = Doomed \/ s = 1 - Doomed
    BY <1>1, <1>2, Other DEF Doomed, IInv, GcInv
  <2>2. \/ flash'[1 - Head(todo)].ok
        \/ \A s \in Sectors : ~flash'[s].ok
    BY <1>1, <1>2, <2>1 DEF LifeInv
  <2> QED BY <1>1, <1>2, <2>2 DEF LifeInv
<1>3. CASE phase # "format"
  <2>1. Doomed = gc.sec /\ phase \in {"gccheck", "kvcheck", "run"}
    BY <1>1, <1>3, DoomedShape
  <2>2. 1 - Doomed \in Sectors /\ 1 - Doomed # Doomed
    BY <1>1, Other
  <2>3. flash'[1 - Doomed].ok
    BY <1>1, <2>1, <2>2 DEF ShapeInv, FormatInv
  <2> QED BY <1>1, <1>3, <2>2, <2>3 DEF LifeInv
<1> QED BY <1>2, <1>3

LEMMA WriteHeaderLife ==
  ASSUME IInv, ShapeInv, LifeInv, WriteHeader
  PROVE  LifeInv'
<1>1. /\ pc = "header" /\ UNCHANGED phase /\ Doomed \in Sectors
      /\ flash'[Doomed] = Formatted /\ Formatted.ok
      /\ IF phase = "format" THEN todo' = Tail(todo) ELSE UNCHANGED todo
  BY FormatEffect DEF WriteHeader, Formatted
<1>2. CASE phase = "format"
  <2>1. /\ Doomed = Head(todo) /\ todo # << >> /\ todo' = Tail(todo)
        /\ todo \in {<<0, 1, 0, 1>>, <<1, 0, 1>>, <<0, 1>>, <<1>>, <<0>>}
    BY <1>1, <1>2 DEF Doomed, IInv, GcInv, LifeInv
  <2>2. \/ todo' = << >>
        \/ /\ todo' \in {<<1, 0, 1>>, <<0, 1>>, <<1>>}
           /\ 1 - Head(todo') = Doomed
    <3>1. CASE todo = <<0, 1, 0, 1>>
      BY <2>1, <3>1
    <3>2. CASE todo = <<1, 0, 1>>
      BY <2>1, <3>2
    <3>3. CASE todo = <<0, 1>>
      BY <2>1, <3>3
    <3>4. CASE todo = <<1>> \/ todo = <<0>>
      BY <2>1, <3>4
    <3> QED BY <2>1, <3>1, <3>2, <3>3, <3>4
  <2> QED BY <1>1, <1>2, <2>2 DEF LifeInv
<1>3. CASE phase # "format"
  BY <1>1, <1>3 DEF LifeInv
<1> QED BY <1>2, <1>3

LEMMA PowerOnLife ==
  ASSUME IInv, PowerOn
  PROVE  LifeInv'
<1> DEFINE bad == {s \in Sectors : ~flash[s].ok}
<1>1. /\ phase' = "format"
      /\ todo' = IF bad = Sectors THEN <<0, 1, 0, 1>>
                 ELSE IF bad = {} THEN << >> ELSE <<CHOOSE s \in bad : TRUE>>
      /\ \A s \in Sectors : flash'[s].ok = flash[s].ok
  <2>1. flash' = [s \in Sectors |-> Reread(flash[s])] /\ TypeOK
    BY DEF PowerOn, IInv
  <2>2. \A s \in Sectors : flash'[s].ok = flash[s].ok
    BY <2>1, RereadEffect
  <2> QED BY <2>2 DEF PowerOn
<1>2. CASE bad = Sectors
  <2>1. \A s \in Sectors : ~flash'[s].ok
    BY <1>1, <1>2
  <2> QED BY <1>1, <1>2, <2>1 DEF LifeInv
<1>3. CASE bad = {}
  BY <1>1, <1>3 DEF LifeInv
<1>4. CASE bad # Sectors /\ bad # {}
  <2> DEFINE x == CHOOSE s \in bad : TRUE
  <2>1. x \in bad
    BY <1>4
  <2> HIDE DEF x
  <2>2. x \in Sectors /\ ~flash[x].ok /\ 1 - x \in Sectors /\ x \in {0, 1}
    BY <2>1, Other DEF Sectors
  <2>3. \A s \in Sectors : s = x \/ s = 1 - x
    BY <2>2, Other
  <2>4. flash[1 - x].ok
    BY <1>4, <2>2, <2>3
  <2>5. todo' = <<x>>
    BY <1>1, <1>4 DEF x
  <2>6. Head(todo') = x
    BY <2>5
  <2>7. todo' \in {<<0>>, <<1>>}
    BY <2>2, <2>5
  <2> QED BY <1>1, <2>2, <2>4, <2>6, <2>7 DEF LifeInv
<1> QED BY <1>2, <1>3, <1>4

------------------------------------------------------------------------------
(* The invariant holds in every behaviour with at most two cuts.           *)

LEMMA QuietMap ==
  ASSUME IInv, RoomInv, MapInv, Quiet
  PROVE  MapInv'
<1> USE DEF RoomInv, MapInv
<1>1. /\ PlaceInv' /\ Stays /\ UNCHANGED <<flash, cuts>>
      /\ Leftover' = Leftover /\ InForce' = InForce /\ Hidden' = Hidden
  BY QuietStepPlace
<1>2. LifeInv'
  BY <1>1, QuietLife
<1>3. /\ pc # "movealloc" => src \notin Live
      /\ HiddenInv /\ TypeOK /\ None \notin Live
  BY QuietStep, Kinds DEF PlaceInv, IInv
<1>4. pc # "movealloc" => ~lastDel
  BY <1>3, NotReplacing
<1>5. CASE FormatNext \/ DefaultNext \/ Return \/ EndSet \/ GcStart \/ GcDone \/ GcCheck
           \/ KvStart \/ (\E k \in Keys, v \in Values \cup {None} : Call(k, v))
  <2>1. pc \in {"formatnext", "default", "done", "absent", "full", "endset", "gc", "gcnext",
                "gccheck", "kvstart", "idle"}
    BY <1>5 DEF FormatNext, DefaultNext, Return, EndSet, GcStart, GcDone, GcCheck, KvStart,
                Call
  <2>2. /\ pc' \in {"erase", "default", "gccheck", "new", "idle", "gc", "done", "gcnext",
                    "kvstart", "kvcheck", "find", "halted"}
        /\ (Lost \/ UNCHANGED <<lastDel, cache>>)
    <3>1. CASE FormatNext \/ DefaultNext
      BY <3>1 DEF FormatNext, DefaultNext
    <3>2. CASE Return \/ EndSet \/ GcStart
      BY <3>2 DEF Return, EndSet, GcStart, Halt, ram
    <3>3. CASE GcDone
      <4>1. gc.for \in {"new", "set", "gccheck", "kvcheck"}
        BY <3>3 DEF GcDone, IInv, PhaseInv, TypeOK
      <4> QED BY <3>3, <4>1 DEF GcDone, GcReturn
    <3>4. CASE GcCheck \/ KvStart
      BY <3>4 DEF GcCheck, KvStart, Halt, ram
    <3>5. ASSUME NEW k \in Keys, NEW v \in Values \cup {None}, Call(k, v)
          PROVE  pc' \in {"find", "new"} /\ UNCHANGED <<lastDel, cache>>
      BY <3>5 DEF Call, ram
    <3> QED BY <1>5, <3>1, <3>2, <3>3, <3>4, <3>5
  <2>3. ForceInv'
    BY <1>1, <2>2, ForceRest DEF Creating
  <2>4. FoundInv'
    BY <1>1, <1>4, <2>1, <2>2, FoundRest, LostFound
  <2>5. ScanInv'
    <3>1. CASE KvStart
      BY <1>1, <3>1, KvStartScan
    <3>2. CASE ~KvStart
      <4>1. gc'.for # "none" \/ phase' # "kvcheck" \/ pc' = "kvstart"
        <5>1. CASE FormatNext \/ DefaultNext
          <6>1. phase \in {"format", "default"}
            BY <5>1 DEF FormatNext, DefaultNext, IInv, PhaseInv
          <6> QED BY <5>1, <6>1 DEF FormatNext, DefaultNext
        <5>2. CASE Return \/ EndSet
          BY <5>2 DEF Return, EndSet, IInv, PhaseInv
        <5>3. CASE GcStart
          <6>1. gc.for # "none"
            BY <5>3 DEF GcStart, IInv, PhaseInv
          <6>2. phase' = "halted" \/ gc'.for = gc.for
            BY <1>3, <5>3 DEF GcStart, Halt, TypeOK
          <6> QED BY <6>1, <6>2
        <5>4. CASE GcDone
          <6>1. gc.for # "none"
            BY <5>4 DEF GcDone, IInv, PhaseInv
          <6>2. gc.for \in {"new", "set", "gccheck"} => phase # "kvcheck"
            BY DEF IInv, PhaseInv
          <6>3. gc.for = "kvcheck" => pc' = "kvstart"
            BY <5>4 DEF GcDone, GcReturn
          <6> QED BY <1>3, <5>4, <6>1, <6>2, <6>3 DEF GcDone, TypeOK
        <5>5. CASE GcCheck
          BY <5>5 DEF GcCheck, IInv, PhaseInv
        <5>6. ASSUME NEW k \in Keys, NEW v \in Values \cup {None}, Call(k, v)
              PROVE  phase' # "kvcheck"
          BY <5>6 DEF Call, IInv, PhaseInv
        <5> QED BY <1>5, <3>2, <5>1, <5>2, <5>3, <5>4, <5>5, <5>6
      <4> QED BY <4>1 DEF ScanInv
    <3> QED BY <3>1, <3>2
  <2>6. ValueInv'
    BY <1>5, FormatNextValue, DefaultNextValue, ReturnValue, GcValue, GcDoneValue,
       CheckValue, CallValue
  <2> QED BY <1>1, <1>2, <2>3, <2>4, <2>5, <2>6
<1>6. CASE NewKv
  <2>1. ForceInv' /\ ValueInv'
    BY <1>1, <1>6, NewKvForce, NewKvValue
  <2>2. pc = "new" /\ (Lost \/ UNCHANGED <<lastDel, cache>>)
    BY <1>6 DEF NewKv, Halt, ram
  <2>3. FoundInv'
    BY <1>1, <1>4, <2>2, FoundRest, LostFound
  <2>4. ScanInv'
    <3>1. phase \in {"default", "run"} /\ phase' \in {phase, "halted"}
      BY <1>6 DEF NewKv, Halt, IInv, PhaseInv
    <3> QED BY <3>1 DEF ScanInv
  <2> QED BY <1>1, <1>2, <2>1, <2>3, <2>4
<1>7. CASE FindOld
  <2>1. ForceInv' /\ ValueInv'
    BY <1>1, <1>7, FindOldForce, FindOldValue
  <2>2. pc = "find" /\ phase = "run" /\ src = None /\ req.key \in Keys
    BY <1>7 DEF FindOld, IInv, PhaseInv, SrcInv, PutInv
  <2>3. FoundInv'
    <3>1. Lost \/ (/\ lastDel' = lastDel
                   /\ cache' = IF Find(req.key) = None THEN cache
                               ELSE [cache EXCEPT ![req.key] = Find(req.key)])
      BY <1>7 DEF FindOld, Halt
    <3> QED BY <1>1, <1>3, <2>2, <3>1, LookUpFound, LostFound
  <2>4. ScanInv'
    BY <1>7, <2>2 DEF FindOld, Halt, ScanInv
  <2> QED BY <1>1, <1>2, <2>1, <2>3, <2>4
<1>8. CASE GcRecord
  <2>1. ForceInv' /\ ValueInv'
    BY <1>1, <1>8, GcRecordForce, GcValue
  <2>2. /\ pc = "gckv" /\ UNCHANGED <<lastDel, cache>> /\ gc'.for # "none"
    BY <1>8, GcRecordTaken
  <2>3. FoundInv' /\ ScanInv'
    BY <1>1, <1>4, <2>2, FoundRest DEF ScanInv
  <2> QED BY <1>1, <1>2, <2>1, <2>3
<1>9. CASE MoveAlloc
  BY <1>1, <1>2, <1>9, MoveAllocForce, MoveAllocFound, MoveAllocScan, MoveAllocValue
<1>10. ASSUME NEW k \in Keys, Get(k)
       PROVE  MapInv'
  <2>1. pc = "idle" /\ phase = "run" /\ src = None
    BY <1>10 DEF Get, IInv, PhaseInv, SrcInv
  <2>2. ForceInv'
    <3>1. pc' \in {"idle", "halted"}
      BY <1>10, <2>1 DEF Get, Halt
    <3> QED BY <1>1, <3>1, ForceRest DEF Creating
  <2>3. FoundInv'
    <3>1. Lost \/ (/\ lastDel' = lastDel
                   /\ cache' = IF Find(k) = None THEN cache
                               ELSE [cache EXCEPT ![k] = Find(k)])
      BY <1>10 DEF Get, Halt
    <3> QED BY <1>1, <1>3, <2>1, <3>1, LookUpFound, LostFound
  <2>4. ScanInv'
    BY <1>10, <2>1 DEF Get, Halt, ScanInv
  <2> QED BY <1>1, <1>2, <1>10, <2>2, <2>3, <2>4, GetValue
<1> QED BY <1>5, <1>6, <1>7, <1>8, <1>9, <1>10 DEF Quiet

LEMMA FormatMap ==
  ASSUME IInv, RoomInv, MapInv, Erase \/ WriteHeader
  PROVE  MapInv'
<1> USE DEF RoomInv, MapInv
<1>1. PlaceInv' /\ Stays /\ ValueInv'
  BY FormatPlace, FormatValue
<1>2. LifeInv'
  BY EraseLife, WriteHeaderLife
<1>3. /\ pc \in {"erase", "header"} /\ pc' \in {"header", "formatnext", "gcnext"}
      /\ UNCHANGED <<phase, lastDel, cache>> /\ (pc' # "formatnext" => gc'.for = gc.for)
      /\ phase = "format" \/ gc.for # "none"
  <2>1. CASE Erase
    BY <2>1 DEF Erase, ram, frames, IInv, GcInv
  <2>2. CASE WriteHeader
    <3>1. phase # "format" => gc'.for = gc.for
      BY <2>2 DEF WriteHeader, IInv, TypeOK
    <3>2. phase = "format" => gc'.for = gc.for
      BY <2>2 DEF WriteHeader
    <3> QED BY <2>2, <3>1, <3>2 DEF WriteHeader, IInv, GcInv
  <2> QED BY <2>1, <2>2
<1>4. ForceInv'
  BY <1>1, <1>3, ForceRest DEF Creating
<1>5. ~lastDel
  <2>1. src \notin Live
    BY <1>3, Kinds DEF IInv, SrcInv
  <2> QED BY <2>1, NotReplacing DEF IInv
<1>6. FoundInv'
  BY <1>1, <1>3, <1>5, FoundRest
<1>7. ScanInv'
  <2>1. pc' = "formatnext" => phase = "format"
    BY DEF Erase, WriteHeader
  <2> QED BY <1>3, <2>1 DEF ScanInv
<1> QED BY <1>1, <1>2, <1>4, <1>6, <1>7

LEMMA CreateMap ==
  ASSUME IInv, RoomInv, MapInv, UpdateSecStatus \/ PreWrite \/ WriteData
  PROVE  MapInv'
<1> USE DEF RoomInv, MapInv
<1>1. PlaceInv' /\ Stays /\ Leftover' \subseteq Leftover
  BY UpdateSecStatusPlace, PreWritePlace, WriteDataPlace
<1>2. /\ Creating /\ Creating' /\ UNCHANGED <<phase, oldest, lastDel, cache, src, gc, scan>>
  BY CreateStep
<1>3. ForceInv' /\ ValueInv'
  BY <1>1, CreateForce, CreateValue DEF ContentInv
<1>4. FoundInv'
  BY <1>1, <1>2, FoundOn
<1>5. ScanInv'
  BY <1>1, <1>2, KindsStay, ScanStays DEF Creating
<1>6. LifeInv'
  <2>1. UNCHANGED todo
    BY DEF UpdateSecStatus, PreWrite, WriteData, loading, frames
  <2>2. \A s \in Sectors : flash'[s].ok = flash[s].ok
    <3>1. CASE UpdateSecStatus \/ PreWrite
      BY <3>1, UpdateSecStatusEffect, PreWriteEffect
    <3>2. CASE WriteData
      <4>1. PICK r \in Whole : flash' = Mark(Last, r)
        BY <3>2, WriteDataEffect
      <4>2. r \in Record /\ Last \in Addresses
        BY <3>2, WriteDataEffect DEF Record
      <4> QED BY <4>1, <4>2, MarkFacts DEF IInv
    <3> QED BY <3>1, <3>2
  <2> QED BY <1>2, <2>1, <2>2, LifeStays
<1> QED BY <1>1, <1>3, <1>4, <1>5, <1>6

LEMMA CommitMap ==
  ASSUME IInv, RoomInv, MapInv, CommitWrite
  PROVE  MapInv'
<1> USE DEF RoomInv, MapInv
<1>1. PlaceInv' /\ Leftover' \subseteq Leftover /\ Hidden' = Hidden
      /\ \A s \in Sectors : flash'[s].ok = flash[s].ok
  BY CommitPlace, CommitKinds
<1>2. ForceInv' /\ FoundInv' /\ ValueInv'
  BY CommitForce, CommitFound, CommitValue
<1>3. /\ pc = "write" /\ pc' \in {"delete", "default", "endset"}
      /\ UNCHANGED <<phase, oldest, src, gc, scan, todo>>
  BY DEF CommitWrite, loading
<1>4. ScanInv'
  BY <1>1, <1>3, ScanStays
<1>5. LifeInv'
  BY <1>1, <1>3, LifeStays
<1> QED BY <1>1, <1>2, <1>4, <1>5

LEMMA PreDeleteMap ==
  ASSUME IInv, RoomInv, MapInv, PreDelete
  PROVE  MapInv'
<1> USE DEF RoomInv, MapInv
<1>1. PlaceInv' /\ \A s \in Sectors : flash'[s].ok = flash[s].ok
  BY PreDeletePlace, PreDeleteKinds DEF ContentInv
<1>2. ForceInv' /\ FoundInv' /\ ValueInv'
  BY PreDeleteForce, PreDeleteFound, PreDeleteValue
<1>3. /\ pc = "predelete" /\ UNCHANGED <<phase, gc, todo>>
      /\ phase # "kvcheck" \/ gc.for # "none"
  BY DEF PreDelete, frames, loading, ShapeInv, AimInv
<1>4. ScanInv'
  BY <1>3 DEF ScanInv
<1>5. LifeInv'
  BY <1>1, <1>3, LifeStays
<1> QED BY <1>1, <1>2, <1>4, <1>5

LEMMA DeleteMap ==
  ASSUME IInv, RoomInv, MapInv, Delete
  PROVE  MapInv'
<1> USE DEF RoomInv, MapInv
<1>1. /\ PlaceInv' /\ Leftover' \subseteq Leftover /\ Hidden' \subseteq Hidden
      /\ \A s \in Sectors : flash'[s].ok = flash[s].ok
  BY DeletePlace, DeleteKinds
<1>2. ForceInv' /\ FoundInv' /\ ValueInv'
  BY DeleteForce, DeleteFound, DeleteValue
<1>3. pc = "delete" /\ pc' = "dirty" /\ UNCHANGED <<phase, oldest, src, gc, scan, todo>>
  BY DEF Delete, frames, loading
<1>4. ScanInv'
  BY <1>1, <1>3, ScanStays
<1>5. LifeInv'
  BY <1>1, <1>3, LifeStays
<1> QED BY <1>1, <1>2, <1>4, <1>5

LEMMA MarkDirtyMap ==
  ASSUME IInv, RoomInv, MapInv, MarkDirty
  PROVE  MapInv'
<1> USE DEF RoomInv, MapInv
<1>1. /\ PlaceInv' /\ Stays /\ Leftover' \subseteq Leftover
      /\ \A s \in Sectors : flash'[s].ok = flash[s].ok
  BY MarkDirtyPlace, MarkDirtyEffect DEF ContentInv
<1>2. ForceInv' /\ FoundInv' /\ ValueInv'
  BY <1>1, MarkDirtyForce, MarkDirtyFound, MarkDirtyValue
<1>3. /\ pc \in {"predirty", "dirty"} /\ UNCHANGED <<phase, oldest, gc, scan, todo>>
      /\ pc' \in {"movealloc", "status", "gckv", "kvcheck", "done", "endset"}
      /\ src' = src \/ src \notin Live
  BY DEF MarkDirty, ram, loading, ContentInv, StatusInv, IInv, SrcInv
<1>4. ScanInv'
  <2>1. Hidden' = Hidden /\ \A h \in Hidden : h = src => h = src'
    BY <1>1, <1>3, KindsStay DEF Hidden
  <2> QED BY <1>1, <1>3, <2>1, ScanStays
<1>5. LifeInv'
  BY <1>1, <1>3, LifeStays
<1> QED BY <1>1, <1>2, <1>4, <1>5

LEMMA GcSectorMap ==
  ASSUME IInv, RoomInv, MapInv, GcSector
  PROVE  MapInv'
<1> USE DEF RoomInv, MapInv
<1>1. /\ PlaceInv' /\ Stays /\ \A s \in Sectors : flash'[s].ok = flash[s].ok
  BY GcSectorPlace, GcSectorEffect
<1>2. /\ pc = "gcnext" /\ pc' \in {"gckv", "gcnext"} /\ UNCHANGED <<phase, lastDel, cache, todo>>
      /\ gc'.for # "none" /\ src = None
  <2>1. gc'.for = gc.for
    BY GcSectorEffect
  <2> QED BY <2>1 DEF GcSector, ram, loading, IInv, PhaseInv, SrcInv
<1>3. ForceInv' /\ ValueInv' /\ ScanInv'
  BY <1>1, <1>2, ForceRest, GcValue DEF Creating, ScanInv
<1>4. ~lastDel
  BY <1>2, Kinds, NotReplacing DEF IInv
<1>5. FoundInv'
  BY <1>1, <1>2, <1>4, FoundRest
<1>6. LifeInv'
  BY <1>1, <1>2, LifeStays
<1> QED BY <1>1, <1>3, <1>5, <1>6

LEMMA CheckMap ==
  ASSUME IInv, RoomInv, MapInv, KvCheck \/ KvEnd
  PROVE  MapInv'
<1> USE DEF RoomInv, MapInv
<1>1. CASE KvCheck
  <2>1. PlaceInv' /\ Stays /\ ScanInv'
    BY <1>1, KvCheckPlace, KvCheckScan
  <2>2. ForceInv' /\ FoundInv' /\ ValueInv'
    BY <1>1, <2>1, KvCheckForce, KvCheckFound, CheckValue
  <2>3. phase = "kvcheck" /\ UNCHANGED <<phase, todo>>
    BY <1>1, KvCheckCases DEF KvCheck
  <2>4. \A s \in Sectors : flash'[s].ok = flash[s].ok
    <3> DEFINE a == <<Head(scan.rest), scan.at>>
    <3>1. UNCHANGED flash \/ (a \in Addresses /\ flash' = Mark(a, Dead))
      BY <1>1, KvCheckCases
    <3>2. Dead \in Record
      BY DEF Record
    <3> HIDE DEF a
    <3> QED BY <3>1, <3>2, MarkFacts DEF IInv
  <2>5. LifeInv'
    BY <2>3, <2>4, LifeStays
  <2> QED BY <2>1, <2>2, <2>5
<1>2. CASE KvEnd
  <2>1. PlaceInv' /\ Stays
    BY <1>2, KvEndPlace
  <2>2. /\ pc = "kvend" /\ phase = "kvcheck" /\ pc' \in {"gc", "idle"} /\ src = None
        /\ phase' \in {"kvcheck", "run"} /\ UNCHANGED <<flash, lastDel, cache, todo>>
    BY <1>2 DEF KvEnd, ram, IInv, PhaseInv, SrcInv
  <2>3. pc' = "gc" => gc'.for # "none"
    BY <1>2, Collect DEF KvEnd
  <2>4. ForceInv'
    BY <2>1, <2>2, ForceRest DEF Creating
  <2>5. ~lastDel
    BY <2>2, Kinds, NotReplacing DEF IInv
  <2>6. FoundInv'
    BY <2>1, <2>2, <2>5, FoundRest
  <2>7. ScanInv'
    <3>1. pc' = "idle" => phase' = "run"
      BY <1>2 DEF KvEnd
    <3> QED BY <2>2, <2>3, <3>1 DEF ScanInv
  <2>8. LifeInv'
    BY <2>2, LifeStays
  <2> QED BY <1>2, <2>1, <2>4, <2>6, <2>7, <2>8, CheckValue
<1> QED BY <1>1, <1>2

LEMMA PowerMap ==
  ASSUME IInv, RoomInv, MapInv, PowerOn \/ PowerOff, MaxCuts <= 2
  PROVE  MapInv'
<1> USE DEF RoomInv, MapInv
<1>1. PlaceInv' /\ Stays
  BY PowerOnPlace, PowerOffPlace
<1>2. LifeInv'
  BY PowerOnLife, PowerOffLife
<1>3. CASE PowerOff
  <2>1. Lost /\ pc' = "off" /\ phase' = "off"
    BY <1>3 DEF PowerOff
  <2>2. ForceInv'
    BY <1>1, <2>1, ForceRest DEF Creating
  <2> QED BY <1>1, <1>2, <2>1, <2>2, LostFound, LostValue DEF ScanInv
<1>4. CASE PowerOn
  <2>1. /\ pc = "off" /\ pc' = "formatnext" /\ phase' = "format" /\ src = None
        /\ UNCHANGED <<lastDel, cache>>
    BY <1>4 DEF PowerOn, IInv, PhaseInv, SrcInv
  <2>2. ForceInv'
    BY <1>1, <2>1, ForceRest DEF Creating
  <2>3. ~lastDel
    BY <2>1, Kinds, NotReplacing DEF IInv
  <2>4. FoundInv'
    BY <1>1, <2>1, <2>3, FoundRest
  <2> QED BY <1>1, <1>2, <1>4, <2>1, <2>2, <2>4, PowerOnValue DEF ScanInv
<1> QED BY <1>3, <1>4

LEMMA StutterMap ==
  ASSUME MapInv, UNCHANGED vars
  PROVE  MapInv'
<1>1. /\ InForce' = InForce /\ Hidden' = Hidden /\ Leftover' = Leftover /\ Last' = Last
      /\ Order' = Order /\ (Creating' <=> Creating) /\ (Moving' <=> Moving)
      /\ \A a : At(a)' = At(a)
  BY DEF vars, InForce, Hidden, Leftover, Live, Addresses, At, Last, Order, Creating, Moving
<1>2. PlaceInv'
  BY <1>1 DEF vars, MapInv, PlaceInv, CutInv, HiddenInv, AgeInv, Before
<1>3. ScanInv'
  BY <1>1 DEF vars, MapInv, ScanInv, Ahead, In
<1>4. ForceInv'
  BY <1>1 DEF vars, MapInv, ForceInv, OnlyOne, Unheld, Deleting
<1>5. FoundInv'
  BY <1>1 DEF vars, MapInv, FoundInv, Known
<1>6. ValueInv' /\ LifeInv'
  BY <1>1 DEF vars, MapInv, ValueInv, LifeInv, Asked
<1> QED BY <1>2, <1>3, <1>4, <1>5, <1>6 DEF MapInv

LEMMA NextMap ==
  ASSUME IInv, RoomInv, MapInv, [Next]_vars, MaxCuts <= 2
  PROVE  MapInv'
<1>1. ASSUME Quiet
      PROVE  MapInv'
  BY <1>1, QuietMap
<1>2. Step => \/ Quiet \/ Erase \/ WriteHeader
              \/ UpdateSecStatus \/ PreWrite \/ WriteData \/ CommitWrite
              \/ PreDelete \/ Delete \/ MarkDirty \/ GcSector \/ KvCheck \/ KvEnd
  BY DEF Step, Quiet
<1>3. Next => Step \/ PowerOn \/ PowerOff \/ Quiet
  BY DEF Next, Quiet
<1> QED BY <1>1, <1>2, <1>3, FormatMap, CreateMap, CommitMap, PreDeleteMap, DeleteMap,
        MarkDirtyMap, GcSectorMap, CheckMap, PowerMap, StutterMap

LEMMA InitMap == Init => MapInv
<1> SUFFICES ASSUME Init
             PROVE  MapInv
  OBVIOUS
<1>1. /\ phase = "off" /\ pc = "off" /\ src = None /\ gc.for = "none" /\ ~lastDel
      /\ req = NoReq /\ cuts = 0 /\ \A s \in Sectors : flash[s] = Erased
      /\ \A k \in Keys : cache[k] = None
  BY Blanks DEF Init
<1>2. Addresses = {}
  <2>1. DOMAIN << >> = {}
    BY EmptySeq
  <2> QED BY <1>1, <2>1, Blanks DEF Addresses
<1>3. InForce = {} /\ Hidden = {} /\ Leftover = {}
  BY <1>2 DEF InForce, Hidden, Leftover, Live
<1>4. PlaceInv /\ ScanInv
  BY <1>1, <1>3 DEF PlaceInv, CutInv, HiddenInv, AgeInv, ScanInv
<1>5. ForceInv /\ FoundInv
  BY <1>1, <1>3 DEF ForceInv, FoundInv, OnlyOne, Creating
<1>6. ValueInv /\ LifeInv
  BY <1>1 DEF ValueInv, LifeInv, Creating
<1> QED BY <1>4, <1>5, <1>6 DEF MapInv

(* The invariant MapInv holds as long as no third operation is cut off.    *)
THEOREM MapInvariant ==
  ASSUME MaxCuts <= 2
  PROVE  Spec => [](IInv /\ RoomInv /\ MapInv)
<1>1. IInv /\ RoomInv /\ MapInv /\ [Next]_vars => (IInv /\ RoomInv /\ MapInv)'
  BY NextInv, NextRoom, NextMap
<1>2. Init => IInv /\ RoomInv /\ MapInv
  BY InitInv, InitRoom, InitMap
<1> QED BY <1>1, <1>2, PTL DEF Spec

------------------------------------------------------------------------------
(* What a caller sees.                                                     *)

(* As long as no third operation is cut off a key never has two records in *)
(* force: neither a recovery, nor a collection, nor a cut between the copy *)
(* of a record and its deletion makes a second one.                        *)
THEOREM OneCurrentForTwoCuts ==
  ASSUME MaxCuts <= 2
  PROVE  Spec => []OneCurrent
<1>1. MapInv => OneCurrent
  <2> SUFFICES ASSUME MapInv, NEW k \in Keys
               PROVE  Cardinality(Current(k)) <= 1
    BY DEF OneCurrent
  <2>1. \A a, b \in Current(k) : a = b
    BY CurrentForce DEF MapInv, ForceInv, OnlyOne
  <2>2. CASE Current(k) = {}
    BY <2>2, FS_EmptySet
  <2>3. CASE Current(k) # {}
    <3>1. PICK a : a \in Current(k)
      BY <2>3
    <3>2. Current(k) = {a}
      BY <2>1, <3>1
    <3>3. Cardinality({a}) = 1
      BY FS_Singleton
    <3> QED BY <3>2, <3>3
  <2> QED BY <2>2, <2>3
<1> QED BY <1>1, MapInvariant, PTL

(* When find_kv is called nothing of value is left in a record that was    *)
(* about to be replaced, and the address in kv_cache_table is that of the  *)
(* record in force, whose status get_kv_from_cache does not look at.       *)
LEMMA MapReads == IInv /\ MapInv => ReadsAgree
<1> SUFFICES ASSUME IInv, MapInv, pc \in {"idle", "find"}, NEW k \in Keys
             PROVE  /\ Replaced(k) = {}
                    /\ cache[k] # None => cache[k] \in Current(k)
  BY DEF ReadsAgree
<1>1. phase = "run" /\ src = None
  BY DEF IInv, PhaseInv, SrcInv
<1>2. Hidden = {}
  <2>1. Hidden \subseteq {None}
    BY <1>1 DEF MapInv, PlaceInv, HiddenInv
  <2> QED BY <2>1, Kinds DEF IInv
<1>3. ASSUME cache[k] # None
      PROVE  cache[k] \in Current(k)
  <2>1. Known(k, cache[k])
    BY <1>3 DEF MapInv, FoundInv
  <2> QED BY <1>2, <2>1, CurrentForce DEF Known
<1> QED BY <1>2, <1>3, CurrentForce

THEOREM ReadsAgreeForTwoCuts ==
  ASSUME MaxCuts <= 2
  PROVE  Spec => []ReadsAgree
BY MapReads, MapInvariant, PTL

(* RecoveredAll, which a third cut breaks, holds up to the second.         *)
THEOREM RecoveredForTwoCuts ==
  ASSUME MaxCuts <= 2
  PROVE  Spec => []RecoveredAll
<1>1. ReadsAgree => RecoveredAll
  BY DEF ReadsAgree, RecoveredAll
<1> QED BY <1>1, ReadsAgreeForTwoCuts, PTL

------------------------------------------------------------------------------
(* What is deleted, and what is not there to be deleted.                   *)

(* A call deletes the record of its key; what is replaced or moved is      *)
(* deleted only when another record of the key is in force.                *)
HeldInv ==
    /\ pc = "delete" => IF Deleting THEN At(src).key = req.key
                                    ELSE ~Unheld(At(src).key)
    /\ pc = "absent" => req.val = None /\ Unheld(req.key)

LEMMA FindOldHeld ==
  ASSUME IInv, RoomInv, MapInv, FindOld
  PROVE  HeldInv'
<1>1. /\ pc = "find" /\ phase = "run" /\ gc.for = "none" /\ src = None
      /\ req.key \in Keys
  BY DEF FindOld, IInv, PhaseInv, SrcInv, PutInv
<1>2. /\ Find(req.key) = None => Unheld(req.key)
      /\ Find(req.key) # None => /\ Find(req.key) \in InForce
                                 /\ At(Find(req.key)).key = req.key
  BY <1>1, FindForce DEF RoomInv, MapInv, PlaceInv
<1>3. UNCHANGED flash
  BY DEF FindOld
<1>4. Unheld(req.key) => \A a \in InForce' : flash'[a[1]].kv[a[2]].key # req.key
  BY <1>3 DEF Unheld, InForce, Live, Addresses, At
<1>5. CASE oldest = None /\ ~Hit(req.key)
  BY <1>5 DEF FindOld, Halt, HeldInv
<1>6. CASE ~(oldest = None /\ ~Hit(req.key))
  <2>1. /\ src' = Find(req.key) /\ UNCHANGED <<req, phase, gc>>
        /\ pc' = "delete" => Find(req.key) # None /\ req.val = None
        /\ pc' = "absent" => Find(req.key) = None /\ req.val = None
    BY <1>1, <1>6 DEF FindOld
  <2>2. ASSUME pc' = "delete"
        PROVE  Deleting' /\ At(src)'.key = req'.key
    <3>1. At(src)' = At(Find(req.key))
      BY <1>3, <2>1 DEF At
    <3> QED BY <1>1, <1>2, <2>1, <2>2, <3>1 DEF Deleting
  <2>3. ASSUME pc' = "absent"
        PROVE  req'.val = None /\ Unheld(req.key)'
    <3>1. Unheld(req.key)
      BY <1>2, <2>1, <2>3
    <3>2. \A a \in InForce' : At(a)'.key # req'.key
      BY <1>4, <2>1, <3>1 DEF At
    <3> QED BY <2>1, <2>3, <3>2 DEF Unheld
  <2> QED BY <2>2, <2>3 DEF HeldInv
<1> QED BY <1>5, <1>6

LEMMA MoveAllocHeld ==
  ASSUME IInv, RoomInv, MapInv, MoveAlloc
  PROVE  HeldInv'
<1>1. CASE pc' # "delete"
  <2>1. pc' # "absent"
    BY DEF MoveAlloc, Halt
  <2> QED BY <1>1, <2>1 DEF HeldInv
<1>2. CASE pc' = "delete"
  <2>1. /\ Copied(At(src).key) /\ UNCHANGED <<flash, phase, req, src, gc>>
        /\ pc = "movealloc" /\ Moving
    BY <1>2 DEF MoveAlloc, Halt, loading, IInv, PhaseInv
  <2>2. phase \in {"gccheck", "kvcheck"} /\ ~Deleting'
    BY <2>1 DEF Copied, Deleting
  <2>3. PICK a \in InForce : At(a).key = At(src).key
    BY <2>1 DEF Copied, Records, InForce, Live
  <2>4. a \in InForce' /\ At(a)' = At(a) /\ At(src)' = At(src)
    BY <2>1, <2>3 DEF InForce, Live, Addresses, At
  <2>5. ~Unheld(At(src).key)'
    BY <2>3, <2>4 DEF Unheld
  <2> QED BY <1>2, <2>2, <2>5 DEF HeldInv
<1> QED BY <1>1, <1>2

LEMMA CommitHeld ==
  ASSUME IInv, RoomInv, MapInv, CommitWrite
  PROVE  HeldInv'
<1>1. /\ pc = "write" /\ Creating /\ UNCHANGED <<phase, gc, req, src>>
      /\ pc' \in {"delete", "default", "endset"}
      /\ pc' = "delete" => Moving \/ (phase # "default" /\ src # None)
  BY DEF CommitWrite, Creating
<1>2. /\ Last \in Addresses /\ Last \notin Live /\ InForce' = InForce \cup {Last}
      /\ \A b \in Addresses : b # Last => flash'[b[1]].kv[b[2]] = At(b)
      /\ flash'[Last[1]].kv[Last[2]].key = put.key
  BY CommitKinds
<1>3. ASSUME pc' = "delete"
      PROVE  ~Deleting' /\ ~Unheld(At(src).key)'
  <2>1. src # None
    BY <1>1, <1>3 DEF IInv, SrcInv
  <2>2. src \in Live /\ At(src).key = put.key
    BY <1>1, <2>1 DEF RoomInv, ContentInv, StatusInv, KeyInv
  <2>3. ~Deleting'
    BY <1>1, <1>3, <2>1 DEF RoomInv, ShapeInv, AimInv, Deleting, Moving
  <2>4. At(src)'.key = put.key
    BY <1>1, <1>2, <2>2 DEF At, Live
  <2>5. Last \in InForce' /\ flash'[Last[1]].kv[Last[2]].key = put.key
    BY <1>2
  <2>6. \E a \in InForce' : At(a)'.key = At(src)'.key
    BY <2>4, <2>5 DEF At
  <2> QED BY <2>3, <2>6 DEF Unheld
<1> QED BY <1>1, <1>3 DEF HeldInv

LEMMA NextHeld ==
  ASSUME IInv, RoomInv, MapInv, HeldInv, [Next]_vars
  PROVE  HeldInv'
<1>1. CASE FindOld
  BY <1>1, FindOldHeld
<1>2. CASE MoveAlloc
  BY <1>2, MoveAllocHeld
<1>3. CASE CommitWrite
  BY <1>3, CommitHeld
<1>4. CASE UNCHANGED vars
  <2>1. /\ InForce' = InForce /\ At(src)' = At(src) /\ (Deleting' <=> Deleting)
        /\ \A a : At(a)' = At(a)
    BY <1>4 DEF vars, InForce, Live, Addresses, At, Deleting
  <2>2. \A k : Unheld(k)' <=> Unheld(k)
    BY <2>1 DEF Unheld
  <2>3. Unheld(At(src).key)' <=> Unheld(At(src).key)
    BY <2>1 DEF Unheld
  <2>4. req' = req /\ (Unheld(req.key)' <=> Unheld(req.key))
    BY <1>4, <2>1 DEF vars, Unheld
  <2> QED BY <1>4, <2>1, <2>3, <2>4 DEF vars, HeldInv
<1>5. CASE PowerOn \/ PowerOff \/ (\E k \in Keys : Get(k))
           \/ (\E k \in Keys, v \in Values \cup {None} : Call(k, v))
  <2>1. pc' \notin {"delete", "absent"}
    BY <1>5 DEF PowerOn, PowerOff, Get, Call, Halt
  <2> QED BY <2>1 DEF HeldInv
<1>6. CASE Step /\ ~FindOld /\ ~MoveAlloc /\ ~CommitWrite
  <2>1. CASE FormatNext \/ Erase \/ WriteHeader \/ DefaultNext \/ NewKv \/ Return
    <3>1. pc' \notin {"delete", "absent"}
      BY <2>1 DEF FormatNext, Erase, WriteHeader, DefaultNext, NewKv, Return, Halt
    <3> QED BY <3>1 DEF HeldInv
  <2>2. CASE UpdateSecStatus \/ PreWrite \/ WriteData \/ PreDelete \/ Delete \/ MarkDirty
             \/ EndSet
    <3>1. pc' \notin {"delete", "absent"}
      BY <2>2 DEF UpdateSecStatus, PreWrite, WriteData, PreDelete, Delete, MarkDirty, EndSet
    <3> QED BY <3>1 DEF HeldInv
  <2>3. CASE GcStart \/ GcSector \/ GcRecord \/ GcCheck \/ KvStart \/ KvCheck \/ KvEnd
    <3>1. pc' \notin {"delete", "absent"}
      <4>1. CASE GcStart \/ GcSector \/ KvStart \/ KvEnd
        BY <4>1 DEF GcStart, GcSector, KvStart, KvEnd, Halt
      <4>2. CASE GcRecord
        BY <4>2 DEF GcRecord
      <4>3. CASE GcCheck
        BY <4>3 DEF GcCheck
      <4>4. CASE KvCheck
        BY <4>4, KvCheckCases
      <4> QED BY <2>3, <4>1, <4>2, <4>3, <4>4
    <3> QED BY <3>1 DEF HeldInv
  <2>4. CASE GcDone
    <3>1. gc.for \in {"new", "set", "gccheck", "kvcheck"}
      BY <2>4 DEF GcDone, IInv, PhaseInv, TypeOK
    <3>2. pc' \notin {"delete", "absent"}
      BY <2>4, <3>1 DEF GcDone, GcReturn
    <3> QED BY <3>2 DEF HeldInv
  <2> QED BY <1>6, <2>1, <2>2, <2>3, <2>4 DEF Step
<1> QED BY <1>1, <1>2, <1>3, <1>4, <1>5, <1>6 DEF Next

------------------------------------------------------------------------------
(* What the database holds.                                                *)

(* The value of a key, without the choice that Stored makes.               *)
StoredInv ==
    \A k \in Keys :
       /\ \A a \in InForce : At(a).key = k => Stored(k) = At(a).val
       /\ \A h \in Hidden : Unheld(k) /\ At(h).key = k => Stored(k) = At(h).val
       /\ Unheld(k) /\ (\A h \in Hidden : At(h).key # k) => Stored(k) = None

LEMMA StoredFacts == MapInv => StoredInv
<1> SUFFICES ASSUME MapInv, NEW k \in Keys
             PROVE  /\ \A a \in InForce : At(a).key = k => Stored(k) = At(a).val
                    /\ \A h \in Hidden : Unheld(k) /\ At(h).key = k => Stored(k) = At(h).val
                    /\ Unheld(k) /\ (\A h \in Hidden : At(h).key # k) => Stored(k) = None
  BY DEF StoredInv
<1> DEFINE C == Current(k)
           R == Replaced(k)
<1>1. /\ C = {a \in InForce : At(a).key = k} /\ R = {a \in Hidden : At(a).key = k}
      /\ Unheld(k) <=> C = {}
  BY CurrentForce
<1>2. /\ \A a, b \in C : a = b
      /\ \A a, b \in R : a = b
  BY <1>1 DEF MapInv, ForceInv, OnlyOne, PlaceInv, AgeInv
<1>3. Stored(k) = IF C # {} THEN ValueIn(C) ELSE IF R # {} THEN ValueIn(R) ELSE None
  BY DEF Stored
<1> HIDE DEF C, R
<1>4. \A a \in C : ValueIn(C) = At(a).val
  BY <1>2 DEF ValueIn
<1>5. \A h \in R : ValueIn(R) = At(h).val
  BY <1>2 DEF ValueIn
<1> QED BY <1>1, <1>3, <1>4, <1>5

LEMMA StoredNext == MapInv' => StoredInv'
BY StoredFacts, PTL

LEMMA StoredAfter ==
  ASSUME MapInv', NEW k \in Keys
  PROVE  /\ \A a \in InForce' : flash'[a[1]].kv[a[2]].key = k =>
               Stored(k)' = flash'[a[1]].kv[a[2]].val
         /\ \A h \in Hidden' : Unheld(k)' /\ flash'[h[1]].kv[h[2]].key = k =>
               Stored(k)' = flash'[h[1]].kv[h[2]].val
         /\ Unheld(k)' /\ (\A h \in Hidden' : flash'[h[1]].kv[h[2]].key # k) =>
               Stored(k)' = None
         /\ Unheld(k)' <=> \A a \in InForce' : flash'[a[1]].kv[a[2]].key # k
<1>1. StoredInv'
  BY StoredNext
<1>2. Unheld(k)' <=> \A a \in InForce' : flash'[a[1]].kv[a[2]].key # k
  BY DEF Unheld, At
<1>3. /\ \A a \in InForce' : At(a)'.key = k => Stored(k)' = At(a)'.val
      /\ \A h \in Hidden' : Unheld(k)' /\ At(h)'.key = k => Stored(k)' = At(h)'.val
      /\ Unheld(k)' /\ (\A h \in Hidden' : At(h)'.key # k) => Stored(k)' = None
  BY <1>1 DEF StoredInv
<1>4. \A a : At(a)' = flash'[a[1]].kv[a[2]]
  BY DEF At
<1> QED BY <1>2, <1>3, <1>4

(* What the database is as a map, to its caller.                           *)
MapNow == [k \in Keys |-> Stored(k)]
AskNow == IF req = NoReq \/ phase = "default" THEN None
          ELSE [key |-> req.key, val |-> req.val, done |-> Effective]
LifeNow == IF phase = "run" THEN "up"
           ELSE IF missing # {} \/ phase = "default"
                   \/ \A s \in Sectors : ~flash[s].ok
           THEN "created" ELSE "down"

(* Where the live records stay, so does the map.                           *)
LEMMA SameMap ==
  ASSUME MapInv, MapInv', Stays
  PROVE  MapNow' = MapNow
<1>1. StoredInv /\ StoredInv'
  BY StoredFacts, StoredNext
<1>2. /\ InForce' = InForce /\ Hidden' = Hidden
      /\ \A a \in InForce \cup Hidden : flash'[a[1]].kv[a[2]] = At(a)
      /\ \A k : Unheld(k)' <=> Unheld(k)
  BY KindsStay DEF InForce, Hidden
<1>3. ASSUME NEW k \in Keys
      PROVE  Stored(k)' = Stored(k)
  <2>1. /\ \A a \in InForce : At(a).key = k => Stored(k)' = At(a).val
        /\ \A h \in Hidden : Unheld(k) /\ At(h).key = k => Stored(k)' = At(h).val
        /\ Unheld(k) /\ (\A h \in Hidden : At(h).key # k) => Stored(k)' = None
    BY <1>1, <1>2 DEF StoredInv, At
  <2>2. /\ \A a \in InForce : At(a).key = k => Stored(k) = At(a).val
        /\ \A h \in Hidden : Unheld(k) /\ At(h).key = k => Stored(k) = At(h).val
        /\ Unheld(k) /\ (\A h \in Hidden : At(h).key # k) => Stored(k) = None
    BY <1>1 DEF StoredInv
  <2> QED BY <2>1, <2>2 DEF Unheld
<1> QED BY <1>3 DEF MapNow

LEMMA PreDeleteStored ==
  ASSUME IInv, RoomInv, MapInv, MapInv', PreDelete
  PROVE  MapNow' = MapNow
<1>1. StoredInv /\ StoredInv'
  BY StoredFacts, StoredNext
<1>2. /\ src \in InForce /\ InForce' = InForce \ {src} /\ Hidden' = Hidden \cup {src}
      /\ \A b \in InForce \cup Hidden : /\ flash'[b[1]].kv[b[2]].key = At(b).key
                                        /\ flash'[b[1]].kv[b[2]].val = At(b).val
  <2>1. pc = "predelete"
    BY DEF PreDelete
  <2> QED BY <2>1, PreDeleteKinds DEF RoomInv, ContentInv, MapInv, ForceInv, InForce, Hidden, Live
<1>3. /\ \A a, b \in InForce : At(a).key = At(b).key => a = b
      /\ \A h \in Hidden : At(h).key # At(src).key
  <2>1. pc = "predelete"
    BY DEF PreDelete
  <2> QED BY <2>1 DEF MapInv, ForceInv, OnlyOne
<1>4. ASSUME NEW k \in Keys
      PROVE  Stored(k)' = Stored(k)
  <2>1. /\ \A a \in InForce' : At(a).key = k => Stored(k)' = At(a).val
        /\ \A h \in Hidden' : Unheld(k)' /\ At(h).key = k => Stored(k)' = At(h).val
        /\ Unheld(k)' /\ (\A h \in Hidden' : At(h).key # k) => Stored(k)' = None
        /\ Unheld(k)' <=> \A a \in InForce' : At(a).key # k
    <3>1. /\ \A b \in InForce' : /\ flash'[b[1]].kv[b[2]].key = At(b).key
                               /\ flash'[b[1]].kv[b[2]].val = At(b).val
          /\ \A b \in Hidden' : /\ flash'[b[1]].kv[b[2]].key = At(b).key
                               /\ flash'[b[1]].kv[b[2]].val = At(b).val
      BY <1>2
    <3> QED BY <3>1, StoredAfter
  <2>2. /\ \A a \in InForce : At(a).key = k => Stored(k) = At(a).val
        /\ \A h \in Hidden : Unheld(k) /\ At(h).key = k => Stored(k) = At(h).val
        /\ Unheld(k) /\ (\A h \in Hidden : At(h).key # k) => Stored(k) = None
        /\ Unheld(k) <=> \A a \in InForce : At(a).key # k
    BY <1>1 DEF StoredInv, Unheld
  <2> QED BY <1>2, <1>3, <2>1, <2>2
<1> QED BY <1>4 DEF MapNow

LEMMA DeleteStored ==
  ASSUME IInv, RoomInv, MapInv, MapInv', HeldInv, Delete
  PROVE  MapNow' = IF Deleting THEN [MapNow EXCEPT ![req.key] = None] ELSE MapNow
<1>1. StoredInv /\ StoredInv'
  BY StoredFacts, StoredNext
<1>2. /\ src \notin InForce' /\ src \notin Hidden'
      /\ InForce' = InForce \ {src} /\ Hidden' = Hidden \ {src}
      /\ \A b \in InForce' \cup Hidden' : flash'[b[1]].kv[b[2]] = At(b)
  BY DeleteKinds DEF InForce, Hidden, Live
<1>3. \A k \in Keys :
        /\ \A a \in InForce' : At(a).key = k => Stored(k)' = At(a).val
        /\ \A h \in Hidden' : Unheld(k)' /\ At(h).key = k => Stored(k)' = At(h).val
        /\ Unheld(k)' /\ (\A h \in Hidden' : At(h).key # k) => Stored(k)' = None
        /\ Unheld(k)' <=> \A a \in InForce' : At(a).key # k
  BY <1>2, StoredAfter
<1>4. \A k \in Keys :
        /\ \A a \in InForce : At(a).key = k => Stored(k) = At(a).val
        /\ \A h \in Hidden : Unheld(k) /\ At(h).key = k => Stored(k) = At(h).val
        /\ Unheld(k) /\ (\A h \in Hidden : At(h).key # k) => Stored(k) = None
        /\ Unheld(k) <=> \A a \in InForce : At(a).key # k
  BY <1>1 DEF StoredInv, Unheld
<1>5. pc = "delete" /\ src # None
  BY DEF Delete, IInv, SrcInv
<1>6. CASE Deleting
  <2>1. /\ src \in InForce /\ At(src).key = req.key
        /\ \A a, b \in InForce : At(a).key = At(b).key => a = b
    BY <1>5, <1>6 DEF HeldInv, MapInv, ForceInv, OnlyOne
  <2>2. Hidden = {}
    <3>1. Hidden \subseteq {src}
      BY <1>6 DEF MapInv, PlaceInv, HiddenInv, Deleting
    <3>2. src \notin Hidden
      BY <2>1, Kinds DEF IInv
    <3> QED BY <3>1, <3>2
  <2>3. \A k \in Keys : Stored(k)' = IF k = req.key THEN None ELSE Stored(k)
    BY <1>2, <1>3, <1>4, <2>1, <2>2
  <2> QED BY <1>6, <2>3 DEF MapNow
<1>7. CASE ~Deleting
  <2>1. src \in Hidden /\ ~Unheld(At(src).key) /\ src \notin InForce
    BY <1>5, <1>7, Kinds DEF HeldInv, MapInv, ForceInv, IInv
  <2>2. PICK w \in InForce : At(w).key = At(src).key
    BY <2>1 DEF Unheld
  <2>3. \A k \in Keys : Stored(k)' = Stored(k)
    BY <1>2, <1>3, <1>4, <2>1, <2>2
  <2> QED BY <1>7, <2>3 DEF MapNow
<1> QED BY <1>6, <1>7

LEMMA CommitStored ==
  ASSUME IInv, RoomInv, MapInv, MapInv', CommitWrite
  PROVE  /\ put.key \in Keys
         /\ MapNow' = [MapNow EXCEPT ![put.key] = put.val]
         /\ Moving => MapNow' = MapNow
<1>1. StoredInv /\ StoredInv'
  BY StoredFacts, StoredNext
<1>2. /\ put.key \in Keys /\ Hidden' = Hidden /\ InForce' = InForce \cup {Last}
      /\ \A b \in InForce \cup Hidden : flash'[b[1]].kv[b[2]] = At(b)
      /\ flash'[Last[1]].kv[Last[2]].key = put.key
      /\ flash'[Last[1]].kv[Last[2]].val = put.val
  BY CommitKinds DEF InForce, Hidden, Live
<1>3. pc = "write" /\ Creating /\ \A a \in InForce : At(a).key # put.key
  BY DEF CommitWrite, Creating, MapInv, ForceInv, Unheld
<1>4. \A k \in Keys :
        /\ \A a \in InForce : At(a).key = k => Stored(k)' = At(a).val
        /\ k = put.key => Stored(k)' = put.val
        /\ \A h \in Hidden : Unheld(k)' /\ At(h).key = k => Stored(k)' = At(h).val
        /\ Unheld(k)' /\ (\A h \in Hidden : At(h).key # k) => Stored(k)' = None
        /\ Unheld(k)' <=> k # put.key /\ \A a \in InForce : At(a).key # k
  BY <1>2, StoredAfter
<1>5. \A k \in Keys :
        /\ \A a \in InForce : At(a).key = k => Stored(k) = At(a).val
        /\ \A h \in Hidden : Unheld(k) /\ At(h).key = k => Stored(k) = At(h).val
        /\ Unheld(k) /\ (\A h \in Hidden : At(h).key # k) => Stored(k) = None
        /\ Unheld(k) <=> \A a \in InForce : At(a).key # k
  BY <1>1 DEF StoredInv, Unheld
<1>6. \A k \in Keys : Stored(k)' = IF k = put.key THEN put.val ELSE Stored(k)
  BY <1>3, <1>4, <1>5
<1>7. MapNow' = [MapNow EXCEPT ![put.key] = put.val]
  BY <1>6 DEF MapNow
<1>8. ASSUME Moving
      PROVE  MapNow' = MapNow
  <2>1. src # None
    BY <1>3, <1>8 DEF IInv, SrcInv
  <2>2. src \in Hidden /\ At(src).key = put.key
    BY <1>3, <2>1 DEF RoomInv, ContentInv, StatusInv, KeyInv, Hidden
  <2>3. put.val = At(src).val
    BY <1>3, <1>8 DEF MapInv, ValueInv
  <2>4. Stored(put.key) = put.val
    BY <1>2, <1>3, <1>5, <2>2, <2>3
  <2> QED BY <1>6, <2>4 DEF MapNow
<1> QED BY <1>2, <1>7, <1>8

------------------------------------------------------------------------------
(* The defaults.                                                           *)

(* The defaults are missing from a database that is created until each was *)
(* created in its turn, and only from that one; and a program that was     *)
(* stopped is not in the middle of it.                                     *)
DefaultsInv ==
    /\ pc = "halted" => phase = "halted"
    /\ phase = "format" =>
          /\ missing \in {{}, Defaults}
          /\ (\A s \in Sectors : ~flash[s].ok) => missing = Defaults
    /\ phase \notin {"format", "default"} => missing = {}
    /\ phase = "default" =>
          /\ gc.for = "none" /\ pc \in {"default", "new", "status", "prewrite", "data", "write"}
          /\ \A k \in Defaults \ missing :
                Stored(k) = Default[k] \/ (pc # "default" /\ k = req.key)

LEMMA InitDefaults == Init => DefaultsInv
BY DEF Init, DefaultsInv

LEMMA SameStored ==
  ASSUME MapNow' = MapNow
  PROVE  \A k \in Keys : Stored(k)' = Stored(k)
<1>1. \A k \in Keys : MapNow[k] = Stored(k) /\ MapNow'[k] = Stored(k)'
  BY DEF MapNow
<1> QED BY <1>1

(* The steps that create a default.                                        *)
LEMMA CreateDefaults ==
  ASSUME IInv, RoomInv, MapInv, MapInv', DefaultsInv, phase = "default",
         NewKv \/ UpdateSecStatus \/ PreWrite \/ WriteData \/ CommitWrite
  PROVE  DefaultsInv'
<1> DEFINE done(k) == Stored(k) = Default[k]
<1> USE DEF RoomInv, MapInv
<1>1. gc.for = "none" /\ \A k \in Defaults \ missing : done(k) \/ (pc # "default" /\ k = req.key)
  BY DEF DefaultsInv
<1>2. Defaults \subseteq Keys
  BY DEF Defaults
<1>3. ASSUME Stays, UNCHANGED <<phase, req, gc, missing>>,
             pc' \in {"status", "prewrite", "data", "write"}
      PROVE  DefaultsInv'
  <2>1. \A k \in Keys : Stored(k)' = Stored(k)
    BY <1>3, SameMap, SameStored
  <2> QED BY <1>1, <1>2, <1>3, <2>1 DEF DefaultsInv
<1>4. CASE NewKv
  <2>1. pc = "new" /\ oldest # None
    BY <1>4 DEF NewKv, ShapeInv, WalkInv
  <2>2. Alloc(gcRequest) # None
    BY <2>1, NewRoom DEF ContentInv
  <2>3. pc' = "status" /\ UNCHANGED <<phase, req, gc, missing>>
    BY <1>4, <2>1, <2>2 DEF NewKv, loading
  <2>4. Stays
    BY <1>4, QuietStepPlace DEF Quiet
  <2> QED BY <1>3, <2>3, <2>4
<1>5. CASE UpdateSecStatus \/ PreWrite \/ WriteData
  <2>1. Stays
    BY <1>5, UpdateSecStatusPlace, PreWritePlace, WriteDataPlace DEF ContentInv
  <2>2. /\ UNCHANGED <<phase, req, gc, missing>>
        /\ pc' \in {"status", "prewrite", "data", "write"}
    BY <1>5 DEF UpdateSecStatus, PreWrite, WriteData, frames, loading
  <2> QED BY <1>3, <2>1, <2>2
<1>6. CASE CommitWrite
  <2>1. /\ pc = "write" /\ pc' = "default" /\ Creating /\ ~Moving
        /\ UNCHANGED <<phase, req, gc, missing>>
    BY <1>1, <1>6 DEF CommitWrite, Creating, Moving, loading
  <2>2. put.key = req.key /\ put.val = Default[req.key]
    BY <2>1 DEF ValueInv, Asked
  <2>3. put.key \in Keys /\ MapNow' = [MapNow EXCEPT ![put.key] = put.val]
    BY <1>6, CommitStored
  <2>4. \A k \in Keys : Stored(k)' = IF k = put.key THEN put.val ELSE Stored(k)
    <3>1. \A k \in Keys : MapNow[k] = Stored(k) /\ MapNow'[k] = Stored(k)'
      BY DEF MapNow
    <3>2. MapNow = [k \in Keys |-> Stored(k)]
      BY DEF MapNow
    <3> QED BY <2>3, <3>1, <3>2
  <2>5. \A k \in Defaults \ missing : Stored(k)' = Default[k]
    BY <1>1, <1>2, <2>2, <2>4
  <2> QED BY <1>1, <2>1, <2>5 DEF DefaultsInv
<1> QED BY <1>4, <1>5, <1>6

(* The steps that look for the next default.                               *)
LEMMA LoopDefaults ==
  ASSUME IInv, RoomInv, MapInv, MapInv', DefaultsInv, FormatNext \/ DefaultNext
  PROVE  DefaultsInv'
<1>1. UNCHANGED <<flash, gc>> /\ Stays
  BY QuietStepPlace DEF Quiet, FormatNext, DefaultNext, RoomInv, MapInv
<1>2. CASE FormatNext
  <2>1. phase = "format" /\ pc = "formatnext" /\ UNCHANGED <<missing, todo>> /\ gc.for = "none"
    BY <1>2 DEF FormatNext, IInv, PhaseInv
  <2>2. CASE todo # << >>
    <3>1. phase' = "format" /\ pc' = "erase"
      BY <1>2, <2>1, <2>2 DEF FormatNext
    <3> QED BY <1>1, <2>1, <3>1 DEF DefaultsInv
  <2>3. CASE todo = << >> /\ missing # {}
    <3>1. phase' = "default" /\ pc' = "default"
      BY <1>2, <2>3 DEF FormatNext
    <3>2. missing = Defaults
      BY <2>1, <2>3 DEF DefaultsInv
    <3> QED BY <1>1, <2>1, <3>1, <3>2 DEF DefaultsInv
  <2>4. CASE todo = << >> /\ missing = {}
    <3>1. phase' = "gccheck" /\ pc' = "gccheck"
      BY <1>2, <2>4 DEF FormatNext
    <3> QED BY <2>1, <2>4, <3>1 DEF DefaultsInv
  <2> QED BY <2>2, <2>3, <2>4
<1>3. CASE DefaultNext
  <2>1. phase = "default" /\ pc = "default" /\ gc.for = "none"
    BY <1>3 DEF DefaultNext, IInv, PhaseInv
  <2>2. \A k \in Defaults \ missing : Stored(k) = Default[k]
    BY <2>1 DEF DefaultsInv
  <2>3. CASE missing = {}
    <3>1. phase' = "gccheck" /\ pc' = "gccheck" /\ missing' = {}
      BY <1>3, <2>3 DEF DefaultNext
    <3> QED BY <3>1 DEF DefaultsInv
  <2>4. CASE missing # {}
    <3>1. PICK k \in missing : req' = [key |-> k, val |-> Default[k]] /\ missing' = missing \ {k}
      BY <1>3, <2>4 DEF DefaultNext
    <3>2. phase' = "default" /\ pc' = "new" /\ req'.key = k
      BY <1>3, <2>1, <2>4, <3>1 DEF DefaultNext
    <3>3. \A j \in Defaults : Stored(j)' = Stored(j)
      BY <1>1, SameMap, SameStored DEF Defaults
    <3>4. \A j \in Defaults \ missing' : Stored(j)' = Default[j] \/ j = req'.key
      BY <2>2, <3>1, <3>2, <3>3
    <3> QED BY <1>1, <2>1, <3>2, <3>4 DEF DefaultsInv
  <2> QED BY <2>3, <2>4
<1> QED BY <1>2, <1>3

(* The sectors are formatted, and the power comes back.                    *)
LEMMA FormatDefaults ==
  ASSUME IInv, RoomInv, MapInv, DefaultsInv, Erase \/ WriteHeader
  PROVE  DefaultsInv'
<1> USE DEF RoomInv, MapInv
<1>1. pc \in {"erase", "header"} /\ UNCHANGED <<phase, missing>>
  BY DEF Erase, WriteHeader, frames, loading
<1>0. pc' # "halted"
  BY DEF Erase, WriteHeader
<1>2. CASE phase = "format"
  <2>1. todo # << >> /\ Doomed = Head(todo)
    BY <1>1, <1>2 DEF IInv, GcInv, Doomed
  <2>2. Doomed \in Sectors /\ \A s \in Sectors : s # Doomed => flash'[s] = flash[s]
    BY FormatEffect
  <2>3. 1 - Doomed \in Sectors /\ 1 - Doomed # Doomed
    BY <2>2, Other
  <2>4. (\A s \in Sectors : ~flash'[s].ok) => \A s \in Sectors : ~flash[s].ok
    BY <1>2, <2>1, <2>2, <2>3 DEF LifeInv
  <2> QED BY <1>0, <1>1, <1>2, <2>4 DEF DefaultsInv
<1>3. CASE phase # "format"
  <2>1. phase # "default"
    BY <1>1 DEF DefaultsInv
  <2> QED BY <1>0, <1>1, <1>3, <2>1 DEF DefaultsInv
<1> QED BY <1>2, <1>3

LEMMA PowerDefaults ==
  ASSUME IInv, DefaultsInv, PowerOn \/ PowerOff
  PROVE  DefaultsInv'
<1>1. CASE PowerOff
  BY <1>1 DEF PowerOff, Lost, DefaultsInv
<1>2. CASE PowerOn
  <2>1. /\ phase' = "format" /\ pc' = "formatnext"
        /\ \A s \in Sectors : flash'[s].ok = flash[s].ok
        /\ missing' = IF {s \in Sectors : ~flash[s].ok} = Sectors THEN Defaults ELSE {}
    <3>1. flash' = [s \in Sectors |-> Reread(flash[s])] /\ TypeOK
      BY <1>2 DEF PowerOn, IInv
    <3>2. \A s \in Sectors : flash'[s].ok = flash[s].ok
      BY <3>1, RereadEffect
    <3> QED BY <1>2, <3>2 DEF PowerOn
  <2> QED BY <2>1 DEF DefaultsInv
<1> QED BY <1>1, <1>2

(* The others leave the defaults alone.                                    *)
LEMMA RestDefaults ==
  ASSUME IInv, RoomInv, MapInv, DefaultsInv, phase \notin {"format", "default"},
         Next, ~PowerOn
  PROVE  DefaultsInv'
<1>1. missing = {}
  BY DEF DefaultsInv
<1> SUFFICES /\ missing' = {} /\ phase' \notin {"format", "default"}
             /\ pc' = "halted" => phase' = "halted"
  BY DEF DefaultsInv
<1>2. CASE PowerOff
  BY <1>2 DEF PowerOff, Lost
<1>3. CASE Halt
  BY <1>3 DEF Halt, Lost
<1>4. CASE Erase \/ WriteHeader \/ UpdateSecStatus \/ PreWrite \/ WriteData \/ CommitWrite
           \/ PreDelete \/ Delete \/ MarkDirty \/ GcSector \/ GcRecord \/ Return \/ EndSet
  BY <1>1, <1>4 DEF Erase, WriteHeader, UpdateSecStatus, PreWrite, WriteData, CommitWrite,
     PreDelete, Delete, MarkDirty, GcSector, GcRecord, Return, EndSet, frames, loading
<1>5. CASE (GcStart \/ MoveAlloc \/ NewKv \/ FindOld \/ KvStart) /\ ~Halt
  BY <1>1, <1>5 DEF GcStart, MoveAlloc, NewKv, FindOld, KvStart, loading
<1>6. CASE GcCheck \/ KvEnd
  BY <1>1, <1>6 DEF GcCheck, KvEnd
<1>7. CASE KvCheck
  BY <1>1, <1>7 DEF KvCheck
<1>8. CASE \E k \in Keys : Get(k) /\ ~Halt
  BY <1>1, <1>8 DEF Get, frames, loading
<1>9. CASE \E k \in Keys, v \in Values \cup {None} : Call(k, v)
  BY <1>1, <1>9 DEF Call, loading
<1>10. ~FormatNext /\ ~DefaultNext
  BY DEF FormatNext, DefaultNext, IInv, PhaseInv
<1>11. CASE GcDone
  <2>1. gc.for \in {"new", "set", "gccheck", "kvcheck"}
    BY <1>11 DEF GcDone, IInv, PhaseInv, TypeOK
  <2>2. pc' # "halted"
    BY <1>11, <2>1 DEF GcDone, GcReturn
  <2> QED BY <1>1, <1>11, <2>2 DEF GcDone, loading
<1> QED BY <1>2, <1>3, <1>4, <1>5, <1>6, <1>7, <1>8, <1>9, <1>10, <1>11 DEF Next, Step

LEMMA NextDefaults ==
  ASSUME IInv, RoomInv, MapInv, MapInv', DefaultsInv, [Next]_vars
  PROVE  DefaultsInv'
<1>1. CASE UNCHANGED vars
  <2>1. MapNow' = MapNow
    BY <1>1 DEF vars, MapNow, Stored, Current, Replaced, ValueIn, Records, Addresses, At
  <2>2. \A k \in Defaults : Stored(k)' = Stored(k)
    BY <2>1, SameStored DEF Defaults
  <2>3. UNCHANGED <<flash, phase, missing, gc, pc, req>>
    BY <1>1 DEF vars
  <2> QED BY <2>2, <2>3 DEF DefaultsInv
<1>2. CASE Next /\ phase \notin {"format", "default"}
  BY <1>2, RestDefaults, PowerDefaults
<1>3. CASE Next /\ phase = "format"
  <2>1. pc \notin {"default", "new", "find", "done", "absent", "full", "status", "prewrite",
                   "data", "write", "predelete", "predirty", "movealloc", "delete", "dirty",
                   "endset", "gc", "gcnext", "gckv", "gccheck", "kvstart", "kvcheck", "kvend",
                   "idle"}
    BY <1>3, PhaseOfSteps DEF IInv, PhaseInv
  <2>2. FormatNext \/ Erase \/ WriteHeader \/ PowerOff
    BY <1>3, <2>1 DEF Next, Step, FormatNext, Erase, WriteHeader, DefaultNext, NewKv, FindOld,
       Return, UpdateSecStatus, PreWrite, WriteData, CommitWrite, PreDelete, Delete, MarkDirty,
       EndSet, GcStart, GcSector, GcRecord, GcDone, MoveAlloc, GcCheck, KvStart, KvCheck, KvEnd,
       PowerOn, Get, Call
  <2> QED BY <2>2, LoopDefaults, FormatDefaults, PowerDefaults
<1>4. CASE Next /\ phase = "default"
  <2>1. pc \in {"default", "new", "status", "prewrite", "data", "write"}
    BY <1>4 DEF DefaultsInv
  <2>2. DefaultNext \/ NewKv \/ UpdateSecStatus \/ PreWrite \/ WriteData \/ CommitWrite \/ PowerOff
    BY <1>4, <2>1 DEF Next, Step, FormatNext, Erase, WriteHeader, DefaultNext, NewKv, FindOld,
       Return, UpdateSecStatus, PreWrite, WriteData, CommitWrite, PreDelete, Delete, MarkDirty,
       EndSet, GcStart, GcSector, GcRecord, GcDone, MoveAlloc, GcCheck, KvStart, KvCheck, KvEnd,
       PowerOn, Get, Call
  <2> QED BY <1>4, <2>2, LoopDefaults, CreateDefaults, PowerDefaults
<1> QED BY <1>1, <1>2, <1>3, <1>4

------------------------------------------------------------------------------
(* What each step is to DurableMap.                                        *)

(* Nothing has happened, or the database went down: every default was      *)
(* created, the power was switched off or cut, or the assertion failed.    *)
Still == MapNow' = MapNow /\ AskNow' = AskNow /\ LifeNow' = LifeNow /\ UNCHANGED cuts
Completes == /\ LifeNow = "created" /\ LifeNow' = "down"
             /\ \A k \in Keys : Default[k] # None => MapNow[k] = Default[k]
             /\ MapNow' = MapNow /\ AskNow' = AskNow /\ UNCHANGED cuts
SwitchedOff == /\ LifeNow = "up" /\ LifeNow' = "down"
               /\ AskNow = None /\ AskNow' = None
               /\ MapNow' = MapNow /\ UNCHANGED cuts
CutOff == /\ MapNow' = MapNow /\ AskNow' = None /\ cuts' = cuts + 1
          /\ \/ LifeNow' = "down"
             \/ /\ LifeNow = "created" /\ LifeNow' = "created"
                /\ \A k \in Keys : MapNow[k] = None
Hangs == /\ cuts > 0 /\ LifeNow # "created" /\ LifeNow' = "down"
         /\ MapNow' = MapNow /\ AskNow' = None /\ UNCHANGED cuts
Down == Completes \/ SwitchedOff \/ CutOff \/ Hangs

LEMMA EffectiveType == Effective \in BOOLEAN
BY DEF Effective

LEMMA SameEffect ==
  ASSUME IInv, gc'.for = gc.for,
         pc \notin {"delete", "dirty", "endset", "done"} \/ gc.for # "none",
         pc' \notin {"delete", "dirty", "endset", "done"} \/ gc.for # "none",
         pc' \notin {"endset", "done"}
  PROVE  Effective' = Effective
<1>1. gc.for # "none" => pc \notin {"endset", "done"}
  BY DEF IInv, PhaseInv
<1> QED BY <1>1 DEF Effective

LEMMA SameAsk ==
  ASSUME req' = req, phase' = "default" <=> phase = "default", Effective' = Effective
  PROVE  AskNow' = AskNow
BY DEF AskNow

LEMMA NoAsk ==
  /\ req = NoReq => AskNow = None
  /\ req' = NoReq => AskNow' = None
  /\ phase = "default" => AskNow = None
  /\ phase' = "default" => AskNow' = None
BY DEF AskNow, NoReq

LEMMA NoCall ==
  ASSUME IInv, MapInv, phase \notin {"run", "default"} \/ pc = "idle"
  PROVE  req = NoReq
BY DEF MapInv, ValueInv, IInv, PhaseInv

LEMMA SameLife ==
  ASSUME LifeInv, LifeInv', UNCHANGED <<phase, missing>>,
         phase \in {"default", "gccheck", "kvcheck", "run"}
  PROVE  LifeNow' = LifeNow
BY DEF LifeInv, LifeNow

(* Past the formatting and the defaults the database is not being created. *)
LEMMA PastCreation ==
  ASSUME LifeInv, DefaultsInv, phase \in {"gccheck", "kvcheck", "halted"}
  PROVE  LifeNow = "down"
BY DEF LifeInv, DefaultsInv, LifeNow

LEMMA HaltDown ==
  ASSUME IInv, RoomInv', MapInv, MapInv', DefaultsInv, Halt, Stays, UNCHANGED cuts,
         phase \in {"gccheck", "kvcheck", "run"}
  PROVE  Down
<1>1. MapNow' = MapNow
  BY SameMap
<1>2. AskNow' = None
  BY NoAsk DEF Halt, Lost
<1>3. LifeNow' = "down"
  BY DEF Halt, Lost, LifeNow, MapInv, LifeInv
<1>4. cuts > 0
  <2>1. cuts # 0
    BY DEF RoomInv, NoCutInv, PowerQuiet, Halt
  <2> QED BY <2>1, Constant DEF IInv, TypeOK
<1>5. LifeNow # "created"
  BY DEF MapInv, LifeInv, DefaultsInv, LifeNow
<1> QED BY <1>1, <1>2, <1>3, <1>4, <1>5 DEF Down, Hangs

(* The writes that neither put a record in force nor end one.              *)
LEMMA WriteStill ==
  ASSUME IInv, MapInv, MapInv', Stays, UNCHANGED cuts,
         UpdateSecStatus \/ PreWrite \/ WriteData \/ MarkDirty \/ GcSector \/ KvCheck
  PROVE  Still
<1>1. MapNow' = MapNow
  BY SameMap
<1>2. /\ UNCHANGED <<phase, req, missing>> /\ gc'.for = gc.for
      /\ phase \in {"default", "gccheck", "kvcheck", "run"}
  <2>1. CASE UpdateSecStatus \/ PreWrite \/ WriteData
    <3>1. pc \in {"status", "prewrite", "data"}
      BY <2>1 DEF UpdateSecStatus, PreWrite, WriteData
    <3>2. UNCHANGED missing
      BY <2>1 DEF UpdateSecStatus, PreWrite, WriteData, frames, loading
    <3> QED BY <2>1, <3>1, <3>2, CreateStep, PhaseOfSteps
  <2>2. CASE MarkDirty
    BY <2>2, PhaseOfSteps DEF MarkDirty, loading
  <2>3. CASE GcSector
    <3>1. gc.for # "none" /\ gc'.for = gc.for
      BY <2>3 DEF GcSector, IInv, PhaseInv, TypeOK
    <3> QED BY <2>3, <3>1, PhaseOfSteps DEF GcSector, loading
  <2>4. CASE KvCheck
    BY <2>4, PhaseOfSteps DEF KvCheck
  <2> QED BY <2>1, <2>2, <2>3, <2>4
<1>3. LifeNow' = LifeNow
  BY <1>2, SameLife DEF MapInv
<1>4. AskNow' = AskNow
  <2>1. CASE phase = "kvcheck"
    BY <1>2, <2>1, NoAsk, NoCall
  <2>2. CASE UpdateSecStatus \/ PreWrite \/ WriteData
    <3>1. /\ pc \in {"status", "prewrite", "data"} /\ pc' \in {"prewrite", "data", "write"}
      BY <2>2 DEF UpdateSecStatus, PreWrite, WriteData
    <3> QED BY <1>2, <3>1, SameEffect, SameAsk
  <2>3. CASE MarkDirty /\ phase # "kvcheck"
    <3>1. CASE gc.for # "none" \/ pc = "predirty"
      <4>1. pc' \in {"movealloc", "status", "gckv"} /\ pc \in {"predirty", "dirty"}
        BY <2>3, <3>1 DEF MarkDirty
      <4> QED BY <1>2, <3>1, <4>1, SameEffect, SameAsk
    <3>2. CASE gc.for = "none" /\ pc # "predirty"
      <4>1. pc = "dirty" /\ pc' \in {"done", "endset"}
        BY <2>3, <3>2 DEF MarkDirty
      <4>2. Effective = TRUE /\ Effective' = TRUE
        BY <3>2, <4>1 DEF Effective
      <4> QED BY <1>2, <4>2, SameAsk
    <3> QED BY <3>1, <3>2
  <2>4. CASE GcSector
    <3>1. pc = "gcnext" /\ pc' \in {"gckv", "gcnext"}
      BY <2>4 DEF GcSector
    <3> QED BY <1>2, <3>1, SameEffect, SameAsk
  <2>5. CASE KvCheck
    <3>1. phase = "kvcheck"
      BY <2>5 DEF KvCheck, IInv, PhaseInv
    <3> QED BY <2>1, <3>1
  <2> QED BY <2>1, <2>2, <2>3, <2>4, <2>5
<1> QED BY <1>1, <1>3, <1>4 DEF Still

(* A sector is formatted: when the first of them gets a header the         *)
(* defaults are missing, or else there are none.                           *)
LEMMA FormatStill ==
  ASSUME IInv, MapInv, MapInv', DefaultsInv, Stays, UNCHANGED cuts, Erase \/ WriteHeader
  PROVE  Still \/ Down
<1>1. MapNow' = MapNow
  BY SameMap
<1>2. /\ pc \in {"erase", "header"} /\ pc' \in {"header", "formatnext", "gcnext"}
      /\ UNCHANGED <<phase, req, missing>>
  BY DEF Erase, WriteHeader, frames, loading
<1>3. CASE phase = "format"
  <2>1. todo # << >> /\ Doomed = Head(todo)
    BY <1>2, <1>3 DEF IInv, GcInv, Doomed
  <2>2. AskNow' = None /\ AskNow = None
    BY <1>2, <1>3, NoAsk, NoCall
  <2>3. Head(todo) \in Sectors /\ 1 - Head(todo) \in Sectors /\ 1 - Head(todo) # Head(todo)
    BY <1>3, <2>1 DEF MapInv, LifeInv, Sectors
  <2>4. /\ 1 - Head(todo) \in Sectors
        /\ flash'[1 - Head(todo)] = flash[1 - Head(todo)]
        /\ flash'[Head(todo)] = IF pc = "erase" THEN Erased ELSE Formatted
    BY <1>2, <2>1, <2>3 DEF Erase, WriteHeader, IInv, TypeOK
  <2>5. CASE missing # {}
    BY <1>1, <1>2, <1>3, <2>2, <2>5 DEF LifeNow, Still
  <2>6. CASE missing = {} /\ pc = "header"
    <3>1. flash'[Head(todo)].ok
      BY <2>4, <2>6 DEF Formatted
    <3>2. LifeNow' = "down"
      BY <1>2, <1>3, <2>3, <2>6, <3>1 DEF LifeNow
    <3>3. CASE \A s \in Sectors : ~flash[s].ok
      <4>1. LifeNow = "created"
        BY <1>3, <3>3 DEF LifeNow
      <4>2. Defaults = {}
        BY <1>3, <2>6, <3>3 DEF DefaultsInv
      <4>3. \A k \in Keys : Default[k] = None
        BY <4>2 DEF Defaults
      <4> QED BY <1>1, <2>2, <3>2, <4>1, <4>3 DEF Down, Completes
    <3>4. CASE ~\A s \in Sectors : ~flash[s].ok
      <4>1. LifeNow = "down"
        BY <1>3, <2>6, <3>4 DEF LifeNow
      <4> QED BY <1>1, <2>2, <3>2, <4>1 DEF Still
    <3> QED BY <3>3, <3>4
  <2>7. CASE missing = {} /\ pc = "erase"
    <3>1. flash[1 - Head(todo)].ok \/ \A s \in Sectors : ~flash[s].ok
      BY <1>3, <2>1 DEF MapInv, LifeInv
    <3>2. ~flash'[Head(todo)].ok
      BY <2>4, <2>7 DEF Erased
    <3>3. \A s \in Sectors : s = Head(todo) \/ s = 1 - Head(todo)
      BY <2>3 DEF Sectors
    <3>4. (\A s \in Sectors : ~flash'[s].ok) <=> \A s \in Sectors : ~flash[s].ok
      BY <2>3, <2>4, <3>1, <3>2, <3>3
    <3>5. LifeNow' = LifeNow
      BY <1>2, <1>3, <3>4 DEF LifeNow
    <3> QED BY <1>1, <2>2, <3>5 DEF Still
  <2> QED BY <1>2, <2>5, <2>6, <2>7
<1>4. CASE phase # "format"
  <2>1. gc.for # "none" /\ gc'.for = gc.for
    BY <1>2, <1>4 DEF Erase, WriteHeader, frames, IInv, GcInv, TypeOK
  <2>2. LifeNow' = LifeNow
    BY <1>2, <2>1, PhaseOfSteps, SameLife DEF MapInv
  <2>3. AskNow' = AskNow
    BY <1>2, <2>1, SameEffect, SameAsk
  <2> QED BY <1>1, <2>2, <2>3 DEF Still
<1> QED BY <1>3, <1>4

(* The steps that decide what to do next.                                  *)
LEMMA StartStill ==
  ASSUME IInv, RoomInv, RoomInv', MapInv, MapInv', DefaultsInv, Stays,
         UNCHANGED <<flash, cuts>>,
         FormatNext \/ DefaultNext \/ GcCheck \/ KvStart
  PROVE  Still \/ Down
<1>1. MapNow' = MapNow
  BY SameMap
<1>2. CASE FormatNext
  <2>1. /\ phase = "format" /\ UNCHANGED <<req, missing>> /\ phase' # "run"
        /\ phase' = "default" => missing # {}
    BY <1>2 DEF FormatNext, IInv, PhaseInv
  <2>2. AskNow' = None /\ AskNow = None
    BY <2>1, NoAsk, NoCall
  <2>3. LifeNow' = LifeNow
    BY <2>1 DEF LifeNow
  <2> QED BY <1>1, <2>2, <2>3 DEF Still
<1>3. CASE DefaultNext
  <2>1. phase = "default"
    BY <1>3 DEF DefaultNext, IInv, PhaseInv
  <2>2. CASE missing = {}
    <3>1. req' = NoReq /\ phase' = "gccheck" /\ missing' = {}
      BY <1>3, <2>2 DEF DefaultNext
    <3>2. LifeNow' = "down" /\ LifeNow = "created"
      BY <2>1, <3>1 DEF LifeNow, MapInv, LifeInv
    <3>3. pc = "default"
      BY <1>3 DEF DefaultNext
    <3>4. \A k \in Keys : Default[k] # None => MapNow[k] = Default[k]
      BY <2>1, <2>2, <3>3 DEF DefaultsInv, Defaults, MapNow
    <3> QED BY <1>1, <2>1, <3>1, <3>2, <3>4, NoAsk DEF Down, Completes
  <2>3. CASE missing # {}
    <3>1. phase' = "default"
      BY <1>3, <2>1, <2>3 DEF DefaultNext
    <3>2. LifeNow' = LifeNow
      BY <2>1, <3>1 DEF LifeNow
    <3> QED BY <1>1, <2>1, <3>1, <3>2, NoAsk DEF Still
  <2> QED BY <2>2, <2>3
<1>4. CASE GcCheck
  <2>1. phase = "gccheck" /\ phase' \in {"gccheck", "kvcheck"} /\ UNCHANGED <<req, missing>>
    BY <1>4 DEF GcCheck, IInv, PhaseInv
  <2>2. AskNow' = None /\ AskNow = None
    BY <2>1, NoAsk, NoCall
  <2>3. LifeNow' = LifeNow
    BY <2>1 DEF LifeNow
  <2> QED BY <1>1, <2>2, <2>3 DEF Still
<1>5. CASE KvStart
  <2>1. phase = "kvcheck"
    BY <1>5 DEF KvStart, IInv, PhaseInv
  <2>2. CASE oldest = None
    BY <1>5, <2>1, <2>2, HaltDown DEF KvStart
  <2>3. CASE oldest # None
    <3>1. UNCHANGED <<req, missing, phase>>
      BY <1>5, <2>3 DEF KvStart
    <3>2. AskNow' = None /\ AskNow = None
      BY <2>1, <3>1, NoAsk, NoCall
    <3>3. LifeNow' = LifeNow
      BY <2>1, <3>1 DEF LifeNow
    <3> QED BY <1>1, <3>2, <3>3 DEF Still
  <2> QED BY <2>2, <2>3
<1> QED BY <1>2, <1>3, <1>4, <1>5

LEMMA RequestStill ==
  ASSUME IInv, RoomInv, RoomInv', MapInv, MapInv', DefaultsInv, Stays,
         UNCHANGED <<flash, cuts>>,
         NewKv \/ FindOld \/ EndSet \/ (\E k \in Keys : Get(k))
  PROVE  Still \/ Down
<1>1. MapNow' = MapNow
  BY SameMap
<1>2. ASSUME UNCHANGED <<phase, req, missing>>, phase \in {"default", "run"},
             Effective' = Effective
      PROVE  Still
  BY <1>1, <1>2, SameAsk, SameLife DEF Still, MapInv
<1>3. CASE Halt
  <2>1. phase \in {"default", "run"}
    BY DEF NewKv, FindOld, EndSet, Get, IInv, PhaseInv
  <2>2. phase # "default"
    <3>1. phase' = "halted"
      BY <1>3 DEF Halt
    <3>2. phase = "default" => oldest # None /\ pc \notin {"find", "endset", "idle"}
      BY DEF RoomInv, ShapeInv, WalkInv, IInv, PhaseInv
    <3>3. phase = "default" => phase' = phase
      BY <3>2, NewRoom DEF NewKv, FindOld, EndSet, Get
    <3> QED BY <3>1, <3>3
  <2> QED BY <1>3, <2>1, <2>2, HaltDown
<1>4. CASE NewKv /\ ~Halt
  <2>1. /\ pc = "new" /\ phase \in {"default", "run"} /\ gc.for = "none"
        /\ UNCHANGED <<phase, req, missing>>
        /\ pc' \in {"status", "find", "gc", "default", "full"}
        /\ gc' = gc \/ gc' = [NoGc EXCEPT !.for = "new"]
    BY <1>4 DEF NewKv, loading, IInv, PhaseInv
  <2>2. gc'.for \in {"none", "new"}
    BY <2>1 DEF NoGc
  <2>3. Effective' = FALSE /\ Effective = FALSE
    BY <2>1, <2>2 DEF Effective
  <2> QED BY <1>2, <2>1, <2>3
<1>5. CASE FindOld /\ ~Halt
  <2>1. /\ pc = "find" /\ phase = "run" /\ gc.for = "none"
        /\ UNCHANGED <<phase, req, missing, gc>>
        /\ pc' \in {"absent", "delete", "status", "predelete"}
        /\ pc' = "delete" => req.val = None
    BY <1>5 DEF FindOld, loading, IInv, PhaseInv
  <2>2. Effective' = FALSE /\ Effective = FALSE
    BY <2>1 DEF Effective
  <2> QED BY <1>2, <2>1, <2>2
<1>6. CASE EndSet
  <2>1. /\ pc = "endset" /\ phase = "run" /\ UNCHANGED <<phase, req, missing>>
        /\ pc' = "done" \/ gc' = [NoGc EXCEPT !.for = "set"]
    BY <1>6 DEF EndSet, loading, IInv, PhaseInv
  <2>2. Effective' = TRUE /\ Effective = TRUE
    BY <2>1 DEF Effective, NoGc
  <2> QED BY <1>2, <2>1, <2>2
<1>7. ASSUME NEW k \in Keys, Get(k), ~Halt
      PROVE  Still
  <2>1. pc = "idle" /\ phase = "run" /\ UNCHANGED <<phase, pc, req, gc, missing>>
    BY <1>7 DEF Get, frames, loading, IInv, PhaseInv
  <2>2. Effective' = Effective
    BY <2>1 DEF Effective
  <2> QED BY <1>2, <2>1, <2>2
<1> QED BY <1>3, <1>4, <1>5, <1>6, <1>7

LEMMA GcStill ==
  ASSUME IInv, RoomInv, RoomInv', MapInv, MapInv', DefaultsInv, Stays,
         UNCHANGED <<flash, cuts>>,
         GcStart \/ GcRecord \/ GcDone \/ MoveAlloc
  PROVE  Still \/ Down
<1>1. MapNow' = MapNow
  BY SameMap
<1>2. ASSUME UNCHANGED <<phase, req, missing>>,
             phase \in {"default", "gccheck", "kvcheck", "run"},
             Effective' = Effective \/ phase \in {"gccheck", "kvcheck"}
      PROVE  Still
  <2>1. LifeNow' = LifeNow
    BY <1>2, SameLife DEF MapInv
  <2>2. AskNow' = AskNow
    BY <1>2, SameAsk, NoAsk, NoCall
  <2> QED BY <1>1, <2>1, <2>2 DEF Still
<1>3. CASE Halt
  <2>1. phase \in {"default", "gccheck", "kvcheck", "run"}
    <3>1. gc.for # "none" \/ pc = "movealloc"
      BY DEF GcStart, GcRecord, GcDone, MoveAlloc, IInv, PhaseInv
    <3> QED BY <3>1, PhaseOfSteps
  <2>2. phase # "default"
    BY DEF DefaultsInv, GcStart, GcRecord, GcDone, MoveAlloc
  <2> QED BY <1>3, <2>1, <2>2, HaltDown
<1>4. CASE GcStart /\ ~Halt
  <2>1. /\ pc = "gc" /\ pc' = "gcnext" /\ gc.for # "none" /\ gc'.for = gc.for
        /\ UNCHANGED <<phase, req, missing>>
    BY <1>4 DEF GcStart, loading, IInv, PhaseInv, TypeOK
  <2> QED BY <1>2, <2>1, SameEffect, PhaseOfSteps
<1>5. CASE GcRecord
  <2>1. /\ gc.for # "none" /\ gc'.for = gc.for /\ UNCHANGED <<phase, req>>
    BY <1>5, GcRecordTaken
  <2>2. /\ pc = "gckv" /\ pc' \in {"erase", "predelete", "movealloc"} /\ UNCHANGED missing
    BY <1>5 DEF GcRecord, loading
  <2> QED BY <1>2, <2>1, <2>2, SameEffect, PhaseOfSteps
<1>6. CASE GcDone
  <2>1. /\ pc = "gcnext" /\ gc.for \in {"new", "set", "gccheck", "kvcheck"} /\ gc' = NoGc
        /\ pc' = GcReturn /\ UNCHANGED <<phase, req, missing>>
    BY <1>6 DEF GcDone, loading, IInv, PhaseInv, TypeOK
  <2>2. CASE gc.for = "new"
    <3>1. pc' = "new" /\ gc'.for = "none"
      BY <2>1, <2>2 DEF GcReturn, NoGc
    <3>2. Effective' = FALSE /\ Effective = FALSE
      BY <2>1, <2>2, <3>1 DEF Effective
    <3> QED BY <1>2, <2>1, <2>2, <3>2, PhaseOfSteps
  <2>3. CASE gc.for = "set"
    <3>1. pc' = "done"
      BY <2>1, <2>3 DEF GcReturn
    <3>2. Effective' = TRUE /\ Effective = TRUE
      BY <2>3, <3>1 DEF Effective
    <3> QED BY <1>2, <2>1, <2>3, <3>2, PhaseOfSteps
  <2>4. CASE gc.for \in {"gccheck", "kvcheck"}
    <3>1. phase \in {"gccheck", "kvcheck"}
      BY <2>4 DEF IInv, PhaseInv
    <3> QED BY <1>2, <2>1, <3>1
  <2> QED BY <2>1, <2>2, <2>3, <2>4
<1>7. CASE MoveAlloc /\ ~Halt
  <2>1. /\ pc = "movealloc" /\ pc' \in {"gckv", "kvend", "delete", "status"}
        /\ UNCHANGED <<phase, req, gc, missing>>
        /\ gc.for # "none" \/ phase = "kvcheck"
    BY <1>7 DEF MoveAlloc, loading, IInv, PhaseInv, Moving
  <2> QED BY <1>2, <2>1, SameEffect, PhaseOfSteps
<1> QED BY <1>3, <1>4, <1>5, <1>6, <1>7

(* The power is cut or comes back.                                         *)
LEMMA PowerStill ==
  ASSUME IInv, RoomInv, MapInv, MapInv', DefaultsInv, Stays, PowerOn \/ PowerOff
  PROVE  Still \/ Down
<1>1. MapNow' = MapNow
  BY SameMap
<1>2. CASE PowerOn
  <2>1. /\ phase = "off" /\ phase' = "format" /\ UNCHANGED <<req, cuts>> /\ missing = {}
        /\ \A s \in Sectors : flash'[s].ok = flash[s].ok
        /\ missing' = IF \A s \in Sectors : ~flash[s].ok THEN Defaults ELSE {}
    <3>1. \A s \in Sectors : Reread(flash[s]).ok = flash[s].ok
      BY DEF Reread, IInv, TypeOK, Sector
    <3>2. {s \in Sectors : ~flash[s].ok} = Sectors <=> \A s \in Sectors : ~flash[s].ok
      OBVIOUS
    <3> QED BY <1>2, <3>1, <3>2 DEF PowerOn, DefaultsInv
  <2>2. AskNow' = None /\ AskNow = None
    BY <2>1, NoAsk, NoCall
  <2>3. LifeNow' = LifeNow
    BY <2>1 DEF LifeNow
  <2> QED BY <1>1, <2>1, <2>2, <2>3 DEF Still
<1>3. CASE PowerOff
  <2>1. /\ req' = NoReq /\ phase' = "off" /\ missing' = {} /\ UNCHANGED flash
        /\ AskNow' = None
    BY <1>3, NoAsk DEF PowerOff, Lost
  <2>2. LifeNow' = IF \A s \in Sectors : ~flash[s].ok THEN "created" ELSE "down"
    BY <2>1 DEF LifeNow
  <2>3. CASE pc = "idle"
    <3>1. phase = "run" /\ UNCHANGED cuts
      BY <1>3, <2>3 DEF PowerOff, IInv, PhaseInv
    <3>2. AskNow = None /\ LifeNow = "up" /\ LifeNow' = "down"
      BY <2>2, <2>3, <3>1, NoAsk, NoCall DEF LifeNow, MapInv, LifeInv
    <3> QED BY <1>1, <2>1, <3>1, <3>2 DEF Down, SwitchedOff
  <2>4. CASE pc = "halted"
    <3>1. phase = "halted" /\ UNCHANGED cuts
      BY <1>3, <2>4 DEF PowerOff, DefaultsInv
    <3>2. AskNow = None /\ LifeNow = "down" /\ LifeNow' = "down"
      BY <2>2, <3>1, NoAsk, NoCall, PastCreation DEF MapInv, LifeInv
    <3> QED BY <1>1, <2>1, <3>1, <3>2 DEF Still
  <2>5. CASE pc \notin {"idle", "halted"}
    <3>1. cuts' = cuts + 1
      BY <1>3, <2>5 DEF PowerOff
    <3>2. CASE ~\A s \in Sectors : ~flash[s].ok
      BY <1>1, <2>1, <2>2, <3>1, <3>2 DEF Down, CutOff
    <3>3. CASE \A s \in Sectors : ~flash[s].ok
      <4>1. phase \in {"off", "format"} /\ phase # "off"
        BY <1>3, <3>3 DEF PowerOff, MapInv, LifeInv, IInv, TypeOK
      <4>2. LifeNow = "created" /\ LifeNow' = "created"
        BY <2>2, <3>3, <4>1 DEF LifeNow
      <4>3. \A k \in Keys : MapNow[k] = None
        <5>1. \A s \in Sectors : flash[s].kv = << >>
          BY <3>3, Blanks DEF RoomInv, ShapeInv, LayoutInv
        <5>2. Addresses = {}
          <6>1. DOMAIN << >> = {}
            BY EmptySeq
          <6> QED BY <5>1, <6>1 DEF Addresses
        <5> QED BY <5>2 DEF MapNow, Stored, Current, Replaced, Records
      <4> QED BY <1>1, <2>1, <3>1, <4>2, <4>3 DEF Down, CutOff
    <3> QED BY <3>2, <3>3
  <2> QED BY <2>3, <2>4, <2>5
<1> QED BY <1>2, <1>3

(* A request is made.                                                      *)
LEMMA CallAsks ==
  ASSUME IInv, MapInv, MapInv', Stays, NEW k \in Keys, NEW v \in Values \cup {None},
         Call(k, v)
  PROVE  /\ AskNow = None /\ AskNow' = [key |-> k, val |-> v, done |-> FALSE]
         /\ MapNow' = MapNow /\ LifeNow = "up" /\ LifeNow' = "up"
<1>1. /\ pc = "idle" /\ phase = "run" /\ gc.for = "none" /\ UNCHANGED <<phase, gc>>
      /\ req' = [key |-> k, val |-> v] /\ pc' \in {"find", "new"}
  BY DEF Call, IInv, PhaseInv
<1>2. req' # NoReq
  BY <1>1, KvdbAssumption DEF NoReq
<1>3. Effective' = FALSE
  BY <1>1 DEF Effective
<1>4. AskNow = None
  BY <1>1, NoAsk, NoCall
<1>5. AskNow' = [key |-> k, val |-> v, done |-> FALSE]
  BY <1>1, <1>2, <1>3 DEF AskNow
<1> QED BY <1>1, <1>4, <1>5, SameMap DEF LifeNow

LEMMA Asking ==
  ASSUME IInv, MapInv, phase = "run", pc # "idle"
  PROVE  /\ AskNow = [key |-> req.key, val |-> req.val, done |-> Effective]
         /\ AskNow # None /\ AskNow.done = Effective /\ req.key \in Keys
         /\ AskNow.key = req.key /\ AskNow.val = req.val
<1>1. req.key \in Keys /\ req.val \in Values \cup {None} /\ Effective \in BOOLEAN
  BY EffectiveType DEF MapInv, ValueInv, IInv, TypeOK
<1>2. req # NoReq
  BY <1>1, KvdbAssumption DEF NoReq
<1> DEFINE asked == [key |-> req.key, val |-> req.val, done |-> Effective]
<1>3. AskNow = asked
  BY <1>2 DEF AskNow
<1>4. asked \in [key : Keys, val : Values \cup {None}, done : BOOLEAN]
  BY <1>1
<1>5. asked # None
  BY <1>4, RequestAssumption
<1>6. asked.key = req.key /\ asked.val = req.val /\ asked.done = Effective
  OBVIOUS
<1> QED BY <1>1, <1>3, <1>5, <1>6

LEMMA Answered ==
  ASSUME NEW k, NEW v
  PROVE  [[key |-> k, val |-> v, done |-> FALSE] EXCEPT !.done = TRUE]
            = [key |-> k, val |-> v, done |-> TRUE]
<1> DEFINE r == [key |-> k, val |-> v, done |-> FALSE]
           q == [key |-> k, val |-> v, done |-> TRUE]
           F == {"key", "val", "done"}
<1>1. r = [f \in F |-> r[f]] /\ q = [f \in F |-> q[f]]
  OBVIOUS
<1>2. r.key = k /\ r.val = v /\ q.key = k /\ q.val = v /\ q.done = TRUE
  OBVIOUS
<1> HIDE DEF r, q
<1>3. [r EXCEPT !.done = TRUE] = [f \in F |-> IF f = "done" THEN TRUE ELSE r[f]]
  BY <1>1
<1>4. \A f \in F : q[f] = IF f = "done" THEN TRUE ELSE r[f]
  BY <1>2
<1>5. [r EXCEPT !.done = TRUE] = q
  BY <1>1, <1>3, <1>4
<1> QED BY <1>5 DEF r, q

(* It is answered.                                                         *)
LEMMA ReturnAnswers ==
  ASSUME IInv, RoomInv, MapInv, MapInv', HeldInv, Stays, Return
  PROVE  /\ MapNow' = MapNow /\ LifeNow' = LifeNow /\ AskNow # None /\ AskNow' = None
         /\ AskNow.done \/ (AskNow.val = None /\ MapNow[AskNow.key] = None)
<1>1. /\ pc \in {"done", "absent"} /\ phase = "run" /\ phase' = "run" /\ req' = NoReq
      /\ src = None
  BY DEF Return, IInv, PhaseInv, SrcInv, RoomInv, ContentInv
<1>2. MapNow' = MapNow /\ LifeNow' = LifeNow /\ AskNow' = None
  BY <1>1, SameMap, NoAsk DEF LifeNow
<1>3. /\ AskNow # None /\ AskNow.done = Effective /\ req.key \in Keys
      /\ AskNow.key = req.key /\ AskNow.val = req.val
  BY <1>1, Asking
<1>4. CASE pc = "done"
  BY <1>2, <1>3, <1>4 DEF Effective
<1>5. CASE pc = "absent"
  <2>1. req.val = None /\ Unheld(req.key)
    BY <1>5 DEF HeldInv
  <2>2. Hidden = {}
    <3>1. Hidden \subseteq {None}
      BY <1>1 DEF MapInv, PlaceInv, HiddenInv
    <3> QED BY <3>1, Kinds DEF IInv
  <2>3. Stored(req.key) = None
    BY <1>3, <2>1, <2>2, StoredFacts DEF StoredInv
  <2> QED BY <1>2, <1>3, <2>1, <2>3 DEF MapNow
<1> QED BY <1>1, <1>4, <1>5

(* It takes effect.                                                        *)
Commits == /\ AskNow # None /\ ~AskNow.done
           /\ AskNow' = [AskNow EXCEPT !.done = TRUE]
           /\ MapNow' = [MapNow EXCEPT ![AskNow.key] = AskNow.val]
           /\ LifeNow' = LifeNow /\ UNCHANGED cuts
Provides == /\ LifeNow = "created"
            /\ \E k \in Keys : MapNow' = [MapNow EXCEPT ![k] = Default[k]]
            /\ AskNow' = AskNow /\ LifeNow' = LifeNow /\ UNCHANGED cuts

LEMMA CommitDoes ==
  ASSUME IInv, RoomInv, MapInv, MapInv', UNCHANGED cuts, CommitWrite
  PROVE  Still \/ Commits \/ Provides
<1>1. /\ pc = "write" /\ UNCHANGED <<phase, gc, req, missing>>
      /\ pc' = IF Moving THEN "delete"
               ELSE IF phase = "default" THEN "default"
               ELSE IF src # None THEN "delete" ELSE "endset"
      /\ Creating
  BY DEF CommitWrite, loading, Creating
<1>2. /\ put.key \in Keys /\ MapNow' = [MapNow EXCEPT ![put.key] = put.val]
      /\ Moving => MapNow' = MapNow
  BY CommitStored
<1>3. phase \in {"default", "gccheck", "kvcheck", "run"} /\ LifeNow' = LifeNow
  BY <1>1, PhaseOfSteps, SameLife DEF MapInv
<1>4. CASE Moving
  <2>1. AskNow' = AskNow
    <3>1. CASE gc.for # "none"
      <4>1. pc' = "delete"
        BY <1>1, <1>4
      <4> QED BY <1>1, <3>1, <4>1, SameEffect, SameAsk
    <3>2. CASE phase = "kvcheck"
      BY <1>1, <3>2, NoAsk, NoCall
    <3> QED BY <1>4, <3>1, <3>2 DEF Moving
  <2> QED BY <1>2, <1>3, <1>4, <2>1 DEF Still
<1>5. CASE ~Moving /\ phase = "default"
  <2>1. AskNow' = AskNow
    BY <1>1, <1>5, NoAsk
  <2>2. put.val = Default[put.key]
    BY <1>1, <1>5 DEF MapInv, ValueInv, Asked
  <2>3. LifeNow = "created"
    BY <1>5 DEF LifeNow
  <2> QED BY <1>2, <1>3, <2>1, <2>2, <2>3 DEF Provides
<1>6. CASE ~Moving /\ phase # "default"
  <2>1. phase = "run" /\ gc.for = "none"
    BY <1>1, <1>6 DEF IInv, PhaseInv, Moving
  <2>2. put.key = req.key /\ put.val = req.val /\ put.val \in Values
    BY <1>1, <1>6 DEF MapInv, ValueInv, Asked, IInv, PutInv, Ready
  <2>3. Effective = FALSE
    BY <1>1, <2>1 DEF Effective
  <2>4. Effective' = TRUE
    <3>1. req.val # None
      BY <2>2, KvdbAssumption
    <3> QED BY <1>1, <1>6, <2>1, <3>1 DEF Effective
  <2>5. /\ AskNow = [key |-> req.key, val |-> req.val, done |-> FALSE]
        /\ AskNow # None /\ AskNow.done = FALSE
        /\ AskNow.key = req.key /\ AskNow.val = req.val
    BY <1>1, <2>1, <2>3, Asking
  <2>6. AskNow' = [key |-> req.key, val |-> req.val, done |-> TRUE]
    <3>1. req # NoReq
      BY <2>5 DEF AskNow
    <3> QED BY <1>1, <2>1, <2>4, <3>1 DEF AskNow
  <2>7. AskNow' = [AskNow EXCEPT !.done = TRUE]
    BY <2>5, <2>6, Answered
  <2> QED BY <1>2, <1>3, <2>2, <2>5, <2>7 DEF Commits
<1> QED BY <1>4, <1>5, <1>6

LEMMA PreDeleteDoes ==
  ASSUME IInv, RoomInv, MapInv, MapInv', UNCHANGED cuts, PreDelete
  PROVE  Still
<1>1. /\ pc = "predelete" /\ pc' = "predirty" /\ UNCHANGED <<phase, gc, req, missing>>
  BY DEF PreDelete, frames, loading
<1>2. phase \in {"default", "gccheck", "kvcheck", "run"} /\ LifeNow' = LifeNow
  BY <1>1, PhaseOfSteps, SameLife DEF MapInv
<1>3. AskNow' = AskNow
  BY <1>1, SameEffect, SameAsk
<1> QED BY <1>2, <1>3, PreDeleteStored DEF Still

LEMMA DeleteDoes ==
  ASSUME IInv, RoomInv, MapInv, MapInv', HeldInv, UNCHANGED cuts, Delete
  PROVE  Still \/ Commits
<1>1. /\ pc = "delete" /\ pc' = "dirty" /\ UNCHANGED <<phase, gc, req, missing>>
  BY DEF Delete, frames, loading
<1>2. phase \in {"default", "gccheck", "kvcheck", "run"} /\ LifeNow' = LifeNow
  BY <1>1, PhaseOfSteps, SameLife DEF MapInv
<1>3. MapNow' = IF Deleting THEN [MapNow EXCEPT ![req.key] = None] ELSE MapNow
  BY DeleteStored
<1>4. CASE Deleting
  <2>1. Effective = FALSE /\ Effective' = TRUE
    BY <1>1, <1>4 DEF Deleting, Effective
  <2>2. /\ AskNow = [key |-> req.key, val |-> req.val, done |-> FALSE]
        /\ AskNow # None /\ AskNow.done = FALSE
        /\ AskNow.key = req.key /\ AskNow.val = req.val
    BY <1>1, <1>4, <2>1, Asking DEF Deleting
  <2>3. AskNow' = [key |-> req.key, val |-> req.val, done |-> TRUE]
    <3>1. req # NoReq /\ phase = "run"
      BY <1>4, <2>2 DEF AskNow, Deleting
    <3> QED BY <1>1, <2>1, <3>1 DEF AskNow
  <2>4. AskNow' = [AskNow EXCEPT !.done = TRUE]
    BY <2>2, <2>3, Answered
  <2> QED BY <1>2, <1>3, <1>4, <2>2, <2>4 DEF Commits, Deleting
<1>5. CASE ~Deleting
  <2>1. AskNow' = AskNow
    <3>1. CASE gc.for # "none"
      BY <1>1, <3>1, SameEffect, SameAsk
    <3>2. CASE phase \in {"default", "gccheck", "kvcheck"}
      BY <1>1, <3>2, NoAsk, NoCall
    <3>3. CASE gc.for = "none" /\ phase = "run"
      <4>1. Effective = TRUE /\ Effective' = TRUE
        BY <1>1, <1>5, <3>3 DEF Deleting, Effective
      <4> QED BY <1>1, <4>1, SameAsk
    <3> QED BY <1>2, <3>1, <3>2, <3>3
  <2> QED BY <1>2, <1>3, <1>5, <2>1 DEF Still
<1> QED BY <1>4, <1>5

(* The database is open.                                                   *)
Opens == /\ LifeNow = "down" /\ LifeNow' = "up"
         /\ AskNow' = AskNow /\ MapNow' = MapNow /\ UNCHANGED cuts

LEMMA KvEndDoes ==
  ASSUME IInv, MapInv, MapInv', DefaultsInv, Stays, KvEnd
  PROVE  Still \/ Opens
<1>1. phase = "kvcheck" /\ UNCHANGED <<flash, req, missing, cuts>>
  BY DEF KvEnd, IInv, PhaseInv
<1>2. MapNow' = MapNow /\ AskNow' = None /\ AskNow = None
  BY <1>1, SameMap, NoAsk, NoCall
<1>3. phase' = phase \/ phase' = "run"
  BY DEF KvEnd
<1>4. CASE phase' = phase
  BY <1>1, <1>2, <1>4 DEF LifeNow, Still
<1>5. CASE phase' = "run"
  BY <1>1, <1>2, <1>5, PastCreation DEF LifeNow, Opens, MapInv
<1> QED BY <1>3, <1>4, <1>5

------------------------------------------------------------------------------
(* The database implements DurableMap.                                     *)

LEMMA Steps ==
  ASSUME IInv, RoomInv, RoomInv', MapInv, MapInv', HeldInv, DefaultsInv, Next
  PROVE  \/ Still \/ Down \/ Commits \/ Provides \/ Opens
         \/ /\ MapNow' = MapNow /\ LifeNow' = LifeNow /\ UNCHANGED cuts
            /\ \/ /\ AskNow # None /\ AskNow' = None
                  /\ AskNow.done \/ (AskNow.val = None /\ MapNow[AskNow.key] = None)
               \/ /\ LifeNow = "up" /\ AskNow = None
                  /\ \E k \in Keys, v \in Values \cup {None} :
                        AskNow' = [key |-> k, val |-> v, done |-> FALSE]
<1> USE DEF MapInv
<1>0. ShapeInv /\ ContentInv
  BY DEF RoomInv
<1>1. CASE Quiet
  <2>1. Stays /\ UNCHANGED <<flash, cuts>>
    BY <1>0, <1>1, QuietStepPlace
  <2>2. CASE Return
    BY <2>1, <2>2, ReturnAnswers
  <2>3. ASSUME NEW k \in Keys, NEW v \in Values \cup {None}, Call(k, v)
        PROVE  /\ MapNow' = MapNow /\ LifeNow' = LifeNow /\ LifeNow = "up" /\ AskNow = None
               /\ AskNow' = [key |-> k, val |-> v, done |-> FALSE]
    BY <2>1, <2>3, CallAsks
  <2> QED BY <1>1, <2>1, <2>2, <2>3, StartStill, RequestStill, GcStill DEF Quiet
<1>2. CASE Erase \/ WriteHeader
  <2>1. Stays
    <3>1. pc \in {"erase", "header"}
      BY <1>2 DEF Erase, WriteHeader
    <3> QED BY <1>0, <1>2, <3>1, DoomedEmpty, StaysFormat
  <2>2. UNCHANGED cuts
    BY <1>2 DEF Erase, WriteHeader
  <2> QED BY <1>2, <2>1, <2>2, FormatStill
<1>3. CASE UpdateSecStatus \/ PreWrite \/ WriteData \/ MarkDirty \/ GcSector \/ KvCheck
  <2>1. Stays
    BY <1>0, <1>3, UpdateSecStatusPlace, PreWritePlace, WriteDataPlace, MarkDirtyPlace,
       GcSectorPlace, KvCheckPlace DEF ContentInv
  <2>2. UNCHANGED cuts
    BY <1>3 DEF UpdateSecStatus, PreWrite, WriteData, MarkDirty, GcSector, KvCheck
  <2> QED BY <1>3, <2>1, <2>2, WriteStill
<1>4. CASE CommitWrite \/ PreDelete \/ Delete
  <2>1. UNCHANGED cuts
    BY <1>4 DEF CommitWrite, PreDelete, Delete
  <2> QED BY <1>4, <2>1, CommitDoes, PreDeleteDoes, DeleteDoes
<1>5. CASE KvEnd
  <2>1. Stays
    <3>1. \A s \in Sectors : flash'[s].kv = flash[s].kv
      BY <1>5 DEF KvEnd
    <3> QED BY <3>1, StaysSame DEF IInv
  <2> QED BY <1>5, <2>1, KvEndDoes
<1>6. CASE PowerOn \/ PowerOff
  <2>1. Stays
    <3>1. CASE PowerOff
      <4>1. \A s \in Sectors : flash'[s].kv = flash[s].kv
        BY <3>1 DEF PowerOff
      <4> QED BY <4>1, StaysSame DEF IInv
    <3> QED BY <1>6, <3>1, StaysPowerOn
  <2> QED BY <1>6, <2>1, PowerStill
<1>7. Next => \/ Quiet \/ Erase \/ WriteHeader
              \/ UpdateSecStatus \/ PreWrite \/ WriteData \/ MarkDirty \/ GcSector \/ KvCheck
              \/ CommitWrite \/ PreDelete \/ Delete \/ KvEnd \/ PowerOn \/ PowerOff
  BY DEF Next, Step, Quiet
<1> QED BY <1>1, <1>2, <1>3, <1>4, <1>5, <1>6, <1>7

LEMMA StutterStill ==
  ASSUME UNCHANGED vars
  PROVE  Still
BY DEF vars, Still, MapNow, AskNow, LifeNow, Stored, Current, Replaced, ValueIn, Records,
       Addresses, At, Effective

(* Every answered call took effect and survives every later cut, a call    *)
(* that was cut off took effect whole or not at all, and the database that *)
(* opens first has every default unless a cut came between, as long as no  *)
(* third operation is cut off.                                             *)
THEOREM MapForTwoCuts ==
  ASSUME MaxCuts <= 2
  PROVE  Spec => MapSpec
<1>1. Init => Map!Init
  <2>1. SUFFICES ASSUME Init
                 PROVE  Map!Init
    OBVIOUS
  <2>2. req = NoReq /\ phase = "off" /\ cuts = 0 /\ \A s \in Sectors : ~flash[s].ok
    BY <2>1 DEF Init, Erased
  <2>3. \A k \in Keys : Stored(k) = None
    <3>1. Addresses = {}
      <4>1. DOMAIN << >> = {} /\ \A s \in Sectors : flash[s].kv = << >>
        BY <2>1, EmptySeq DEF Init, Erased
      <4> QED BY <4>1 DEF Addresses
    <3> QED BY <3>1 DEF Stored, Current, Replaced, Records
  <2> QED BY <2>2, <2>3 DEF Map!Init
<1>2. Init => HeldInv /\ DefaultsInv
  BY InitDefaults DEF Init, HeldInv
<1>3. IInv /\ RoomInv /\ MapInv /\ MapInv' /\ HeldInv /\ DefaultsInv /\ [Next]_vars
         => HeldInv' /\ DefaultsInv'
  BY NextHeld, NextDefaults
<1>4. IInv /\ RoomInv /\ RoomInv' /\ MapInv /\ MapInv' /\ HeldInv /\ DefaultsInv /\ [Next]_vars
         => [Map!Next]_(Map!mapVars)
  <2>1. SUFFICES ASSUME IInv, RoomInv, RoomInv', MapInv, MapInv', HeldInv, DefaultsInv,
                        [Next]_vars
                 PROVE  Map!Next \/ UNCHANGED Map!mapVars
    OBVIOUS
  <2>2. CASE Still
    BY <2>2 DEF Still, MapNow, AskNow, LifeNow, Map!mapVars
  <2>3. CASE Down
    <3>1. CASE Completes
      BY <3>1 DEF Completes, MapNow, AskNow, LifeNow, Map!Next, Map!Provided
    <3>2. CASE SwitchedOff
      BY <3>2 DEF SwitchedOff, MapNow, AskNow, LifeNow, Map!Next, Map!Off
    <3>3. CASE CutOff
      BY <3>3 DEF CutOff, MapNow, AskNow, LifeNow, Map!Next, Map!Cut
    <3>4. CASE Hangs
      BY <3>4 DEF Hangs, MapNow, AskNow, LifeNow, Map!Next, Map!Hang
    <3> QED BY <2>3, <3>1, <3>2, <3>3, <3>4 DEF Down
  <2>4. CASE Commits
    BY <2>4 DEF Commits, MapNow, AskNow, LifeNow, Map!Next, Map!Commit
  <2>5. CASE Provides
    BY <2>5 DEF Provides, MapNow, AskNow, LifeNow, Map!Next, Map!Provide
  <2>6. CASE Opens
    BY <2>6 DEF Opens, MapNow, AskNow, LifeNow, Map!Next, Map!Open
  <2>7. CASE /\ MapNow' = MapNow /\ LifeNow' = LifeNow /\ UNCHANGED cuts
             /\ AskNow # None /\ AskNow' = None
             /\ AskNow.done \/ (AskNow.val = None /\ MapNow[AskNow.key] = None)
    BY <2>7 DEF MapNow, AskNow, LifeNow, Map!Next, Map!Reply, Map!Absent
  <2>8. ASSUME MapNow' = MapNow, LifeNow' = LifeNow, UNCHANGED cuts, LifeNow = "up",
               AskNow = None,
               NEW k \in Keys, NEW v \in Values \cup {None},
               AskNow' = [key |-> k, val |-> v, done |-> FALSE]
        PROVE  Map!Next
    BY <2>8 DEF MapNow, AskNow, LifeNow, Map!Next, Map!Ask
  <2> QED BY <2>1, <2>2, <2>3, <2>4, <2>5, <2>6, <2>7, <2>8, Steps, StutterStill
<1> QED BY <1>1, <1>2, <1>3, <1>4, MapInvariant, PTL DEF Spec, MapSpec, Map!Spec

------------------------------------------------------------------------------
(* Nothing is programmed twice.                                            *)

(* The mark of a record, once it has another status, changes flash.        *)
LEMMA MarkChanges ==
  ASSUME TypeOK, NEW a \in Addresses, NEW r \in Record, flash' = Mark(a, r), At(a).st # r.st
  PROVE  flash' # flash
<1>1. flash'[a[1]].kv[a[2]] = r
  BY MarkFacts
<1> QED BY <1>1 DEF At

LEMMA RecordChanges ==
  ASSUME IInv, RoomInv, MapInv, WriteData \/ CommitWrite \/ PreDelete \/ Delete
  PROVE  flash' # flash
<1> USE DEF IInv
<1>1. Whole \subseteq Record
  BY DEF Record
<1>2. CASE WriteData
  <2>1. PICK r \in Whole : Last \in Addresses /\ At(Last) = Blank("PRE_WRITE") /\ flash' = Mark(Last, r)
    BY <1>2, WriteDataEffect
  <2>2. r.ok = TRUE /\ Blank("PRE_WRITE").ok = FALSE
    BY DEF Whole, Blank
  <2>3. flash'[Last[1]].kv[Last[2]] = r
    BY <1>1, <2>1, MarkFacts
  <2> QED BY <2>1, <2>2, <2>3 DEF At
<1>3. CASE CommitWrite
  <2>1. PICK r \in Whole : /\ Last \in Addresses /\ At(Last).st = "PRE_WRITE"
                           /\ flash' = Mark(Last, r) /\ r.st = "WRITE"
    BY <1>3, CommitWriteEffect
  <2> QED BY <1>1, <2>1, MarkChanges
<1>4. CASE PreDelete
  <2>1. PICK r \in Whole : src \in Addresses /\ flash' = Mark(src, r) /\ r.st = "PRE_DELETE"
    BY <1>4, PreDeleteEffect
  <2>2. At(src).st = "WRITE"
    BY <1>4 DEF PreDelete, MapInv, ForceInv, InForce
  <2> QED BY <1>1, <2>1, <2>2, MarkChanges
<1>5. CASE Delete
  <2>1. src \in Addresses /\ Dead \in Record /\ flash' = Mark(src, Dead) /\ src # None
    BY <1>5, DeleteEffect, OfAddress
  <2>2. At(src).st \in {"WRITE", "PRE_DELETE"} /\ Dead.st = "DELETED"
    BY <1>5, <2>1 DEF Delete, RoomInv, ContentInv, StatusInv, Live, Dead, Blank
  <2> QED BY <2>1, <2>2, MarkChanges
<1> QED BY <1>2, <1>3, <1>4, <1>5

(* Only the recovery finds a sector to collect that is marked already.     *)
LEMMA CollectsOnce ==
  ASSUME IInv, RoomInv, GcSector, pc' = "gckv"
  PROVE  flash' # flash \/ Resumed
<1> DEFINE s == Head(gc.rest)
<1>1. /\ pc = "gcnext" /\ s \in Sectors /\ flash[s].dirty \in {"TRUE", "GC"}
      /\ flash' = [flash EXCEPT ![s].dirty = "GC"]
  BY GcSectorEffect DEF GcSector
<1>2. CASE flash[s].dirty = "TRUE"
  <2>1. flash'[s].dirty = "GC"
    BY <1>1, SectorType DEF IInv, TypeOK, Sector
  <2> QED BY <1>2, <2>1
<1>3. CASE flash[s].dirty = "GC"
  <2>1. gc.for # "none" /\ ~Collecting
    BY <1>1 DEF IInv, PhaseInv, Collecting
  <2>2. phase = "gccheck"
    BY <1>1, <1>3, <2>1, PhaseOfSteps DEF RoomInv, ShapeInv, MarkedInv, FormatInv, Clean
  <2>3. cuts > 0
    <3>1. cuts # 0
      BY <1>1, <1>3, <2>2 DEF RoomInv, NoCutInv, RecoveryQuiet
    <3> QED BY <3>1, Constant DEF IInv, TypeOK
  <2> QED BY <1>3, <2>2, <2>3 DEF Resumed
<1> QED BY <1>1, <1>2, <1>3

LEMMA ProgramsOnce ==
  ASSUME IInv, RoomInv, MapInv, Programs
  PROVE  flash' # flash \/ Resumed
<1>1. CASE WriteHeader
  <2>1. flash[Doomed] = Erased /\ flash'[Doomed] = Formatted
    BY <1>1, FormatEffect
  <2>2. ~Erased.ok /\ Formatted.ok
    BY DEF Erased, Formatted
  <2> QED BY <2>1, <2>2
<1>2. CASE PreWrite
  <2>1. put.to \in Sectors /\ Len(flash'[put.to].kv) = Len(flash[put.to].kv) + 1
    BY <1>2, PreWriteEffect
  <2>2. Len(flash[put.to].kv) \in Nat
    BY <2>1, SectorType DEF IInv
  <2> QED BY <2>1, <2>2
<1> QED BY <1>1, <1>2, RecordChanges, CollectsOnce DEF Programs

(* Between two erasures no byte of flash is programmed twice but the mark  *)
(* of a collection that a cut interrupted, as long as no third operation   *)
(* is cut off.                                                             *)
THEOREM WriteOnceForTwoCuts ==
  ASSUME MaxCuts <= 2
  PROVE  Spec => WriteOnce
<1>1. IInv /\ RoomInv /\ MapInv /\ [Next]_vars
         => [ForwardOnly /\ (Programs => flash' # flash \/ Resumed)]_vars
  BY NextInv, ProgramsOnce DEF ForwardOnly
<1> QED BY <1>1, MapInvariant, PTL DEF Spec, WriteOnce
==============================================================================
