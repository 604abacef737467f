----------------------------- MODULE KvdbProofs ------------------------------
(***************************************************************************)
(* Proofs about Kvdb, for every set of keys and values, every size of a    *)
(* sector and any number of power cuts.                                    *)
(***************************************************************************)
EXTENDS Kvdb, TLAPS, SequenceTheorems, NaturalsInduction, WellFoundedInduction

------------------------------------------------------------------------------
(* The inductive invariant.                                                *)

(* A sector that was not used since its header was written is empty.       *)
SectorInv == \A s \in Sectors :
                flash[s].store \in {"UNUSED", "EMPTY"} => flash[s].kv = << >>

(* Which phase each step belongs to, and who collects garbage.             *)
PhaseInv ==
    /\ phase = "off" => pc = "off"
    /\ phase = "format" => oldest # None
    /\ pc \in {"off", "halted", "formatnext", "default", "idle", "new", "find",
               "done", "absent", "full", "endset", "gccheck", "kvstart",
               "kvcheck", "kvend"} => gc.for = "none"
    /\ pc \in {"gc", "gcnext", "gckv"} => gc.for # "none"
    /\ pc = "formatnext" => phase = "format"
    /\ pc = "default" => phase = "default"
    /\ pc = "gccheck" => phase = "gccheck"
    /\ pc \in {"kvstart", "kvcheck", "kvend"} => phase = "kvcheck"
    /\ pc \in {"idle", "find", "done", "absent", "full", "endset"}
          => phase = "run"
    /\ pc = "new" => phase \in {"default", "run"}
    /\ pc = "movealloc" => Moving
    /\ pc \in {"predelete", "predirty", "delete", "dirty"}
          => Moving \/ phase = "run"
    /\ pc \in {"status", "prewrite", "data", "write"}
          => Moving \/ phase \in {"default", "run"}
    /\ gc.for = "new" => phase \in {"default", "run"}
    /\ gc.for = "set" => phase = "run"
    /\ gc.for = "gccheck" => phase = "gccheck"
    /\ gc.for = "kvcheck" => phase = "kvcheck"

(* The sector that is formatted or collected is known.                     *)
GcInv ==
    /\ gc.for # "none" /\ pc \notin {"gc", "gcnext"} => gc.sec # None
    /\ gc.sec # None => gc.at >= 1
    /\ pc \in {"erase", "header"} =>
          IF phase = "format" THEN todo # << >> /\ gc.for = "none"
                              ELSE gc.for # "none"
    /\ pc = "header" => flash[Doomed] = Erased

(* The record replaced, moved or deleted is a whole one.                   *)
SrcInv ==
    /\ pc \notin {"predelete", "predirty", "movealloc", "status", "prewrite",
                  "data", "write", "delete", "dirty"} => src = None
    /\ pc \in {"predelete", "predirty", "movealloc", "delete", "dirty"}
          => src # None
    /\ pc \in {"predelete", "predirty", "movealloc"} => At(src) \in Whole
    /\ pc \in {"status", "prewrite", "data", "write"} =>
          /\ Moving => src # None
          /\ ~Moving /\ phase = "default" => src = None

(* The record being created or copied has a key and a value, and there is  *)
(* room for it in a sector.                                                *)
Ready == put.key \in Keys /\ put.val \in Values
Room(S) == /\ put.to \in Sectors
           /\ flash[put.to].store \in S
           /\ Len(flash[put.to].kv) < Slots

(* What the steps of create_kv_blob and move_kv rely on.                   *)
PutInv ==
    /\ pc = "new" \/ gc.for = "new" => req.key \in Keys /\ req.val \in Values
    /\ pc = "find" => req.key \in Keys
    /\ pc \in {"new", "status", "prewrite", "data", "write"} => Ready
    /\ pc \in {"predelete", "predirty"} /\ ~Moving => req.val # None
    /\ pc \in {"find", "predelete", "predirty"} /\ ~Moving /\ req.val # None
          => Ready /\ Room({"EMPTY", "USING"})
    /\ pc = "status" => Room({"EMPTY", "USING"})
    /\ pc = "prewrite" => Room({"USING", "FULL"})
    /\ pc \in {"data", "write"} => put.to \in Sectors /\ Len(flash[put.to].kv) > 0
    /\ pc = "data" => At(Last) = Blank("PRE_WRITE")
    /\ pc = "write" => At(Last) = [st |-> "PRE_WRITE", ok |-> TRUE,
                                   key |-> put.key, val |-> put.val]

IInv == TypeOK /\ SectorInv /\ PhaseInv /\ GcInv /\ SrcInv /\ PutInv

------------------------------------------------------------------------------
(* Constants, records and addresses.                                       *)

LEMMA Constant ==
  /\ None \notin Keys /\ None \notin Values /\ None \notin Sectors
  /\ None \notin SomeAddress
  /\ Default \in [Keys -> Values \cup {None}]
  /\ Slots \in Nat /\ Slots >= 1
  /\ MaxCuts \in Nat
<1>1. None \notin Keys \cup Values \cup Sectors \cup (Sectors \X Nat)
  BY KvdbAssumption DEF KvdbAssumption
<1>2. SomeAddress \subseteq Sectors \X Nat
  BY DEF SomeAddress
<1> QED BY <1>1, <1>2, KvdbAssumption DEF KvdbAssumption

LEMMA RecordFacts ==
  ASSUME NEW r \in Record
  PROVE  /\ r.key \in Keys \/ r.ok => r \in Whole
         /\ r \in Whole => /\ r.st \in Statuses /\ r.ok = TRUE
                           /\ r.key \in Keys /\ r.val \in Values
<1>1. CASE r \in Whole
  BY <1>1 DEF Whole
<1>2. CASE r = Dead
  <2>1. r.key = None /\ r.ok = FALSE
    BY <1>2 DEF Dead, Blank
  <2>2. r \notin Whole
    BY <2>1 DEF Whole
  <2> QED BY <2>1, <2>2, Constant
<1>3. CASE r = Blank("PRE_WRITE")
  <2>1. r.key = None /\ r.ok = FALSE
    BY <1>3 DEF Blank
  <2>2. r \notin Whole
    BY <2>1 DEF Whole
  <2> QED BY <2>1, <2>2, Constant
<1> QED BY <1>1, <1>2, <1>3 DEF Record

LEMMA SectorType ==
  ASSUME TypeOK, NEW s \in Sectors
  PROVE  /\ flash[s] \in Sector
         /\ flash[s].kv \in Seq(Record)
         /\ Len(flash[s].kv) \in Nat
         /\ Len(flash[s].kv) <= Slots
         /\ DOMAIN flash[s].kv = 1..Len(flash[s].kv)
BY DEF TypeOK, Sector

LEMMA InAddresses ==
  ASSUME TypeOK, NEW s \in Sectors, NEW i \in Nat, i >= 1, i <= Len(flash[s].kv)
  PROVE  <<s, i>> \in Addresses
<1>1. i \in DOMAIN flash[s].kv
  BY SectorType
<1> QED BY <1>1 DEF Addresses

LEMMA OfAddress ==
  ASSUME TypeOK, NEW a \in Addresses
  PROVE  /\ a[1] \in Sectors
         /\ a[2] \in 1..Len(flash[a[1]].kv)
         /\ a = <<a[1], a[2]>>
         /\ a \in SomeAddress
         /\ a # None
         /\ At(a) \in Record
<1>1. PICK s \in Sectors : a \in {s} \X DOMAIN flash[s].kv
  BY DEF Addresses
<1>2. /\ a = <<a[1], a[2]>> /\ a[1] = s
      /\ a[2] \in 1..Len(flash[s].kv) /\ Len(flash[s].kv) <= Slots
      /\ flash[s].kv \in Seq(Record) /\ Len(flash[s].kv) \in Nat
  BY <1>1, SectorType
<1>3. At(a) \in Record
  BY <1>2 DEF At
<1>4. a \in Sectors \X (1..Slots)
  BY <1>2, Constant
<1>5. a # None
  BY <1>4, Constant DEF SomeAddress
<1> QED BY <1>1, <1>2, <1>3, <1>4, <1>5 DEF SomeAddress

(* Changes of flash.                                                       *)
LEMMA SameRecords ==
  ASSUME \A s \in Sectors : flash'[s].kv = flash[s].kv
  PROVE  /\ Addresses' = Addresses
         /\ TypeOK => \A a \in Addresses : flash'[a[1]].kv[a[2]] = At(a)
<1>1. Addresses' = Addresses
  BY DEF Addresses
<1>2. ASSUME TypeOK, NEW a \in Addresses
      PROVE  flash'[a[1]].kv[a[2]] = At(a)
  BY <1>2, OfAddress DEF At
<1> QED BY <1>1, <1>2

LEMMA MarkFacts ==
  ASSUME TypeOK, NEW a \in Addresses, NEW r \in Record, flash' = Mark(a, r)
  PROVE  /\ flash' \in [Sectors -> Sector]
         /\ \A s \in Sectors : /\ flash'[s].ok = flash[s].ok
                               /\ flash'[s].store = flash[s].store
                               /\ flash'[s].dirty = flash[s].dirty
                               /\ Len(flash'[s].kv) = Len(flash[s].kv)
         /\ Addresses' = Addresses
         /\ \A b \in Addresses :
               flash'[b[1]].kv[b[2]] = IF b = a THEN r ELSE At(b)
<1>1. /\ a[1] \in Sectors
      /\ a[2] \in 1..Len(flash[a[1]].kv)
      /\ a = <<a[1], a[2]>>
  BY OfAddress
<1>2. /\ flash \in [Sectors -> Sector] /\ flash[a[1]] \in Sector
      /\ flash[a[1]].kv \in Seq(Record)
  BY <1>1, SectorType DEF TypeOK
<1> DEFINE new == [flash[a[1]].kv EXCEPT ![a[2]] = r]
<1>3. flash' = [flash EXCEPT ![a[1]] = [flash[a[1]] EXCEPT !.kv = new]]
  BY DEF Mark
<1>4. new \in Seq(Record) /\ Len(new) = Len(flash[a[1]].kv)
      /\ \A i \in 1..Len(flash[a[1]].kv) :
            new[i] = IF i = a[2] THEN r ELSE flash[a[1]].kv[i]
  BY <1>1, <1>2, ExceptSeq
<1> HIDE DEF new
<1>5. [flash[a[1]] EXCEPT !.kv = new] \in Sector
  BY <1>2, <1>4 DEF Sector
<1>6. flash' \in [Sectors -> Sector]
  BY <1>1, <1>2, <1>3, <1>5
<1>7. \A s \in Sectors : flash'[s] = IF s = a[1] THEN [flash[s] EXCEPT !.kv = new]
                                                ELSE flash[s]
  BY <1>1, <1>2, <1>3
<1>8. ASSUME NEW s \in Sectors
      PROVE  /\ flash'[s].ok = flash[s].ok
             /\ flash'[s].store = flash[s].store
             /\ flash'[s].dirty = flash[s].dirty
             /\ Len(flash'[s].kv) = Len(flash[s].kv)
  BY <1>2, <1>4, <1>7, SectorType DEF Sector
<1>9. \A s \in Sectors : DOMAIN flash'[s].kv = DOMAIN flash[s].kv
  BY <1>2, <1>4, <1>6, <1>7, <1>8, SectorType, LenProperties DEF Sector
<1>10. Addresses' = Addresses
  BY <1>9 DEF Addresses
<1>11. ASSUME NEW b \in Addresses
       PROVE  flash'[b[1]].kv[b[2]] = IF b = a THEN r ELSE At(b)
  <2>1. /\ b[1] \in Sectors
        /\ b[2] \in 1..Len(flash[b[1]].kv)
        /\ b = <<b[1], b[2]>>
    BY OfAddress
  <2>2. CASE b[1] = a[1]
    <3>1. flash'[b[1]].kv = new
      BY <2>1, <2>2, <1>2, <1>7 DEF Sector
    <3> QED BY <3>1, <2>1, <2>2, <1>1, <1>4 DEF At
  <2>3. CASE b[1] # a[1]
    BY <2>1, <2>3, <1>7 DEF At
  <2> QED BY <2>2, <2>3
<1> QED BY <1>6, <1>8, <1>10, <1>11

LEMMA RankType ==
  /\ \A x \in {"UNUSED", "EMPTY", "USING", "FULL"} : Rank(x) \in 1..4
  /\ \A x \in {"UNUSED", "FALSE", "TRUE", "GC"} : Rank(x) \in 1..4
BY DEF Rank

LEMMA SectorStays ==
  ASSUME TypeOK, NEW s \in Sectors
  PROVE  WritesOnce(flash[s], flash[s])
<1>1. Rank(flash[s].store) \in 1..4 /\ Rank(flash[s].dirty) \in 1..4
  BY SectorType, RankType DEF Sector
<1>2. Len(flash[s].kv) \in Nat
  BY SectorType
<1>3. \A i \in 1..Len(flash[s].kv) : Programmed(flash[s].kv[i], flash[s].kv[i])
  BY DEF Programmed
<1> QED BY <1>1, <1>2, <1>3 DEF WritesOnce

LEMMA MarkOnce ==
  ASSUME TypeOK, NEW a \in Addresses, NEW r \in Record, flash' = Mark(a, r),
         Programmed(At(a), r), NEW s \in Sectors
  PROVE  WritesOnce(flash[s], flash'[s])
<1>1. Rank(flash[s].store) \in 1..4 /\ Rank(flash[s].dirty) \in 1..4
  BY SectorType, RankType DEF Sector
<1>2. Len(flash[s].kv) \in Nat
  BY SectorType
<1>3. ASSUME NEW i \in 1..Len(flash[s].kv)
      PROVE  Programmed(flash[s].kv[i], flash'[s].kv[i])
  <2>1. <<s, i>> \in Addresses
    BY <1>2, InAddresses
  <2>2. flash'[s].kv[i] = IF <<s, i>> = a THEN r ELSE flash[s].kv[i]
    BY <2>1, MarkFacts DEF At
  <2> QED BY <2>1, <2>2 DEF Programmed, At
<1> QED BY <1>1, <1>2, <1>3, MarkFacts DEF WritesOnce

(* TypeOK apart from flash and what points into it.                        *)
FlashType == /\ flash \in [Sectors -> Sector]
             /\ \A s \in Sectors : Len(flash[s].kv) <= Slots
LogType ==
    /\ phase \in {"off", "format", "default", "gccheck", "kvcheck", "run",
                  "halted"}
    /\ oldest \in Sectors \cup {None}
    /\ gcRequest \in BOOLEAN /\ lastDel \in BOOLEAN /\ alreadyGc \in BOOLEAN
    /\ cache \in [Keys -> SomeAddress \cup {None}]
    /\ cuts \in 0..MaxCuts
CallType ==
    /\ req \in [key : Keys \cup {None}, val : Values \cup {None}]
    /\ put \in [key : Keys \cup {None}, val : Values \cup {None},
                to : Sectors \cup {None}, full : BOOLEAN]
    /\ missing \subseteq Defaults
GcType == gc \in [for : {"none", "new", "set", "gccheck", "kvcheck"},
                  rest : Seq(Sectors), sec : Sectors \cup {None},
                  at : Nat, trav : Nat]
ScanType == /\ scan \in [rest : Seq(Sectors), at : Nat]
            /\ todo \in Seq(Sectors)
SrcType == src \in Addresses \cup {None}

LEMMA TypeParts ==
  TypeOK <=> FlashType /\ LogType /\ CallType /\ GcType /\ ScanType /\ SrcType
BY DEF TypeOK, FlashType, LogType, CallType, GcType, ScanType, SrcType

LEMMA TypePartsNext ==
  FlashType' /\ LogType' /\ CallType' /\ GcType' /\ ScanType' /\ SrcType' => TypeOK'
BY DEF TypeOK, FlashType, LogType, CallType, GcType, ScanType, SrcType

LEMMA Same ==
  ASSUME UNCHANGED flash
  PROVE  /\ Addresses' = Addresses
         /\ FlashType => FlashType'
         /\ SectorInv => SectorInv'
<1>1. Addresses' = Addresses
  BY DEF Addresses
<1> QED BY <1>1 DEF FlashType, SectorInv

(* Constants that are records.                                             *)
LEMMA Blanks ==
  /\ NoReq \in [key : {None}, val : {None}]
  /\ NoPut \in [key : {None}, val : {None}, to : {None}, full : {FALSE}]
  /\ NoGc \in [for : {"none"}, rest : Seq(Sectors), sec : {None}, at : {0},
                trav : {0}]
  /\ NoScan \in [rest : Seq(Sectors), at : {0}]
  /\ EmptyCache \in [Keys -> {None}]
  /\ Erased \in Sector /\ Formatted \in Sector
  /\ Erased.kv = << >> /\ Formatted.kv = << >>
<1>1. << >> \in Seq(Sectors) /\ << >> \in Seq(Record)
  BY EmptySeq
<1>2. NoReq \in [key : {None}, val : {None}] /\ EmptyCache \in [Keys -> {None}]
  BY DEF NoReq, EmptyCache
<1>3. NoPut \in [key : {None}, val : {None}, to : {None}, full : {FALSE}]
  BY DEF NoPut
<1>4. NoGc \in [for : {"none"}, rest : Seq(Sectors), sec : {None}, at : {0},
                trav : {0}]
  BY <1>1 DEF NoGc
<1>5. NoScan \in [rest : Seq(Sectors), at : {0}]
  BY <1>1 DEF NoScan
<1>6. Erased \in Sector /\ Formatted \in Sector
      /\ Erased.kv = << >> /\ Formatted.kv = << >>
  BY <1>1 DEF Erased, Formatted, Sector
<1> QED BY <1>2, <1>3, <1>4, <1>5, <1>6

LEMMA OrderType ==
  ASSUME oldest \in Sectors
  PROVE  Order \in Seq(Sectors) /\ 1 - oldest \in Sectors
BY DEF Order, Sectors

(* The power goes, or the assertion fails.                                 *)
LEMMA LostFacts ==
  ASSUME IInv, Lost, UNCHANGED flash, pc' \in {"off", "halted"},
         phase' \in {"off", "halted"}, phase' = "off" => pc' = "off",
         cuts' \in 0..MaxCuts
  PROVE  IInv'
<1>1. FlashType' /\ SectorInv'
  BY Same, TypeParts DEF IInv
<1>2. LogType'
  BY Blanks, Constant DEF Lost, LogType, Sectors
<1>3. CallType'
  BY Blanks DEF Lost, CallType
<1>8. GcType'
  BY Blanks DEF Lost, GcType
<1>4. ScanType' /\ SrcType'
  BY Blanks, EmptySeq DEF Lost, ScanType, SrcType
<1>5. gc'.for = "none" /\ gc'.sec = None
  BY Blanks DEF Lost
<1>6. PhaseInv' /\ GcInv'
  BY <1>5 DEF PhaseInv, GcInv
<1>7. SrcInv' /\ PutInv'
  BY <1>5 DEF Lost, SrcInv, PutInv
<1> QED BY <1>1, <1>2, <1>3, <1>4, <1>6, <1>7, <1>8, TypePartsNext DEF IInv

LEMMA Collect ==
  ASSUME NEW f \in {"new", "set", "gccheck", "kvcheck"}
  PROVE  /\ [NoGc EXCEPT !.for = f] \in
               [for : {"none", "new", "set", "gccheck", "kvcheck"},
                rest : Seq(Sectors), sec : Sectors \cup {None},
                at : Nat, trav : Nat]
         /\ [NoGc EXCEPT !.for = f].for = f
         /\ [NoGc EXCEPT !.for = f].sec = None
BY EmptySeq DEF NoGc

LEMMA Created ==
  ASSUME NEW k \in Keys, NEW v \in Values
  PROVE  /\ ToCreate(k, v) \in
               [key : Keys \cup {None}, val : Values \cup {None},
                to : Sectors \cup {None}, full : BOOLEAN]
         /\ ToCreate(k, v).key = k /\ ToCreate(k, v).val = v
BY DEF ToCreate, NoPut

(* get_kv_from_cache and find_kv: what they find is a whole record.        *)
Below == {p \in Nat \X Nat : p[1] < p[2]}

LEMMA BelowWellFounded == IsWellFoundedOn(Below, Nat)
BY NatLessThanWellFounded DEF OpToRel, Below

LEMMA Least ==
  ASSUME NEW S \in SUBSET Nat, S # {}
  PROVE  \E i \in S : \A j \in S : i <= j
<1>1. PICK m \in S : \A n \in S : <<n, m>> \notin Below
  BY BelowWellFounded, WFMin
<1>2. \A n \in S : ~(n < m)
  BY <1>1 DEF Below
<1> QED BY <1>2

LEMMA LeastAddress ==
  ASSUME TypeOK, NEW S \in SUBSET Addresses, S # {}
  PROVE  \E a \in S : \A b \in S : a[2] <= b[2]
<1> DEFINE N == {a[2] : a \in S}
<1>1. N \in SUBSET Nat /\ N # {}
  BY OfAddress, SectorType
<1>2. PICK i \in N : \A j \in N : i <= j
  BY <1>1, Least
<1> QED BY <1>2

LEMMA HitFacts ==
  ASSUME TypeOK, NEW k \in Keys, Hit(k)
  PROVE  cache[k] \in Addresses /\ At(cache[k]) \in Whole
<1>1. cache[k] \in Addresses /\ At(cache[k]).key = k
  BY DEF Hit
<1> QED BY <1>1, OfAddress, RecordFacts

LEMMA RecordsFacts ==
  ASSUME TypeOK, NEW k \in Keys, NEW S, NEW a \in Records(k, S)
  PROVE  a \in Addresses /\ At(a) \in Whole /\ At(a).st \in S
<1>1. a \in Addresses /\ At(a).key = k /\ At(a).st \in S
  BY DEF Records
<1> QED BY <1>1, OfAddress, RecordFacts

LEMMA FindFacts ==
  ASSUME TypeOK, NEW k \in Keys, Find(k) # None
  PROVE  Find(k) \in Addresses /\ At(Find(k)) \in Whole
<1>1. CASE Hit(k)
  BY <1>1, HitFacts DEF Find
<1>2. CASE ~Hit(k)
  <2> DEFINE found == Records(k, {"WRITE"})
             here  == {a \in found : a[1] = oldest}
             among == IF here # {} THEN here ELSE found
  <2>1. Find(k) = IF found = {} THEN None
                  ELSE CHOOSE a \in among : \A b \in among : a[2] <= b[2]
    BY <1>2 DEF Find
  <2>2. among \in SUBSET Addresses /\ among \subseteq found
    BY RecordsFacts
  <2>3. found # {} /\ among # {}
    BY <2>1
  <2>4. \E a \in among : \A b \in among : a[2] <= b[2]
    BY <2>2, <2>3, LeastAddress
  <2> HIDE DEF among
  <2>5. Find(k) \in among
    BY <2>1, <2>3, <2>4
  <2> QED BY <2>5, <2>2, RecordsFacts
<1> QED BY <1>1, <1>2

(* alloc_kv: there is room where it says.                                  *)
LEMMA FirstIn ==
  ASSUME oldest \in Sectors, NEW S \in SUBSET Sectors, S # {}
  PROVE  First(S) \in S
<1>1. PICK s \in S : TRUE
  OBVIOUS
<1>2. s \in {0, 1} /\ oldest \in {0, 1}
  BY DEF Sectors
<1> QED BY <1>1, <1>2 DEF First

LEMMA AllocFacts ==
  ASSUME TypeOK, SectorInv, oldest # None, NEW g, Alloc(g) # None
  PROVE  /\ Alloc(g) \in Sectors
         /\ flash[Alloc(g)].store \in {"EMPTY", "USING"}
         /\ Len(flash[Alloc(g)].kv) < Slots
<1>1. oldest \in Sectors
  BY DEF TypeOK
<1>2. Usable(g) \in SUBSET Sectors /\ Empty \in SUBSET Sectors
  BY DEF Usable, Empty
<1>3. CASE Usable(g) # {}
  <2>1. Alloc(g) \in Usable(g)
    BY <1>1, <1>2, <1>3, FirstIn DEF Alloc
  <2> QED BY <2>1, SectorType, Constant DEF Usable, Remain
<1>4. CASE Usable(g) = {}
  <2>1. Empty # {} /\ Alloc(g) = First(Empty)
    BY <1>4 DEF Alloc
  <2>2. Alloc(g) \in Empty
    BY <2>1, <1>1, <1>2, FirstIn
  <2> QED BY <2>2, Constant, EmptySeq DEF Empty, SectorInv
<1> QED BY <1>3, <1>4

------------------------------------------------------------------------------
(* The steps that leave flash alone.                                       *)

LEMMA FormatNextStep ==
  ASSUME IInv, FormatNext
  PROVE  IInv' /\ UNCHANGED flash
<1> USE DEF FormatNext, ram, frames, loading
<1>0. FlashType /\ LogType /\ CallType /\ GcType /\ ScanType /\ SrcType
  BY TypeParts DEF IInv
<1>1. UNCHANGED flash
  OBVIOUS
<1>2. FlashType' /\ SectorInv' /\ Addresses' = Addresses
  BY <1>0, <1>1, Same DEF IInv
<1>5. LogType'
  BY <1>0, <1>1, OrderType
     DEF LogType
<1>6. CallType'
  BY <1>0, <1>1, OrderType
     DEF CallType
<1>7. GcType'
  BY <1>0, <1>1, OrderType
     DEF GcType
<1>8. ScanType'
  BY <1>0, <1>1, OrderType
     DEF ScanType, PhaseInv, IInv, LogType
<1>9. SrcType'
  BY <1>0, <1>1, OrderType, <1>2
     DEF SrcType
<1>10. PhaseInv'
  BY <1>0, <1>1, OrderType
     DEF IInv, PhaseInv, Moving, LogType
<1>11. GcInv'
  BY <1>0, <1>1, OrderType
     DEF IInv, GcInv, PhaseInv, SrcInv, Doomed, Moving, GcType
<1>12. SrcInv'
  BY <1>0, <1>1, OrderType
     DEF IInv, SrcInv, PhaseInv, Moving, At
<1>13. PutInv'
  BY <1>0, <1>1, OrderType
     DEF IInv, PutInv, PhaseInv, SrcInv, Ready, Room, At, Last, Moving
<1> QED BY <1>2, <1>5, <1>6, <1>7, <1>8, <1>9, <1>10, <1>11, <1>12, <1>13, TypePartsNext DEF IInv

LEMMA DefaultNextStep ==
  ASSUME IInv, DefaultNext
  PROVE  IInv' /\ UNCHANGED flash
<1> USE DEF DefaultNext, ram, frames, loading
<1>0. FlashType /\ LogType /\ CallType /\ GcType /\ ScanType /\ SrcType
  BY TypeParts DEF IInv
<1>1. UNCHANGED flash
  OBVIOUS
<1>2. FlashType' /\ SectorInv' /\ Addresses' = Addresses
  BY <1>0, <1>1, Same DEF IInv
<1>5. LogType'
  BY <1>0, <1>1, Constant, Blanks
     DEF LogType, Sectors
<1>6. CallType'
  <2>1. CASE missing = {}
    BY <1>0, <2>1, Blanks DEF CallType
  <2>2. CASE missing # {}
    <3>1. PICK k \in missing : /\ req' = [key |-> k, val |-> Default[k]]
                              /\ put' = ToCreate(k, Default[k])
                              /\ missing' = missing \ {k}
      BY <2>2
    <3>2. k \in Keys /\ Default[k] \in Values
      BY <1>0, Constant DEF CallType, Defaults
    <3> QED BY <1>0, <3>1, <3>2, Created DEF CallType
  <2> QED BY <2>1, <2>2
<1>7. GcType'
  BY <1>0, <1>1, Constant, Blanks
     DEF GcType
<1>8. ScanType'
  <2>1. <<0, 1>> \in Seq(Sectors)
    BY DEF Sectors
  <2>2. PICK q \in Seq(Sectors) : scan' = scan \/ scan' = [rest |-> q, at |-> 0]
    BY <2>1
  <2> QED BY <1>0, <2>2 DEF ScanType
<1>9. SrcType'
  BY <1>0, <1>1, Constant, Blanks, <1>2
     DEF SrcType
<1>10. PhaseInv'
  BY <1>0, <1>1, Constant, Blanks
     DEF IInv, PhaseInv, Moving
<1>11. GcInv'
  BY <1>0, <1>1, Constant, Blanks
     DEF IInv, GcInv, PhaseInv, SrcInv, Doomed, Moving, GcType
<1>12. SrcInv'
  BY <1>0, <1>1, Constant, Blanks
     DEF IInv, SrcInv, PhaseInv, Moving, At
<1>13. PutInv'
  <2>1. CASE missing = {}
    BY <1>0, <2>1 DEF IInv, PutInv, PhaseInv
  <2>2. CASE missing # {}
    <3>1. PICK k \in missing : /\ req' = [key |-> k, val |-> Default[k]]
                              /\ put' = ToCreate(k, Default[k])
      BY <2>2
    <3>2. k \in Keys /\ Default[k] \in Values
      BY <1>0, Constant DEF CallType, Defaults
    <3>3. Ready' /\ req'.key \in Keys /\ req'.val \in Values
      BY <3>1, <3>2, Created DEF Ready
    <3> QED BY <2>2, <3>3 DEF PutInv
  <2> QED BY <2>1, <2>2
<1> QED BY <1>2, <1>5, <1>6, <1>7, <1>8, <1>9, <1>10, <1>11, <1>12, <1>13, TypePartsNext DEF IInv

LEMMA NewKvStep ==
  ASSUME IInv, NewKv
  PROVE  IInv' /\ UNCHANGED flash
<1> USE DEF NewKv, ram, frames, loading
<1>0. FlashType /\ LogType /\ CallType /\ GcType /\ ScanType /\ SrcType
  BY TypeParts DEF IInv
<1>1. UNCHANGED flash
  OBVIOUS
<1>2. FlashType' /\ SectorInv' /\ Addresses' = Addresses
  BY <1>0, <1>1, Same DEF IInv
<1>3. CASE oldest = None
  BY <1>0, <1>1, <1>3, LostFacts DEF Halt, LogType
<1>4. CASE ~(oldest = None)
  <2>5. LogType'
    BY <1>0, <1>1, <1>4, Constant, Blanks, AllocFacts
       DEF LogType
  <2>6. CallType'
    <3>1. CASE Alloc(gcRequest) # None
      <4>1. Alloc(gcRequest) \in Sectors
        BY <1>4, <3>1, AllocFacts DEF IInv
      <4> QED BY <1>0, <1>4, <3>1, <4>1 DEF CallType
    <3>2. CASE Alloc(gcRequest) = None
      <4>1. UNCHANGED <<req, missing>> /\ put' \in {put, NoPut}
        BY <1>4, <3>2
      <4> QED BY <1>0, <4>1, Blanks DEF CallType
    <3> QED BY <3>1, <3>2
  <2>7. GcType'
    BY <1>0, <1>1, <1>4, Constant, Blanks, AllocFacts, Collect
       DEF GcType
  <2>8. ScanType'
    BY <1>0, <1>1, <1>4, Constant, Blanks, AllocFacts
       DEF ScanType
  <2>9. SrcType'
    BY <1>0, <1>1, <1>4, Constant, Blanks, AllocFacts, <1>2
       DEF SrcType
  <2>10. PhaseInv'
    BY <1>0, <1>1, <1>4, Constant, Blanks, AllocFacts
       DEF IInv, PhaseInv, Moving, GcType
  <2>11. GcInv'
    BY <1>0, <1>1, <1>4, Constant, Blanks, AllocFacts, Collect
       DEF IInv, GcInv, PhaseInv, SrcInv, Doomed, Moving, GcType
  <2>12. SrcInv'
    BY <1>0, <1>1, <1>4, Constant, Blanks, AllocFacts
       DEF IInv, SrcInv, PhaseInv, Moving, At
  <2>13. PutInv'
    BY <1>0, <1>1, <1>4, Constant, Blanks, AllocFacts
       DEF IInv, PutInv, PhaseInv, SrcInv, Ready, Room, At, Last, Moving, CallType, IInv
  <2> QED BY <1>2, <2>5, <2>6, <2>7, <2>8, <2>9, <2>10, <2>11, <2>12, <2>13, TypePartsNext DEF IInv
<1> QED BY <1>1, <1>3, <1>4

LEMMA FindOldStep ==
  ASSUME IInv, FindOld
  PROVE  IInv' /\ UNCHANGED flash
<1> USE DEF FindOld, ram, frames, loading
<1>0. FlashType /\ LogType /\ CallType /\ GcType /\ ScanType /\ SrcType
  BY TypeParts DEF IInv
<1>1. UNCHANGED flash
  OBVIOUS
<1>2. FlashType' /\ SectorInv' /\ Addresses' = Addresses
  BY <1>0, <1>1, Same DEF IInv
<1>3. CASE oldest = None /\ ~Hit(req.key)
  BY <1>0, <1>1, <1>3, LostFacts DEF Halt, LogType
<1>4. CASE ~(oldest = None /\ ~Hit(req.key))
  <2>5. LogType'
    BY <1>0, <1>1, <1>4, Constant, FindFacts, OfAddress
       DEF LogType, IInv, PutInv, CallType
  <2>6. CallType'
    BY <1>0, <1>1, <1>4, Constant, FindFacts
       DEF CallType
  <2>7. GcType'
    BY <1>0, <1>1, <1>4, Constant, FindFacts
       DEF GcType
  <2>8. ScanType'
    BY <1>0, <1>1, <1>4, Constant, FindFacts
       DEF ScanType
  <2>9. SrcType'
    BY <1>0, <1>1, <1>4, Constant, FindFacts, <1>2
       DEF SrcType, IInv, PutInv
  <2>10. PhaseInv'
    BY <1>0, <1>1, <1>4, Constant, FindFacts
       DEF IInv, PhaseInv, Moving
  <2>11. GcInv'
    BY <1>0, <1>1, <1>4, Constant, FindFacts
       DEF IInv, GcInv, PhaseInv, SrcInv, Doomed, Moving, GcType
  <2>12. SrcInv'
    BY <1>0, <1>1, <1>4, Constant, FindFacts
       DEF IInv, SrcInv, PhaseInv, Moving, At, PutInv
  <2>13. PutInv'
    BY <1>0, <1>1, <1>4, Constant, FindFacts
       DEF IInv, PutInv, PhaseInv, SrcInv, Ready, Room, At, Last, Moving
  <2> QED BY <1>2, <2>5, <2>6, <2>7, <2>8, <2>9, <2>10, <2>11, <2>12, <2>13, TypePartsNext DEF IInv
<1> QED BY <1>1, <1>3, <1>4

LEMMA ReturnStep ==
  ASSUME IInv, Return
  PROVE  IInv' /\ UNCHANGED flash
<1> USE DEF Return, ram, frames, loading
<1>0. FlashType /\ LogType /\ CallType /\ GcType /\ ScanType /\ SrcType
  BY TypeParts DEF IInv
<1>1. UNCHANGED flash
  OBVIOUS
<1>2. FlashType' /\ SectorInv' /\ Addresses' = Addresses
  BY <1>0, <1>1, Same DEF IInv
<1>5. LogType'
  BY <1>0, <1>1, Blanks
     DEF LogType
<1>6. CallType'
  BY <1>0, <1>1, Blanks
     DEF CallType
<1>7. GcType'
  BY <1>0, <1>1, Blanks
     DEF GcType
<1>8. ScanType'
  BY <1>0, <1>1, Blanks
     DEF ScanType
<1>9. SrcType'
  BY <1>0, <1>1, Blanks, <1>2
     DEF SrcType
<1>10. PhaseInv'
  BY <1>0, <1>1, Blanks
     DEF IInv, PhaseInv, Moving
<1>11. GcInv'
  BY <1>0, <1>1, Blanks
     DEF IInv, GcInv, PhaseInv, SrcInv, Doomed, Moving, GcType
<1>12. SrcInv'
  BY <1>0, <1>1, Blanks
     DEF IInv, SrcInv, PhaseInv, Moving, At
<1>13. PutInv'
  BY <1>0, <1>1, Blanks
     DEF IInv, PutInv, PhaseInv, SrcInv, Ready, Room, At, Last, Moving
<1> QED BY <1>2, <1>5, <1>6, <1>7, <1>8, <1>9, <1>10, <1>11, <1>12, <1>13, TypePartsNext DEF IInv

LEMMA EndSetStep ==
  ASSUME IInv, EndSet
  PROVE  IInv' /\ UNCHANGED flash
<1> USE DEF EndSet, ram, frames, loading
<1>0. FlashType /\ LogType /\ CallType /\ GcType /\ ScanType /\ SrcType
  BY TypeParts DEF IInv
<1>1. UNCHANGED flash
  OBVIOUS
<1>2. FlashType' /\ SectorInv' /\ Addresses' = Addresses
  BY <1>0, <1>1, Same DEF IInv
<1>5. LogType'
  BY <1>0, <1>1, Blanks
     DEF LogType
<1>6. CallType'
  BY <1>0, <1>1, Blanks
     DEF CallType
<1>7. GcType'
  BY <1>0, <1>1, Blanks, Collect
     DEF GcType
<1>8. ScanType'
  BY <1>0, <1>1, Blanks
     DEF ScanType
<1>9. SrcType'
  BY <1>0, <1>1, Blanks, <1>2
     DEF SrcType
<1>10. PhaseInv'
  BY <1>0, <1>1, Blanks, Collect
     DEF IInv, PhaseInv, Moving
<1>11. GcInv'
  BY <1>0, <1>1, Blanks, Collect
     DEF IInv, GcInv, PhaseInv, SrcInv, Doomed, Moving, GcType
<1>12. SrcInv'
  BY <1>0, <1>1, Blanks
     DEF IInv, SrcInv, PhaseInv, Moving, At
<1>13. PutInv'
  BY <1>0, <1>1, Blanks
     DEF IInv, PutInv, PhaseInv, SrcInv, Ready, Room, At, Last, Moving
<1> QED BY <1>2, <1>5, <1>6, <1>7, <1>8, <1>9, <1>10, <1>11, <1>12, <1>13, TypePartsNext DEF IInv

LEMMA GcStartStep ==
  ASSUME IInv, GcStart
  PROVE  IInv' /\ UNCHANGED flash
<1> USE DEF GcStart, ram, frames, loading
<1>0. FlashType /\ LogType /\ CallType /\ GcType /\ ScanType /\ SrcType
  BY TypeParts DEF IInv
<1>1. UNCHANGED flash
  OBVIOUS
<1>2. FlashType' /\ SectorInv' /\ Addresses' = Addresses
  BY <1>0, <1>1, Same DEF IInv
<1>3. CASE oldest = None
  BY <1>0, <1>1, <1>3, LostFacts DEF Halt, LogType
<1>4. CASE ~(oldest = None)
  <2>5. LogType'
    BY <1>0, <1>1, <1>4
       DEF LogType
  <2>6. CallType'
    BY <1>0, <1>1, <1>4
       DEF CallType
  <2>7. GcType'
    BY <1>0, <1>1, <1>4, OrderType, EmptySeq
       DEF GcType, LogType
  <2>8. ScanType'
    BY <1>0, <1>1, <1>4
       DEF ScanType
  <2>9. SrcType'
    BY <1>0, <1>1, <1>4, <1>2
       DEF SrcType
  <2>10. PhaseInv'
    BY <1>0, <1>1, <1>4
       DEF IInv, PhaseInv, Moving, GcType
  <2>11. GcInv'
    BY <1>0, <1>1, <1>4
       DEF IInv, GcInv, PhaseInv, SrcInv, Doomed, Moving, GcType
  <2>12. SrcInv'
    BY <1>0, <1>1, <1>4
       DEF IInv, SrcInv, PhaseInv, Moving, At
  <2>13. PutInv'
    BY <1>0, <1>1, <1>4
       DEF IInv, PutInv, PhaseInv, SrcInv, Ready, Room, At, Last, Moving, GcType
  <2> QED BY <1>2, <2>5, <2>6, <2>7, <2>8, <2>9, <2>10, <2>11, <2>12, <2>13, TypePartsNext DEF IInv
<1> QED BY <1>1, <1>3, <1>4

LEMMA GcRecordStep ==
  ASSUME IInv, GcRecord
  PROVE  IInv' /\ UNCHANGED flash
<1> USE DEF GcRecord, ram, frames, loading
<1>0. FlashType /\ LogType /\ CallType /\ GcType /\ ScanType /\ SrcType
  BY TypeParts DEF IInv
<1>1. UNCHANGED flash
  OBVIOUS
<1>2. FlashType' /\ SectorInv' /\ Addresses' = Addresses
  BY <1>0, <1>1, Same DEF IInv
<1> DEFINE live == {j \in gc.at..Len(flash[gc.sec].kv) :
                      LET r == At(<<gc.sec, j>>)
                      IN r.ok /\ r.st \in {"WRITE", "PRE_DELETE"}}
           i == CHOOSE j \in live : \A n \in live : j <= n
<1>3. gc.for # "none" /\ gc.sec \in Sectors /\ gc.at \in Nat /\ gc.at >= 1
  BY <1>0 DEF IInv, PhaseInv, GcInv, GcType
<1>4. CASE live = {}
  <2>1. pc' = "erase" /\ UNCHANGED <<src, gc>>
    BY <1>4
  <2>2. SrcType' /\ LogType' /\ CallType' /\ GcType' /\ ScanType'
    BY <1>0, <1>2, <2>1 DEF SrcType, LogType, CallType, GcType, ScanType
  <2>3. phase # "format"
    BY <1>0, <1>3 DEF IInv, PhaseInv, GcType
  <2>4. PhaseInv' /\ GcInv'
    BY <1>3, <2>1, <2>3 DEF IInv, PhaseInv, GcInv, Moving
  <2>5. SrcInv' /\ PutInv'
    BY <2>1 DEF IInv, SrcInv, PutInv
  <2> QED BY <1>2, <2>2, <2>4, <2>5, TypePartsNext DEF IInv
<1>13. CASE live # {}
  <2>1. src' = <<gc.sec, i>> /\ gc' = [gc EXCEPT !.at = i + 1]
        /\ pc' = IF At(<<gc.sec, i>>).st = "WRITE" THEN "predelete"
                                                   ELSE "movealloc"
    BY <1>13
  <2>2. live \in SUBSET Nat
    BY <1>3, SectorType DEF IInv
  <2>3. i \in live
    BY <1>13, <2>2, Least
  <2>4. i \in Nat /\ i >= 1 /\ i <= Len(flash[gc.sec].kv)
        /\ At(<<gc.sec, i>>).ok
    BY <1>3, <2>2, <2>3, SectorType DEF IInv
  <2> HIDE DEF i, live
  <2>5. <<gc.sec, i>> \in Addresses
    BY <1>3, <2>4, InAddresses DEF IInv
  <2>6. src' \in Addresses' /\ src' # None
    BY <1>2, <2>1, <2>5, OfAddress DEF IInv
  <2>7. At(src)' \in Whole
    BY <1>1, <2>1, <2>4, <2>5, OfAddress, RecordFacts DEF IInv, At
  <2>8. LogType' /\ CallType' /\ ScanType' /\ SrcType'
    BY <1>0, <2>6 DEF LogType, CallType, ScanType, SrcType
  <2> HIDE DEF GcRecord
  <2>9. GcType' /\ gc'.for = gc.for /\ gc'.sec = gc.sec /\ gc'.at >= 1
    <3>1. i + 1 \in Nat /\ i + 1 >= 1
      BY <2>4
    <3> QED BY <1>0, <2>1, <3>1 DEF GcType
  <2>10. PhaseInv' /\ GcInv'
    BY <1>3, <2>1, <2>9 DEF GcRecord, IInv, PhaseInv, GcInv, Moving
  <2>11. SrcInv'
    BY <2>1, <2>6, <2>7 DEF SrcInv
  <2>12. PutInv'
    BY <1>3, <2>1, <2>9 DEF GcRecord, IInv, PutInv, Moving
  <2> QED BY <1>1, <1>2, <2>8, <2>9, <2>10, <2>11, <2>12, TypePartsNext DEF IInv
<1> QED BY <1>1, <1>4, <1>13

LEMMA GcDoneStep ==
  ASSUME IInv, GcDone
  PROVE  IInv' /\ UNCHANGED flash
<1> USE DEF GcDone, ram, frames, loading
<1>0. FlashType /\ LogType /\ CallType /\ GcType /\ ScanType /\ SrcType
  BY TypeParts DEF IInv
<1>1. UNCHANGED flash
  OBVIOUS
<1>2. FlashType' /\ SectorInv' /\ Addresses' = Addresses
  BY <1>0, <1>1, Same DEF IInv
<1>5. LogType'
  BY <1>0, <1>1, Constant, Blanks
     DEF LogType, GcReturn, GcType
<1>6. CallType'
  BY <1>0, <1>1, Constant, Blanks
     DEF CallType, ToCreate, IInv, PutInv, GcReturn, GcType
<1>7. GcType'
  BY <1>0, <1>1, Constant, Blanks
     DEF GcType, GcReturn, GcType
<1>8. ScanType'
  BY <1>0, <1>1, Constant, Blanks
     DEF ScanType, GcReturn, GcType
<1>9. SrcType'
  BY <1>0, <1>1, Constant, Blanks, <1>2
     DEF SrcType, GcReturn, GcType
<1>10. PhaseInv'
  BY <1>0, <1>1, Constant, Blanks
     DEF IInv, PhaseInv, Moving, GcReturn, GcType
<1>11. GcInv'
  BY <1>0, <1>1, Constant, Blanks
     DEF IInv, GcInv, PhaseInv, SrcInv, Doomed, Moving, GcType, GcReturn, GcType
<1>12. SrcInv'
  BY <1>0, <1>1, Constant, Blanks
     DEF IInv, SrcInv, PhaseInv, Moving, At, GcReturn, GcType
<1>13. PutInv'
  BY <1>0, <1>1, Constant, Blanks
     DEF IInv, PutInv, PhaseInv, SrcInv, Ready, Room, At, Last, Moving, ToCreate, CallType, NoPut, GcReturn, GcType
<1> QED BY <1>2, <1>5, <1>6, <1>7, <1>8, <1>9, <1>10, <1>11, <1>12, <1>13, TypePartsNext DEF IInv

LEMMA MoveAllocStep ==
  ASSUME IInv, MoveAlloc
  PROVE  IInv' /\ UNCHANGED flash
<1> USE DEF MoveAlloc, ram, frames, loading
<1>0. FlashType /\ LogType /\ CallType /\ GcType /\ ScanType /\ SrcType
  BY TypeParts DEF IInv
<1>1. UNCHANGED flash
  OBVIOUS
<1>2. FlashType' /\ SectorInv' /\ Addresses' = Addresses
  BY <1>0, <1>1, Same DEF IInv
<1>3. CASE oldest = None
  BY <1>0, <1>1, <1>3, LostFacts DEF Halt, LogType
<1>4. CASE ~(oldest = None)
  <2>1. src \in Addresses /\ At(src) \in Whole
    BY <1>0, Constant DEF IInv, SrcInv, SrcType
  <2>2. At(src).key \in Keys /\ At(src).val \in Values
    BY <2>1, OfAddress, RecordFacts DEF IInv
  <2>3. Alloc(gcRequest) # None =>
            /\ Alloc(gcRequest) \in Sectors
            /\ flash[Alloc(gcRequest)].store \in {"EMPTY", "USING"}
            /\ Len(flash[Alloc(gcRequest)].kv) < Slots
    BY <1>4, AllocFacts DEF IInv
  <2>4. \/ put' = put /\ pc' \in {"gckv", "kvend", "delete"}
        \/ /\ put' = [key |-> At(src).key, val |-> At(src).val,
                       to |-> Alloc(gcRequest), full |-> FALSE]
           /\ Alloc(gcRequest) # None /\ pc' = "status"
    BY <1>4
  <2>5. LogType'
    BY <1>0, <1>1, <1>4, Constant
       DEF LogType, Raised
  <2>6. CallType'
    <3>1. UNCHANGED <<req, missing>>
      BY <1>4
    <3>2. CASE put' = put
      BY <1>0, <3>1, <3>2 DEF CallType
    <3>3. CASE put' = [key |-> At(src).key, val |-> At(src).val,
                       to |-> Alloc(gcRequest), full |-> FALSE]
               /\ Alloc(gcRequest) # None
      <4>1. put' \in [key : Keys \cup {None}, val : Values \cup {None},
                      to : Sectors \cup {None}, full : BOOLEAN]
        BY <2>2, <2>3, <3>3
      <4> QED BY <1>0, <3>1, <4>1 DEF CallType
    <3> QED BY <2>4, <3>2, <3>3
  <2>7. GcType'
    BY <1>0, <1>1, <1>4, Constant
       DEF GcType
  <2>8. ScanType'
    BY <1>0, <1>1, <1>4, Constant
       DEF ScanType
  <2>9. SrcType'
    BY <1>0, <1>1, <1>4, Constant, <1>2
       DEF SrcType
  <2>10. PhaseInv'
    BY <1>0, <1>1, <1>4, Constant
       DEF IInv, PhaseInv, Moving
  <2>11. GcInv'
    BY <1>0, <1>1, <1>4, Constant
       DEF IInv, GcInv, PhaseInv, SrcInv, Doomed, Moving, GcType
  <2>12. SrcInv'
    BY <1>0, <1>1, <1>4, Constant
       DEF IInv, SrcInv, PhaseInv, Moving, At
  <2>13. PutInv'
    BY <1>0, <1>1, <1>4, <2>2, <2>3, <2>4 DEF IInv, PutInv, Ready, Room, Moving
  <2> QED BY <1>2, <2>5, <2>6, <2>7, <2>8, <2>9, <2>10, <2>11, <2>12, <2>13, TypePartsNext DEF IInv
<1> QED BY <1>1, <1>3, <1>4

LEMMA GcCheckStep ==
  ASSUME IInv, GcCheck
  PROVE  IInv' /\ UNCHANGED flash
<1> USE DEF GcCheck, ram, frames, loading
<1>0. FlashType /\ LogType /\ CallType /\ GcType /\ ScanType /\ SrcType
  BY TypeParts DEF IInv
<1>1. UNCHANGED flash
  OBVIOUS
<1>2. FlashType' /\ SectorInv' /\ Addresses' = Addresses
  BY <1>0, <1>1, Same DEF IInv
<1>5. LogType'
  BY <1>0, <1>1, Constant
     DEF LogType
<1>6. CallType'
  BY <1>0, <1>1, Constant
     DEF CallType
<1>7. GcType'
  BY <1>0, <1>1, Constant, Collect
     DEF GcType
<1>8. ScanType'
  <2>1. CASE scan.rest = << >>
    BY <1>0, <2>1 DEF ScanType
  <2>2. CASE scan.rest # << >>
    <3>1. scan' = [scan EXCEPT !.rest = Tail(scan.rest)] /\ UNCHANGED todo
      BY <2>2
    <3>2. Tail(scan.rest) \in Seq(Sectors)
      BY <1>0, <2>2, HeadTailProperties DEF ScanType
    <3> QED BY <1>0, <3>1, <3>2 DEF ScanType
  <2> QED BY <2>1, <2>2
<1>9. SrcType'
  BY <1>0, <1>1, Constant, <1>2
     DEF SrcType
<1>10. PhaseInv'
  BY <1>0, <1>1, Constant, Collect
     DEF IInv, PhaseInv, Moving
<1>11. GcInv'
  BY <1>0, <1>1, Constant, Collect
     DEF IInv, GcInv, PhaseInv, SrcInv, Doomed, Moving, GcType
<1>12. SrcInv'
  BY <1>0, <1>1, Constant
     DEF IInv, SrcInv, PhaseInv, Moving, At
<1>13. PutInv'
  BY <1>0, <1>1, Constant, Collect
     DEF IInv, PutInv, PhaseInv, SrcInv, Ready, Room, At, Last, Moving
<1> QED BY <1>2, <1>5, <1>6, <1>7, <1>8, <1>9, <1>10, <1>11, <1>12, <1>13, TypePartsNext DEF IInv

LEMMA KvStartStep ==
  ASSUME IInv, KvStart
  PROVE  IInv' /\ UNCHANGED flash
<1> USE DEF KvStart, ram, frames, loading
<1>0. FlashType /\ LogType /\ CallType /\ GcType /\ ScanType /\ SrcType
  BY TypeParts DEF IInv
<1>1. UNCHANGED flash
  OBVIOUS
<1>2. FlashType' /\ SectorInv' /\ Addresses' = Addresses
  BY <1>0, <1>1, Same DEF IInv
<1>3. CASE oldest = None
  BY <1>0, <1>1, <1>3, LostFacts DEF Halt, LogType
<1>4. CASE ~(oldest = None)
  <2>5. LogType'
    BY <1>0, <1>1, <1>4
       DEF LogType
  <2>6. CallType'
    BY <1>0, <1>1, <1>4
       DEF CallType
  <2>7. GcType'
    BY <1>0, <1>1, <1>4
       DEF GcType
  <2>8. ScanType'
    BY <1>0, <1>1, <1>4, OrderType
       DEF ScanType, LogType
  <2>9. SrcType'
    BY <1>0, <1>1, <1>4, <1>2
       DEF SrcType
  <2>10. PhaseInv'
    BY <1>0, <1>1, <1>4
       DEF IInv, PhaseInv, Moving
  <2>11. GcInv'
    BY <1>0, <1>1, <1>4
       DEF IInv, GcInv, PhaseInv, SrcInv, Doomed, Moving, GcType
  <2>12. SrcInv'
    BY <1>0, <1>1, <1>4
       DEF IInv, SrcInv, PhaseInv, Moving, At
  <2>13. PutInv'
    BY <1>0, <1>1, <1>4
       DEF IInv, PutInv, PhaseInv, SrcInv, Ready, Room, At, Last, Moving
  <2> QED BY <1>2, <2>5, <2>6, <2>7, <2>8, <2>9, <2>10, <2>11, <2>12, <2>13, TypePartsNext DEF IInv
<1> QED BY <1>1, <1>3, <1>4

LEMMA KvEndStep ==
  ASSUME IInv, KvEnd
  PROVE  IInv' /\ UNCHANGED flash
<1> USE DEF KvEnd, ram, frames, loading
<1>0. FlashType /\ LogType /\ CallType /\ GcType /\ ScanType /\ SrcType
  BY TypeParts DEF IInv
<1>1. UNCHANGED flash
  OBVIOUS
<1>2. FlashType' /\ SectorInv' /\ Addresses' = Addresses
  BY <1>0, <1>1, Same DEF IInv
<1>5. LogType'
  BY <1>0, <1>1, Blanks
     DEF LogType
<1>6. CallType'
  BY <1>0, <1>1, Blanks
     DEF CallType
<1>7. GcType'
  BY <1>0, <1>1, Blanks, Collect
     DEF GcType
<1>8. ScanType'
  BY <1>0, <1>1, Blanks
     DEF ScanType
<1>9. SrcType'
  BY <1>0, <1>1, Blanks, <1>2
     DEF SrcType
<1>10. PhaseInv'
  BY <1>0, <1>1, Blanks, Collect
     DEF IInv, PhaseInv, Moving
<1>11. GcInv'
  BY <1>0, <1>1, Blanks, Collect
     DEF IInv, GcInv, PhaseInv, SrcInv, Doomed, Moving, GcType
<1>12. SrcInv'
  BY <1>0, <1>1, Blanks
     DEF IInv, SrcInv, PhaseInv, Moving, At
<1>13. PutInv'
  BY <1>0, <1>1, Blanks
     DEF IInv, PutInv, PhaseInv, SrcInv, Ready, Room, At, Last, Moving
<1> QED BY <1>2, <1>5, <1>6, <1>7, <1>8, <1>9, <1>10, <1>11, <1>12, <1>13, TypePartsNext DEF IInv

LEMMA CallStep ==
  ASSUME IInv, NEW k \in Keys, NEW v \in Values \cup {None}, Call(k, v)
  PROVE  IInv' /\ UNCHANGED flash
<1> USE DEF Call, ram, frames, loading
<1>0. FlashType /\ LogType /\ CallType /\ GcType /\ ScanType /\ SrcType
  BY TypeParts DEF IInv
<1>1. UNCHANGED flash
  OBVIOUS
<1>2. FlashType' /\ SectorInv' /\ Addresses' = Addresses
  BY <1>0, <1>1, Same DEF IInv
<1>5. LogType'
  BY <1>0, <1>1, Constant
     DEF LogType
<1>6. CallType'
  BY <1>0, <1>1, Constant
     DEF CallType, ToCreate, NoPut
<1>7. GcType'
  BY <1>0, <1>1, Constant
     DEF GcType
<1>8. ScanType'
  BY <1>0, <1>1, Constant
     DEF ScanType
<1>9. SrcType'
  BY <1>0, <1>1, Constant, <1>2
     DEF SrcType
<1>10. PhaseInv'
  BY <1>0, <1>1, Constant
     DEF IInv, PhaseInv, Moving
<1>11. GcInv'
  BY <1>0, <1>1, Constant
     DEF IInv, GcInv, PhaseInv, SrcInv, Doomed, Moving, GcType
<1>12. SrcInv'
  BY <1>0, <1>1, Constant
     DEF IInv, SrcInv, PhaseInv, Moving, At
<1>13. PutInv'
  BY <1>0, <1>1, Constant
     DEF IInv, PutInv, PhaseInv, SrcInv, Ready, Room, At, Last, Moving, ToCreate, NoPut
<1> QED BY <1>2, <1>5, <1>6, <1>7, <1>8, <1>9, <1>10, <1>11, <1>12, <1>13, TypePartsNext DEF IInv

LEMMA GetStep ==
  ASSUME IInv, NEW k \in Keys, Get(k)
  PROVE  IInv' /\ UNCHANGED flash
<1> USE DEF Get, ram, frames, loading
<1>0. FlashType /\ LogType /\ CallType /\ GcType /\ ScanType /\ SrcType
  BY TypeParts DEF IInv
<1>1. UNCHANGED flash
  OBVIOUS
<1>2. FlashType' /\ SectorInv' /\ Addresses' = Addresses
  BY <1>0, <1>1, Same DEF IInv
<1>3. CASE oldest = None /\ ~Hit(k)
  BY <1>0, <1>1, <1>3, LostFacts DEF Halt, LogType
<1>4. CASE ~(oldest = None /\ ~Hit(k))
  <2>5. LogType'
    BY <1>0, <1>1, <1>4, Constant, FindFacts, OfAddress
       DEF LogType, IInv
  <2>6. CallType'
    BY <1>0, <1>1, <1>4, Constant, FindFacts
       DEF CallType
  <2>7. GcType'
    BY <1>0, <1>1, <1>4, Constant, FindFacts
       DEF GcType
  <2>8. ScanType'
    BY <1>0, <1>1, <1>4, Constant, FindFacts
       DEF ScanType
  <2>9. SrcType'
    BY <1>0, <1>1, <1>4, Constant, FindFacts, <1>2
       DEF SrcType
  <2>10. PhaseInv'
    BY <1>0, <1>1, <1>4, Constant, FindFacts
       DEF IInv, PhaseInv, Moving
  <2>11. GcInv'
    BY <1>0, <1>1, <1>4, Constant, FindFacts
       DEF IInv, GcInv, PhaseInv, SrcInv, Doomed, Moving, GcType
  <2>12. SrcInv'
    BY <1>0, <1>1, <1>4, Constant, FindFacts
       DEF IInv, SrcInv, PhaseInv, Moving, At
  <2>13. PutInv'
    BY <1>0, <1>1, <1>4, Constant, FindFacts
       DEF IInv, PutInv, PhaseInv, SrcInv, Ready, Room, At, Last, Moving
  <2> QED BY <1>2, <2>5, <2>6, <2>7, <2>8, <2>9, <2>10, <2>11, <2>12, <2>13, TypePartsNext DEF IInv
<1> QED BY <1>1, <1>3, <1>4

------------------------------------------------------------------------------
(* Changes of flash: the status words of a sector, a new header, a new     *)
(* record.                                                                 *)
LEMMA MarkType ==
  ASSUME TypeOK, SectorInv, NEW a \in Addresses, NEW r \in Record,
         flash' = Mark(a, r)
  PROVE  /\ FlashType' /\ SectorInv'
         /\ SrcType /\ UNCHANGED src => SrcType'
<1>1. FlashType'
  BY MarkFacts, SectorType DEF FlashType
<1>2. ASSUME NEW s \in Sectors, flash'[s].store \in {"UNUSED", "EMPTY"}
      PROVE  flash'[s].kv = << >>
  <2>1. Len(flash'[s].kv) = 0
    BY <1>2, MarkFacts, EmptySeq DEF SectorInv
  <2>2. flash'[s].kv \in Seq(Record)
    BY <1>1 DEF FlashType, Sector
  <2> QED BY <2>1, <2>2, EmptySeq
<1> QED BY <1>1, <1>2, MarkFacts DEF SectorInv, SrcType

LEMMA StatusFacts ==
  ASSUME TypeOK, SectorInv, NEW x \in Sectors,
         NEW st \in {"UNUSED", "EMPTY", "USING", "FULL"},
         NEW d \in {"UNUSED", "FALSE", "TRUE", "GC"},
         flash' = [flash EXCEPT ![x] = [flash[x] EXCEPT !.store = st, !.dirty = d]],
         Rank(st) >= Rank(flash[x].store), Rank(d) >= Rank(flash[x].dirty),
         st \in {"USING", "FULL"} \/ st = flash[x].store
  PROVE  /\ FlashType' /\ SectorInv' /\ Addresses' = Addresses
         /\ \A s \in Sectors : flash'[s].kv = flash[s].kv
         /\ \A s \in Sectors : s # x => flash'[s] = flash[s]
         /\ flash'[x].store = st
         /\ \A a \in Addresses : flash'[a[1]].kv[a[2]] = At(a)
         /\ \A s \in Sectors : WritesOnce(flash[s], flash'[s])
<1>1. flash \in [Sectors -> Sector] /\ flash[x] \in Sector
  BY SectorType DEF TypeOK
<1> DEFINE new == [flash[x] EXCEPT !.store = st, !.dirty = d]
<1>2. /\ new \in Sector /\ new.kv = flash[x].kv /\ new.ok = flash[x].ok
      /\ new.store = st /\ new.dirty = d
  BY <1>1 DEF Sector
<1>3. flash' = [flash EXCEPT ![x] = new]
  OBVIOUS
<1> HIDE DEF new
<1>4. \A s \in Sectors : flash'[s] = IF s = x THEN new ELSE flash[s]
  BY <1>1, <1>3
<1>5. \A s \in Sectors : flash'[s].kv = flash[s].kv
  BY <1>2, <1>4
<1>6. FlashType'
  BY <1>1, <1>2, <1>3, <1>5, SectorType DEF FlashType
<1>7. SectorInv'
  BY <1>2, <1>4 DEF SectorInv
<1>8. Addresses' = Addresses /\ \A a \in Addresses : flash'[a[1]].kv[a[2]] = At(a)
  BY <1>5, SameRecords
<1>9. ASSUME NEW s \in Sectors PROVE WritesOnce(flash[s], flash'[s])
  <2>1. CASE s # x
    BY <1>4, <2>1, SectorStays
  <2>2. CASE s = x
    <3>1. \A i \in 1..Len(flash[s].kv) : Programmed(flash[s].kv[i], new.kv[i])
      BY <1>2, <2>2 DEF Programmed
    <3>2. Len(new.kv) >= Len(flash[s].kv)
      BY <1>2, <2>2, SectorType
    <3> QED BY <1>2, <1>4, <2>2, <3>1, <3>2 DEF WritesOnce
  <2> QED BY <2>1, <2>2
<1> QED BY <1>2, <1>4, <1>5, <1>6, <1>7, <1>8, <1>9

LEMMA FormatFacts ==
  ASSUME TypeOK, SectorInv, NEW x \in Sectors, NEW e \in {Erased, Formatted},
         e = Formatted => flash[x] = Erased,
         flash' = [flash EXCEPT ![x] = e]
  PROVE  /\ FlashType' /\ SectorInv' /\ flash'[x] = e
         /\ \A s \in Sectors : WritesOnce(flash[s], flash'[s])
<1>1. flash \in [Sectors -> Sector] /\ e \in Sector /\ e.kv = << >>
  BY Blanks DEF TypeOK
<1>2. \A s \in Sectors : flash'[s] = IF s = x THEN e ELSE flash[s]
  BY <1>1
<1>3. Len(e.kv) = 0
  BY <1>1, EmptySeq
<1>4. FlashType' /\ SectorInv'
  BY <1>1, <1>2, <1>3, SectorType, Constant DEF FlashType, SectorInv
<1>5. ASSUME NEW s \in Sectors PROVE WritesOnce(flash[s], flash'[s])
  <2>1. CASE s # x
    BY <1>2, <2>1, SectorStays
  <2>2. CASE s = x
    BY <1>2, <2>2 DEF WritesOnce
  <2> QED BY <2>1, <2>2
<1> QED BY <1>2, <1>4, <1>5

LEMMA AppendFacts ==
  ASSUME TypeOK, SectorInv, NEW x \in Sectors, NEW r \in Record,
         Len(flash[x].kv) < Slots, flash[x].store \in {"USING", "FULL"},
         flash' = [flash EXCEPT ![x] = [flash[x] EXCEPT !.kv = Append(flash[x].kv, r)]]
  PROVE  /\ FlashType' /\ SectorInv'
         /\ Addresses \subseteq Addresses'
         /\ Len(flash'[x].kv) = Len(flash[x].kv) + 1
         /\ flash'[x].kv[Len(flash'[x].kv)] = r
         /\ \A s \in Sectors : WritesOnce(flash[s], flash'[s])
<1>1. /\ flash \in [Sectors -> Sector] /\ flash[x] \in Sector
      /\ flash[x].kv \in Seq(Record) /\ Len(flash[x].kv) \in Nat
  BY SectorType DEF TypeOK
<1> DEFINE kv == Append(flash[x].kv, r)
           new == [flash[x] EXCEPT !.kv = kv]
<1>2. /\ kv \in Seq(Record) /\ Len(kv) = Len(flash[x].kv) + 1
      /\ kv[Len(flash[x].kv) + 1] = r
      /\ \A i \in 1..Len(flash[x].kv) : kv[i] = flash[x].kv[i]
      /\ DOMAIN kv = 1..Len(kv)
  BY <1>1, AppendProperties, LenProperties
<1>3. flash' = [flash EXCEPT ![x] = new]
  OBVIOUS
<1> HIDE DEF kv
<1>4. /\ new \in Sector /\ new.kv = kv /\ new.ok = flash[x].ok
      /\ new.store = flash[x].store /\ new.dirty = flash[x].dirty
  BY <1>1, <1>2 DEF Sector
<1> HIDE DEF new
<1>5. \A s \in Sectors : flash'[s] = IF s = x THEN new ELSE flash[s]
  BY <1>1, <1>3
<1>6. FlashType'
  <2>1. flash' \in [Sectors -> Sector]
    BY <1>1, <1>3, <1>4
  <2>2. Len(kv) <= Slots
    BY <1>1, <1>2, Constant
  <2>3. \A s \in Sectors : Len(flash'[s].kv) <= Slots
    BY <2>2, <1>4, <1>5, SectorType
  <2> QED BY <2>1, <2>3 DEF FlashType
<1>7. SectorInv'
  BY <1>4, <1>5 DEF SectorInv
<1>8. \A s \in Sectors : DOMAIN flash[s].kv \subseteq DOMAIN flash'[s].kv
  BY <1>1, <1>2, <1>4, <1>5, SectorType
<1>9. Addresses \subseteq Addresses'
  BY <1>8 DEF Addresses
<1>10. ASSUME NEW s \in Sectors PROVE WritesOnce(flash[s], flash'[s])
  <2>1. CASE s # x
    BY <1>5, <2>1, SectorStays
  <2>2. CASE s = x
    <3>1. \A i \in 1..Len(flash[s].kv) : Programmed(flash[s].kv[i], new.kv[i])
      BY <1>2, <1>4, <2>2 DEF Programmed
    <3>2. Rank(flash[x].store) \in 1..4 /\ Rank(flash[x].dirty) \in 1..4
      BY <1>1, RankType DEF Sector
    <3> QED BY <1>1, <1>2, <1>4, <1>5, <2>2, <3>1, <3>2 DEF WritesOnce
  <2> QED BY <2>1, <2>2
<1> QED BY <1>1, <1>2, <1>4, <1>5, <1>6, <1>7, <1>9, <1>10

------------------------------------------------------------------------------
(* The steps that write flash.                                             *)
LEMMA EraseStep ==
  ASSUME IInv, Erase
  PROVE  IInv' /\ \A s \in Sectors : WritesOnce(flash[s], flash'[s])
<1> USE DEF Erase, ram, frames, loading
<1>0. FlashType /\ LogType /\ CallType /\ GcType /\ ScanType /\ SrcType
  BY TypeParts DEF IInv
<1>1. Doomed \in Sectors /\ Doomed' = Doomed
  BY <1>0, HeadTailProperties, Constant DEF IInv, GcInv, Doomed, GcType, ScanType
<1>2. /\ FlashType' /\ SectorInv' /\ flash'[Doomed] = Erased
      /\ \A s \in Sectors : WritesOnce(flash[s], flash'[s])
  <2>1. Erased # Formatted
    BY DEF Erased, Formatted
  <2> QED BY <1>1, <2>1, FormatFacts DEF IInv
<1>3. LogType' /\ CallType' /\ GcType' /\ ScanType'
  BY <1>0 DEF LogType, CallType, GcType, ScanType
<1>4. SrcType' /\ SrcInv'
  BY DEF IInv, SrcInv, SrcType
<1>5. PhaseInv'
  BY <1>0 DEF IInv, PhaseInv, GcInv, Moving
<1>6. GcInv'
  BY <1>1, <1>2 DEF IInv, GcInv
<1>7. PutInv'
  BY DEF IInv, PutInv, Moving
<1> QED BY <1>2, <1>3, <1>4, <1>5, <1>6, <1>7, TypePartsNext DEF IInv

LEMMA WriteHeaderStep ==
  ASSUME IInv, WriteHeader
  PROVE  IInv' /\ \A s \in Sectors : WritesOnce(flash[s], flash'[s])
<1> USE DEF WriteHeader
<1>0. FlashType /\ LogType /\ CallType /\ GcType /\ ScanType /\ SrcType
  BY TypeParts DEF IInv
<1>1. Doomed \in Sectors /\ flash[Doomed] = Erased
  BY <1>0, HeadTailProperties, Constant DEF IInv, GcInv, Doomed, GcType, ScanType
<1>2. /\ FlashType' /\ SectorInv'
      /\ \A s \in Sectors : WritesOnce(flash[s], flash'[s])
  BY <1>1, FormatFacts DEF IInv
<1>3. CallType' /\ SrcType' /\ SrcInv'
  BY <1>0 DEF IInv, CallType, SrcType, SrcInv
<1>4. LogType' /\ ScanType'
  <2>1. CASE phase = "format"
    <3>1. todo # << >>
      BY <2>1 DEF IInv, GcInv
    <3>2. Tail(todo) \in Seq(Sectors)
      BY <1>0, <3>1, HeadTailProperties DEF ScanType
    <3> QED BY <1>0, <2>1, <3>2 DEF LogType, ScanType
  <2>2. CASE phase # "format"
    <3>1. gc.sec \in Sectors
      BY <1>0, <2>2, Constant DEF IInv, GcInv, GcType
    <3>2. 1 - gc.sec \in Sectors
      BY <3>1 DEF Sectors
    <3> QED BY <1>0, <2>2, <3>2 DEF LogType, ScanType
  <2> QED BY <2>1, <2>2
<1>5. GcType' /\ gc'.for = gc.for /\ gc'.sec = gc.sec /\ gc'.at = gc.at
  BY <1>0, EmptySeq DEF GcType
<1>6. PhaseInv'
  BY <1>0, <1>5 DEF IInv, PhaseInv, GcInv, Moving, GcType
<1>7. GcInv'
  BY <1>5 DEF IInv, GcInv
<1>8. PutInv'
  BY <1>5 DEF IInv, PutInv, Moving
<1> QED BY <1>2, <1>3, <1>4, <1>5, <1>6, <1>7, <1>8, TypePartsNext DEF IInv

LEMMA UpdateSecStatusStep ==
  ASSUME IInv, UpdateSecStatus
  PROVE  IInv' /\ \A s \in Sectors : WritesOnce(flash[s], flash'[s])
<1> USE DEF UpdateSecStatus, ram, loading
<1>0. FlashType /\ LogType /\ CallType /\ GcType /\ ScanType /\ SrcType
  BY TypeParts DEF IInv
<1> DEFINE x == put.to
           fills == flash[x].store = "USING" /\ Remain(x) - 1 < Reserve
           st == IF fills THEN "FULL" ELSE "USING"
<1>1. /\ x \in Sectors /\ flash[x].store \in {"EMPTY", "USING"}
      /\ Len(flash[x].kv) < Slots
  BY DEF IInv, PutInv, Room
<1>2. flash[x] \in Sector /\ flash \in [Sectors -> Sector]
  BY <1>0, <1>1 DEF FlashType
<1>3. flash' = [flash EXCEPT ![x] = [flash[x] EXCEPT !.store = st,
                                                     !.dirty = flash[x].dirty]]
  BY <1>1, <1>2 DEF Sector
<1>4. /\ Rank(st) >= Rank(flash[x].store)
      /\ Rank(flash[x].dirty) >= Rank(flash[x].dirty)
      /\ flash[x].dirty \in {"UNUSED", "FALSE", "TRUE", "GC"}
      /\ st \in {"USING", "FULL"}
  BY <1>1, <1>2, RankType DEF Sector, Rank
<1> HIDE DEF st
<1>5. /\ FlashType' /\ SectorInv' /\ Addresses' = Addresses
      /\ flash'[x].kv = flash[x].kv /\ flash'[x].store = st
      /\ \A s \in Sectors : WritesOnce(flash[s], flash'[s])
  BY <1>1, <1>3, <1>4, StatusFacts DEF IInv
<1>6. LogType' /\ GcType' /\ ScanType' /\ SrcType'
  BY <1>0, <1>5 DEF LogType, GcType, ScanType, SrcType
<1>7. /\ CallType' /\ put'.to = put.to /\ put'.key = put.key
      /\ put'.val = put.val
  BY <1>0 DEF CallType
<1>8. PhaseInv' /\ GcInv' /\ SrcInv'
  BY DEF IInv, PhaseInv, GcInv, SrcInv, Moving
<1>9. PutInv'
  BY <1>1, <1>4, <1>5, <1>7 DEF IInv, PutInv, Ready, Room, Moving
<1> QED BY <1>5, <1>6, <1>7, <1>8, <1>9, TypePartsNext DEF IInv

LEMMA PreWriteStep ==
  ASSUME IInv, PreWrite
  PROVE  IInv' /\ \A s \in Sectors : WritesOnce(flash[s], flash'[s])
<1> USE DEF PreWrite, ram, frames, loading
<1>0. FlashType /\ LogType /\ CallType /\ GcType /\ ScanType /\ SrcType
  BY TypeParts DEF IInv
<1> DEFINE x == put.to
<1>1. /\ x \in Sectors /\ flash[x].store \in {"USING", "FULL"}
      /\ Len(flash[x].kv) < Slots /\ Ready
  BY DEF IInv, PutInv, Room
<1>2. flash[x] \in Sector /\ flash \in [Sectors -> Sector]
  BY <1>0, <1>1 DEF FlashType
<1>3. flash' = [flash EXCEPT ![x] =
                   [flash[x] EXCEPT !.kv = Append(flash[x].kv, Blank("PRE_WRITE"))]]
  BY <1>1, <1>2 DEF Sector
<1>4. Blank("PRE_WRITE") \in Record
  BY DEF Record
<1>5. /\ FlashType' /\ SectorInv' /\ Addresses \subseteq Addresses'
      /\ Len(flash'[x].kv) = Len(flash[x].kv) + 1
      /\ flash'[x].kv[Len(flash'[x].kv)] = Blank("PRE_WRITE")
      /\ \A s \in Sectors : WritesOnce(flash[s], flash'[s])
  BY <1>1, <1>3, <1>4, AppendFacts DEF IInv
<1>6. LogType' /\ CallType' /\ GcType' /\ ScanType' /\ SrcType'
  BY <1>0, <1>5 DEF LogType, CallType, GcType, ScanType, SrcType
<1>7. PhaseInv' /\ GcInv' /\ SrcInv'
  BY DEF IInv, PhaseInv, GcInv, SrcInv, Moving
<1>8. Len(flash[x].kv) \in Nat
  BY <1>1, SectorType DEF IInv
<1>9. PutInv'
  BY <1>1, <1>5, <1>8 DEF IInv, PutInv, Ready, Moving, At, Last
<1> QED BY <1>5, <1>6, <1>7, <1>9, TypePartsNext DEF IInv

LEMMA LastAddress ==
  ASSUME TypeOK, put.to \in Sectors, Len(flash[put.to].kv) > 0
  PROVE  Last \in Addresses /\ Last[1] = put.to /\ Last[2] = Len(flash[put.to].kv)
BY SectorType, InAddresses DEF Last

LEMMA WriteDataStep ==
  ASSUME IInv, WriteData
  PROVE  IInv' /\ \A s \in Sectors : WritesOnce(flash[s], flash'[s])
<1> USE DEF WriteData, ram, frames, loading
<1>0. FlashType /\ LogType /\ CallType /\ GcType /\ ScanType /\ SrcType
  BY TypeParts DEF IInv
<1> DEFINE r == [st |-> "PRE_WRITE", ok |-> TRUE, key |-> put.key,
                 val |-> put.val]
<1>1. /\ put.to \in Sectors /\ Len(flash[put.to].kv) > 0
      /\ At(Last) = Blank("PRE_WRITE") /\ Ready
  BY DEF IInv, PutInv
<1>2. Last \in Addresses /\ Last[1] = put.to /\ Last[2] = Len(flash[put.to].kv)
  BY <1>1, LastAddress DEF IInv
<1>3. r \in Record
  BY <1>1 DEF Ready, Record, Whole, Statuses
<1>4. Programmed(At(Last), r)
  BY <1>1 DEF Programmed
<1>5. flash' = Mark(Last, r)
  OBVIOUS
<1> HIDE DEF r
<1>6. FlashType' /\ SectorInv' /\ SrcType'
  BY <1>0, <1>2, <1>3, <1>5, MarkType DEF IInv
<1>7. \A s \in Sectors : WritesOnce(flash[s], flash'[s])
  BY <1>2, <1>3, <1>4, <1>5, MarkOnce DEF IInv
<1>8. LogType' /\ CallType' /\ GcType' /\ ScanType'
  BY <1>0 DEF LogType, CallType, GcType, ScanType
<1>9. PhaseInv' /\ GcInv' /\ SrcInv'
  BY DEF IInv, PhaseInv, GcInv, SrcInv, Moving
<1>10. /\ flash'[put.to].kv[Len(flash[put.to].kv)] = r
       /\ Len(flash'[put.to].kv) = Len(flash[put.to].kv)
  <2>1. flash'[Last[1]].kv[Last[2]] = r
    BY <1>2, <1>3, <1>5, MarkFacts DEF IInv
  <2>2. Len(flash'[put.to].kv) = Len(flash[put.to].kv)
    BY <1>1, <1>2, <1>3, <1>5, MarkFacts DEF IInv
  <2> QED BY <1>2, <2>1, <2>2
<1>11. PutInv'
  BY <1>1, <1>10 DEF IInv, PutInv, Ready, Moving, At, Last, r
<1> QED BY <1>6, <1>7, <1>8, <1>9, <1>11, TypePartsNext DEF IInv

LEMMA CommitWriteStep ==
  ASSUME IInv, CommitWrite
  PROVE  IInv' /\ \A s \in Sectors : WritesOnce(flash[s], flash'[s])
<1> USE DEF CommitWrite, loading
<1>0. FlashType /\ LogType /\ CallType /\ GcType /\ ScanType /\ SrcType
  BY TypeParts DEF IInv
<1> DEFINE r == [At(Last) EXCEPT !.st = "WRITE"]
<1>1. /\ put.to \in Sectors /\ Len(flash[put.to].kv) > 0 /\ Ready
      /\ At(Last) = [st |-> "PRE_WRITE", ok |-> TRUE, key |-> put.key,
                     val |-> put.val]
  BY DEF IInv, PutInv
<1>2. Last \in Addresses /\ Last \in SomeAddress
  BY <1>1, LastAddress, OfAddress DEF IInv
<1>3. r \in Record
  <2>1. At(Last) \in Whole
    BY <1>1 DEF Ready, Whole, Statuses
  <2>2. r \in Whole
    BY <2>1 DEF Whole, Statuses
  <2> QED BY <2>2 DEF Record
<1>4. Programmed(At(Last), r)
  <2>1. At(Last) = [r EXCEPT !.st = At(Last).st]
    BY <1>1
  <2>2. Rank(r.st) >= Rank(At(Last).st)
    BY <1>1 DEF Rank
  <2> QED BY <2>1, <2>2 DEF Programmed
<1>5. flash' = Mark(Last, r)
  OBVIOUS
<1> HIDE DEF r
<1>6. FlashType' /\ SectorInv' /\ SrcType'
  BY <1>0, <1>2, <1>3, <1>5, MarkType DEF IInv
<1>7. \A s \in Sectors : WritesOnce(flash[s], flash'[s])
  BY <1>2, <1>3, <1>4, <1>5, MarkOnce DEF IInv
<1>8. CallType' /\ GcType' /\ ScanType'
  BY <1>0, Blanks DEF CallType, GcType, ScanType
<1>9. LogType'
  BY <1>0, <1>1, <1>2 DEF LogType, Ready
<1>10. PhaseInv' /\ GcInv'
  BY DEF IInv, PhaseInv, GcInv, SrcInv, Moving
<1>11. SrcInv'
  BY DEF IInv, PhaseInv, SrcInv, Moving
<1>12. PutInv'
  BY DEF IInv, PutInv, PhaseInv, Moving
<1> QED BY <1>6, <1>7, <1>8, <1>9, <1>10, <1>11, <1>12, TypePartsNext DEF IInv

LEMMA PreDeleteStep ==
  ASSUME IInv, PreDelete
  PROVE  IInv' /\ \A s \in Sectors : WritesOnce(flash[s], flash'[s])
<1> USE DEF PreDelete, ram, frames, loading
<1>0. FlashType /\ LogType /\ CallType /\ GcType /\ ScanType /\ SrcType
  BY TypeParts DEF IInv
<1> DEFINE r == [At(src) EXCEPT !.st = "PRE_DELETE"]
<1>1. src \in Addresses /\ At(src) \in Whole
  BY <1>0 DEF IInv, SrcInv, SrcType
<1>2. r \in Whole
  BY <1>1 DEF Whole, Statuses
<1>3. r \in Record
  BY <1>2 DEF Record
<1>4. Programmed(At(src), r)
  <2>1. At(src) = [r EXCEPT !.st = At(src).st]
    BY <1>1 DEF Whole
  <2>2. Rank(r.st) >= Rank(At(src).st)
    BY <1>1 DEF Whole, Statuses, Rank
  <2> QED BY <2>1, <2>2 DEF Programmed
<1>5. flash' = Mark(src, r)
  OBVIOUS
<1> HIDE DEF r
<1>6. FlashType' /\ SectorInv' /\ SrcType'
  BY <1>0, <1>1, <1>3, <1>5, MarkType DEF IInv
<1>7. \A s \in Sectors : WritesOnce(flash[s], flash'[s])
  BY <1>1, <1>3, <1>4, <1>5, MarkOnce DEF IInv
<1>8. LogType' /\ CallType' /\ GcType' /\ ScanType'
  BY <1>0 DEF LogType, CallType, GcType, ScanType
<1>9. PhaseInv' /\ GcInv'
  BY DEF IInv, PhaseInv, GcInv, Moving
<1>10. flash'[src[1]].kv[src[2]] = r
  BY <1>1, <1>3, <1>5, MarkFacts DEF IInv
<1>11. SrcInv'
  BY <1>2, <1>10 DEF IInv, SrcInv, At
<1>12. \A s \in Sectors : /\ flash'[s].store = flash[s].store
                          /\ Len(flash'[s].kv) = Len(flash[s].kv)
  BY <1>1, <1>3, <1>5, MarkFacts DEF IInv
<1>13. PutInv'
  BY <1>12 DEF IInv, PutInv, Ready, Room, Moving
<1> QED BY <1>6, <1>7, <1>8, <1>9, <1>11, <1>13, TypePartsNext DEF IInv

LEMMA DeleteStep ==
  ASSUME IInv, Delete
  PROVE  IInv' /\ \A s \in Sectors : WritesOnce(flash[s], flash'[s])
<1> USE DEF Delete, frames, loading
<1>0. FlashType /\ LogType /\ CallType /\ GcType /\ ScanType /\ SrcType
  BY TypeParts DEF IInv
<1>1. src \in Addresses
  BY <1>0 DEF IInv, SrcInv, SrcType
<1>2. Dead \in Record /\ Programmed(At(src), Dead) /\ flash' = Mark(src, Dead)
  BY DEF Record, Programmed
<1>3. FlashType' /\ SectorInv' /\ SrcType'
  BY <1>0, <1>1, <1>2, MarkType DEF IInv
<1>4. \A s \in Sectors : WritesOnce(flash[s], flash'[s])
  BY <1>1, <1>2, MarkOnce DEF IInv
<1>5. LogType'
  BY <1>0 DEF LogType
<1>6. CallType' /\ GcType' /\ ScanType'
  BY <1>0 DEF CallType, GcType, ScanType
<1>7. PhaseInv' /\ GcInv' /\ SrcInv'
  BY DEF IInv, PhaseInv, GcInv, SrcInv, Moving
<1>8. PutInv'
  BY DEF IInv, PutInv
<1> QED BY <1>3, <1>4, <1>5, <1>6, <1>7, <1>8, TypePartsNext DEF IInv

LEMMA MarkDirtyStep ==
  ASSUME IInv, MarkDirty
  PROVE  IInv' /\ \A s \in Sectors : WritesOnce(flash[s], flash'[s])
<1> USE DEF MarkDirty, ram, loading
<1>0. FlashType /\ LogType /\ CallType /\ GcType /\ ScanType /\ SrcType
  BY TypeParts DEF IInv
<1> DEFINE x == src[1]
           d == IF flash[x].dirty = "FALSE" THEN "TRUE" ELSE flash[x].dirty
<1>1. src \in Addresses /\ x \in Sectors
  BY <1>0, OfAddress DEF IInv, SrcInv, SrcType
<1>2. flash[x] \in Sector /\ flash \in [Sectors -> Sector]
  BY <1>0, <1>1 DEF FlashType
<1>3. flash' = [flash EXCEPT ![x] = [flash[x] EXCEPT !.store = flash[x].store,
                                                     !.dirty = d]]
  BY <1>1, <1>2 DEF Sector
<1>4. /\ flash[x].store \in {"UNUSED", "EMPTY", "USING", "FULL"}
      /\ d \in {"UNUSED", "FALSE", "TRUE", "GC"}
      /\ Rank(flash[x].store) >= Rank(flash[x].store)
      /\ Rank(d) >= Rank(flash[x].dirty)
  BY <1>1, <1>2, RankType DEF Sector, Rank
<1> HIDE DEF d
<1>5. /\ FlashType' /\ SectorInv' /\ Addresses' = Addresses
      /\ \A s \in Sectors : flash'[s].kv = flash[s].kv
      /\ \A s \in Sectors : WritesOnce(flash[s], flash'[s])
  BY <1>1, <1>3, <1>4, StatusFacts DEF IInv
<1>6. \A s \in Sectors : flash'[s].store = flash[s].store
  BY <1>1, <1>3, <1>4, StatusFacts DEF IInv
<1>7. flash'[src[1]].kv[src[2]] = At(src)
  BY <1>1, <1>5 DEF At
<1>8. LogType' /\ CallType' /\ GcType' /\ ScanType'
  BY <1>0 DEF LogType, CallType, GcType, ScanType
<1>9. SrcType'
  BY <1>0, <1>5 DEF SrcType
<1>10. PhaseInv' /\ GcInv'
  BY DEF IInv, PhaseInv, GcInv, Moving
<1>11. SrcInv'
  BY <1>7 DEF IInv, SrcInv, PhaseInv, Moving, At
<1>12. PutInv'
  BY <1>5, <1>6 DEF IInv, PutInv, Ready, Room, Moving
<1> QED BY <1>5, <1>8, <1>9, <1>10, <1>11, <1>12, TypePartsNext DEF IInv

LEMMA GcSectorStep ==
  ASSUME IInv, GcSector
  PROVE  IInv' /\ \A s \in Sectors : WritesOnce(flash[s], flash'[s])
<1> USE DEF GcSector, ram, loading
<1>0. FlashType /\ LogType /\ CallType /\ GcType /\ ScanType /\ SrcType
  BY TypeParts DEF IInv
<1> DEFINE x == Head(gc.rest)
           dirty == flash[x].ok /\ flash[x].dirty \in {"TRUE", "GC"}
           d == IF dirty THEN "GC" ELSE flash[x].dirty
<1>1. x \in Sectors /\ Tail(gc.rest) \in Seq(Sectors)
  BY <1>0, HeadTailProperties DEF GcType
<1>2. flash[x] \in Sector /\ flash \in [Sectors -> Sector]
  BY <1>0, <1>1 DEF FlashType
<1>3. flash' = [flash EXCEPT ![x] = [flash[x] EXCEPT !.store = flash[x].store,
                                                     !.dirty = d]]
  BY <1>1, <1>2 DEF Sector
<1>4. /\ flash[x].store \in {"UNUSED", "EMPTY", "USING", "FULL"}
      /\ d \in {"UNUSED", "FALSE", "TRUE", "GC"}
      /\ Rank(flash[x].store) >= Rank(flash[x].store)
      /\ Rank(d) >= Rank(flash[x].dirty)
  BY <1>1, <1>2, RankType DEF Sector, Rank
<1>5. gc' = [gc EXCEPT !.rest = Tail(gc.rest), !.sec = x, !.at = 1,
                       !.trav = gc.trav + 1]
  OBVIOUS
<1>6. src = None /\ UNCHANGED src /\ pc' \in {"gckv", "gcnext"}
      /\ gc.for # "none"
  BY DEF IInv, SrcInv, PhaseInv
<1> HIDE DEF d, x
<1>7. /\ FlashType' /\ SectorInv'
      /\ \A s \in Sectors : WritesOnce(flash[s], flash'[s])
  BY <1>1, <1>3, <1>4, StatusFacts DEF IInv
<1>8. GcType' /\ gc'.for = gc.for /\ gc'.sec = x /\ gc'.at = 1
  <2> HIDE DEF GcSector
  <2>1. gc.trav + 1 \in Nat /\ 1 \in Nat
    BY <1>0 DEF GcType
  <2> QED BY <1>0, <1>1, <1>5, <2>1 DEF GcType
<1>9. LogType' /\ CallType' /\ ScanType' /\ SrcType'
  BY <1>0, <1>6 DEF LogType, CallType, ScanType, SrcType
<1>10. PhaseInv' /\ GcInv'
  BY <1>1, <1>6, <1>8, Constant DEF IInv, PhaseInv, GcInv, Moving
<1>11. SrcInv' /\ PutInv'
  BY <1>6, <1>8 DEF IInv, SrcInv, PutInv, Moving
<1> QED BY <1>7, <1>8, <1>9, <1>10, <1>11, TypePartsNext DEF IInv

LEMMA KvCheckStep ==
  ASSUME IInv, KvCheck
  PROVE  IInv' /\ \A s \in Sectors : WritesOnce(flash[s], flash'[s])
<1> USE DEF KvCheck
<1>0. FlashType /\ LogType /\ CallType /\ GcType /\ ScanType /\ SrcType
  BY TypeParts DEF IInv
<1> DEFINE a == <<Head(scan.rest), scan.at>>
<1>1. /\ src = None /\ phase = "kvcheck" /\ gc.for = "none"
      /\ UNCHANGED <<phase, oldest, gcRequest, lastDel, req, put, alreadyGc,
                     gc, todo, missing, cuts>>
  BY DEF IInv, SrcInv, PhaseInv
<1>2. CallType' /\ GcType'
  BY <1>0, <1>1 DEF CallType, GcType
<1>3. ScanType'
  <2>1. CASE scan.rest = << >>
    BY <1>0, <2>1 DEF ScanType
  <2>2. CASE scan.rest # << >>
    <3>1. Tail(scan.rest) \in Seq(Sectors)
      BY <1>0, <2>2, HeadTailProperties DEF ScanType
    <3>2. scan' \in {[rest |-> Tail(scan.rest), at |-> 1],
                     [scan EXCEPT !.at = scan.at + 1]}
      BY <2>2
    <3>3. scan.at + 1 \in Nat
      BY <1>0 DEF ScanType
    <3>4. scan \in [rest : Seq(Sectors), at : Nat] /\ todo \in Seq(Sectors)
      BY <1>0 DEF ScanType
    <3> HIDE DEF KvCheck
    <3>5. [rest |-> Tail(scan.rest), at |-> 1] \in [rest : Seq(Sectors), at : Nat]
      BY <3>1
    <3>6. [scan EXCEPT !.at = scan.at + 1] \in [rest : Seq(Sectors), at : Nat]
      BY <3>3, <3>4
    <3>7. scan' \in [rest : Seq(Sectors), at : Nat]
      BY <3>2, <3>5, <3>6
    <3> QED BY <1>1, <3>4, <3>7 DEF ScanType
  <2> QED BY <2>1, <2>2
<1>4. \/ /\ UNCHANGED <<flash, src, cache>> /\ pc' \in {"kvend", "kvcheck"}
      \/ /\ a \in Addresses /\ At(a).ok /\ src' = a /\ pc' = "movealloc"
         /\ UNCHANGED <<flash, cache>>
      \/ /\ a \in Addresses /\ flash' = Mark(a, Dead) /\ pc' = "kvend"
         /\ UNCHANGED <<src, cache>>
      \/ /\ a \in Addresses /\ At(a).ok /\ cache' = [cache EXCEPT ![At(a).key] = a]
         /\ UNCHANGED <<flash, src, pc>> /\ pc' = "kvcheck"
  OBVIOUS
<1> HIDE DEF KvCheck, a
<1>5. PhaseInv' /\ GcInv'
  BY <1>0, <1>1, <1>4, Constant DEF IInv, PhaseInv, GcInv, Moving
<1>6. PutInv'
  BY <1>1, <1>4 DEF IInv, PutInv, Moving
<1>7. CASE UNCHANGED flash
  <2>1. FlashType' /\ SectorInv' /\ Addresses' = Addresses
    BY <1>0, <1>7, Same DEF IInv
  <2>2. a \in Addresses /\ At(a).ok => At(a) \in Whole /\ At(a).key \in Keys
                                       /\ a \in SomeAddress /\ a # None
    BY OfAddress, RecordFacts DEF IInv
  <2>3. \/ UNCHANGED <<src, cache>> /\ pc' \in {"kvend", "kvcheck"}
        \/ /\ a \in Addresses /\ At(a) \in Whole /\ a # None
           /\ src' = a /\ pc' = "movealloc" /\ UNCHANGED cache
        \/ /\ At(a).key \in Keys /\ a \in SomeAddress /\ UNCHANGED src
           /\ cache' = [cache EXCEPT ![At(a).key] = a] /\ pc' = "kvcheck"
    <3>1. CASE flash' = Mark(a, Dead) /\ pc' = "kvend" /\ UNCHANGED <<src, cache>>
      BY <3>1
    <3> QED BY <1>4, <2>2, <3>1
  <2>4. LogType'
    BY <1>0, <1>1, <2>3 DEF LogType
  <2>5. SrcType'
    BY <1>0, <2>1, <2>3 DEF SrcType
  <2>6. SrcInv'
    BY <1>1, <1>7, <2>3 DEF SrcInv, Moving, At
  <2>7. \A s \in Sectors : WritesOnce(flash[s], flash'[s])
    BY <1>7, SectorStays DEF IInv
  <2> QED BY <1>2, <1>3, <1>5, <1>6, <2>1, <2>4, <2>5, <2>6, <2>7, TypePartsNext
          DEF IInv
<1>8. CASE ~UNCHANGED flash
  <2>1. /\ a \in Addresses /\ flash' = Mark(a, Dead) /\ pc' = "kvend"
        /\ UNCHANGED <<src, cache>>
    BY <1>4, <1>8
  <2>2. Dead \in Record /\ Programmed(At(a), Dead)
    BY DEF Record, Programmed
  <2>3. FlashType' /\ SectorInv' /\ SrcType'
    BY <1>0, <2>1, <2>2, MarkType DEF IInv
  <2>4. \A s \in Sectors : WritesOnce(flash[s], flash'[s])
    BY <2>1, <2>2, MarkOnce DEF IInv
  <2>5. LogType' /\ SrcInv'
    BY <1>0, <1>1, <2>1 DEF LogType, SrcInv
  <2> QED BY <1>2, <1>3, <1>5, <1>6, <2>3, <2>4, <2>5, TypePartsNext DEF IInv
<1> QED BY <1>7, <1>8

LEMMA PowerOffStep ==
  ASSUME IInv, PowerOff
  PROVE  IInv' /\ UNCHANGED flash
<1>1. cuts \in 0..MaxCuts
  BY TypeParts DEF IInv, LogType
<1>2. cuts' \in 0..MaxCuts
  BY <1>1, Constant DEF PowerOff
<1> QED BY <1>2, LostFacts DEF PowerOff

(* read_kv marks the records without a length when the power is back.      *)
LEMMA RereadFacts ==
  ASSUME TypeOK, NEW s \in Sectors
  PROVE  /\ Reread(flash[s]) \in Sector
         /\ Len(Reread(flash[s]).kv) <= Slots
         /\ Reread(flash[s]).store \in {"UNUSED", "EMPTY"} =>
               Reread(flash[s]) = flash[s]
         /\ WritesOnce(flash[s], Reread(flash[s]))
<1> DEFINE old == flash[s].kv
           kv == IF old = << >> THEN <<Dead>>
                 ELSE [i \in DOMAIN old |-> IF old[i] = Blank("PRE_WRITE")
                                            THEN Dead ELSE old[i]]
<1>1. /\ flash[s] \in Sector /\ old \in Seq(Record) /\ Len(old) \in Nat
      /\ Len(old) <= Slots /\ DOMAIN old = 1..Len(old)
      /\ \A i \in 1..Len(old) : old[i] \in Record
  BY SectorType
<1>2. CASE Reread(flash[s]) = flash[s]
  BY <1>1, <1>2, SectorStays
<1>3. CASE /\ flash[s].store \in {"USING", "FULL"}
           /\ Reread(flash[s]) = [flash[s] EXCEPT !.kv = kv]
  <2>1. Dead \in Record
    BY DEF Record
  <2>2. /\ kv \in Seq(Record) /\ Len(kv) <= Slots /\ Len(kv) >= Len(old)
        /\ \A i \in 1..Len(old) : kv[i] = old[i] \/ kv[i] = Dead
    <3>1. CASE old = << >>
      <4>1. kv = <<Dead>> /\ Len(old) = 0
        BY <3>1
      <4>2. kv \in Seq(Record) /\ Len(kv) = 1
        BY <2>1, <4>1
      <4> QED BY <4>1, <4>2, Constant
    <3>2. CASE old # << >>
      <4>1. kv = [i \in 1..Len(old) |-> IF old[i] = Blank("PRE_WRITE")
                                        THEN Dead ELSE old[i]]
        BY <1>1, <3>2
      <4>2. \A i \in 1..Len(old) : kv[i] \in Record
        BY <1>1, <2>1, <4>1
      <4>3. kv \in [1..Len(old) -> Record]
        BY <4>1, <4>2
      <4>4. kv \in Seq(Record) /\ Len(kv) = Len(old)
        BY <1>1, <4>3, SeqDef, LenProperties
      <4> QED BY <1>1, <4>1, <4>4
    <3> QED BY <3>1, <3>2
  <2> HIDE DEF kv
  <2>3. [flash[s] EXCEPT !.kv = kv] \in Sector
    BY <1>1, <2>2 DEF Sector
  <2>4. /\ Reread(flash[s]).kv = kv /\ Reread(flash[s]).ok = flash[s].ok
        /\ Reread(flash[s]).store = flash[s].store
        /\ Reread(flash[s]).dirty = flash[s].dirty
    BY <1>1, <1>3 DEF Sector
  <2>5. Rank(flash[s].store) \in 1..4 /\ Rank(flash[s].dirty) \in 1..4
    BY <1>1, RankType DEF Sector
  <2>6. \A i \in 1..Len(old) : Programmed(old[i], kv[i])
    BY <2>2 DEF Programmed
  <2>7. WritesOnce(flash[s], Reread(flash[s]))
    BY <2>2, <2>4, <2>5, <2>6 DEF WritesOnce
  <2> QED BY <1>3, <2>2, <2>3, <2>4, <2>7
<1> QED BY <1>2, <1>3 DEF Reread

LEMMA PowerOnStep ==
  ASSUME IInv, PowerOn
  PROVE  IInv' /\ \A s \in Sectors : WritesOnce(flash[s], flash'[s])
<1>0. FlashType /\ LogType /\ CallType /\ GcType /\ ScanType /\ SrcType
  BY TypeParts DEF IInv
<1>1. flash' = [s \in Sectors |-> Reread(flash[s])]
  BY DEF PowerOn
<1>2. /\ FlashType'
      /\ \A s \in Sectors : WritesOnce(flash[s], flash'[s])
  BY <1>1, RereadFacts DEF IInv, FlashType
<1>3. SectorInv'
  BY <1>1, RereadFacts DEF IInv, SectorInv
<1>4. oldest' \in {0, 1}
  BY DEF PowerOn
<1>5. missing' \subseteq Defaults
  BY DEF PowerOn
<1>6. todo' \in Seq(Sectors)
  <2> DEFINE bad == {s \in Sectors : ~flash[s].ok}
             one == CHOOSE s \in bad : TRUE
  <2>1. <<0, 1, 0, 1>> \in Seq(Sectors) /\ << >> \in Seq(Sectors)
    BY DEF Sectors
  <2>2. bad # {} => one \in Sectors
    OBVIOUS
  <2> HIDE DEF one
  <2>3. bad # {} => <<one>> \in Seq(Sectors)
    BY <2>2
  <2>4. todo' = IF bad = Sectors THEN <<0, 1, 0, 1>>
                ELSE IF bad = {} THEN << >> ELSE <<one>>
    BY DEF PowerOn, one
  <2> QED BY <2>1, <2>3, <2>4
<1>7. /\ phase = "off" /\ pc = "off" /\ src = None /\ gc.for = "none"
      /\ phase' = "format" /\ pc' = "formatnext"
      /\ UNCHANGED <<gcRequest, lastDel, cache, req, put, src, alreadyGc,
                     gc, scan, cuts>>
  BY DEF IInv, PhaseInv, SrcInv, PowerOn
<1>8. LogType' /\ CallType'
  BY <1>0, <1>4, <1>5, <1>7 DEF LogType, CallType, Sectors
<1>9. GcType' /\ ScanType' /\ SrcType'
  BY <1>0, <1>6, <1>7 DEF GcType, ScanType, SrcType
<1>10. oldest' # None
  BY <1>4, Constant DEF Sectors
<1>11. PhaseInv' /\ GcInv'
  BY <1>7, <1>10 DEF IInv, PhaseInv, GcInv
<1>12. SrcInv' /\ PutInv'
  BY <1>7 DEF SrcInv, PutInv
<1> QED BY <1>2, <1>3, <1>8, <1>9, <1>11, <1>12, TypePartsNext DEF IInv

------------------------------------------------------------------------------
LEMMA InitInv == Init => IInv
<1> SUFFICES ASSUME Init PROVE IInv
  OBVIOUS
<1>1. \A s \in Sectors : flash[s] = Erased
  BY DEF Init
<1>2. Len(Erased.kv) = 0 /\ Erased \in Sector /\ Erased.kv = << >>
  BY Blanks, EmptySeq
<1>3. FlashType /\ SectorInv
  BY <1>1, <1>2, Blanks, Constant DEF Init, FlashType, SectorInv
<1>4. LogType
  <2>1. cache \in [Keys -> SomeAddress \cup {None}]
    BY Blanks DEF Init
  <2>2. cuts \in 0..MaxCuts /\ oldest \in Sectors
    BY Constant DEF Init, Sectors
  <2> QED BY <2>1, <2>2 DEF Init, LogType
<1>5. CallType
  BY Blanks DEF Init, CallType
<1>6. GcType /\ gc.for = "none" /\ gc.sec = None
  BY Blanks DEF Init, GcType
<1>7. ScanType /\ SrcType
  BY Blanks, EmptySeq DEF Init, ScanType, SrcType
<1>8. PhaseInv /\ GcInv
  BY <1>6 DEF Init, PhaseInv, GcInv
<1>9. SrcInv /\ PutInv
  BY <1>6 DEF Init, SrcInv, PutInv
<1> QED BY <1>3, <1>4, <1>5, <1>6, <1>7, <1>8, <1>9, TypeParts DEF IInv

LEMMA NoWrite ==
  ASSUME IInv, UNCHANGED flash
  PROVE  \A s \in Sectors : WritesOnce(flash[s], flash'[s])
BY SectorStays DEF IInv

LEMMA NextInv ==
  ASSUME IInv, [Next]_vars
  PROVE  IInv' /\ \A s \in Sectors : WritesOnce(flash[s], flash'[s])
<1>1. ASSUME FormatNext \/ Erase \/ WriteHeader \/ DefaultNext \/ NewKv \/ FindOld
             \/ Return \/ EndSet
      PROVE  IInv' /\ \A s \in Sectors : WritesOnce(flash[s], flash'[s])
  BY <1>1, FormatNextStep, EraseStep, WriteHeaderStep, DefaultNextStep, NewKvStep,
     FindOldStep, ReturnStep, EndSetStep, NoWrite
<1>2. ASSUME UpdateSecStatus \/ PreWrite \/ WriteData \/ CommitWrite \/ PreDelete
             \/ Delete \/ MarkDirty
      PROVE  IInv' /\ \A s \in Sectors : WritesOnce(flash[s], flash'[s])
  BY <1>2, UpdateSecStatusStep, PreWriteStep, WriteDataStep, CommitWriteStep,
     PreDeleteStep, DeleteStep, MarkDirtyStep
<1>3. ASSUME GcStart \/ GcSector \/ GcRecord \/ GcDone \/ MoveAlloc
             \/ GcCheck \/ KvStart \/ KvCheck \/ KvEnd
      PROVE  IInv' /\ \A s \in Sectors : WritesOnce(flash[s], flash'[s])
  BY <1>3, GcStartStep, GcSectorStep, GcRecordStep, GcDoneStep, MoveAllocStep,
     GcCheckStep, KvStartStep, KvCheckStep, KvEndStep, NoWrite
<1>4. ASSUME PowerOn \/ PowerOff
      PROVE  IInv' /\ \A s \in Sectors : WritesOnce(flash[s], flash'[s])
  BY <1>4, PowerOnStep, PowerOffStep, NoWrite
<1>5. ASSUME NEW k \in Keys, Get(k)
      PROVE  IInv' /\ \A s \in Sectors : WritesOnce(flash[s], flash'[s])
  BY <1>5, GetStep, NoWrite
<1>6. ASSUME NEW k \in Keys, NEW v \in Values \cup {None}, Call(k, v)
      PROVE  IInv' /\ \A s \in Sectors : WritesOnce(flash[s], flash'[s])
  BY <1>6, CallStep, NoWrite
<1>7. ASSUME UNCHANGED vars
      PROVE  IInv' /\ \A s \in Sectors : WritesOnce(flash[s], flash'[s])
  <2>1. FlashType' /\ SectorInv' /\ Addresses' = Addresses /\ UNCHANGED flash
    BY <1>7, Same, TypeParts DEF IInv, vars
  <2>2. LogType' /\ CallType' /\ GcType' /\ ScanType' /\ SrcType'
    BY <1>7, <2>1, TypeParts
       DEF IInv, LogType, CallType, GcType, ScanType, SrcType, vars
  <2>3. PhaseInv' /\ GcInv'
    BY <1>7 DEF IInv, PhaseInv, GcInv, Moving, Doomed, vars
  <2>4. SrcInv' /\ PutInv'
    BY <1>7 DEF IInv, SrcInv, PutInv, Moving, Ready, Room, At, Last, vars
  <2> QED BY <2>1, <2>2, <2>3, <2>4, NoWrite, TypePartsNext DEF IInv
<1> QED BY <1>1, <1>2, <1>3, <1>4, <1>5, <1>6, <1>7 DEF Next, Step

(* The inductive invariant holds in every behaviour.                       *)
THEOREM Invariant == Spec => []IInv
<1>1. IInv /\ [Next]_vars => IInv'
  BY NextInv
<1> QED BY <1>1, InitInv, PTL DEF Spec

------------------------------------------------------------------------------
(* Every variable keeps its type: however the steps of calls, collections, *)
(* recoveries and cuts follow each other, the address that is replaced,    *)
(* moved or deleted is one of a record, and a sector holds no more records *)
(* than it has room for.                                                   *)
THEOREM TypeCorrect == Spec => []TypeOK
<1>1. IInv => TypeOK
  BY DEF IInv
<1> QED BY <1>1, Invariant, PTL

(* What is written stays until its sector is erased: records are appended, *)
(* contents written once, and statuses only move forward, with any number  *)
(* of keys, values and cuts.  That no step but one programs a byte anew is *)
(* WriteOnceForTwoCuts of KvdbMapProofs.                                   *)
THEOREM FlashDiscipline == Spec => [][ForwardOnly]_vars
<1>1. IInv /\ [Next]_vars => [ForwardOnly]_vars
  BY NextInv DEF ForwardOnly
<1> QED BY <1>1, Invariant, PTL DEF Spec
==============================================================================
