-------------------------------- MODULE Kvdb ---------------------------------
(***************************************************************************)
(* Hardware/flashbd/Flashdb/fdb_kvdb.c as main.c uses it: a key-value log  *)
(* in the two 128 KB flash sectors of the partition fdb_kvdb1              *)
(* (fal_cfg.h:25, fal_flash_stm32f4.c:253).  A value is never overwritten: *)
(* its successor is appended, and when a sector is full the records still  *)
(* in force are moved to the other one and it is erased.                   *)
(*                                                                         *)
(* Every action writes flash at most once, so the power may be cut between *)
(* any two writes; flash stays, everything else is lost.                   *)
(*                                                                         *)
(* The data are abstracted.  The two keys main.c writes have names of the  *)
(* same length and integer values, so a record takes one slot of its       *)
(* sector.  Of its bytes only what read_kv tells apart is kept: whether    *)
(* the CRC is right (ok), the status, the name and the value.  Every       *)
(* reader skips a record that is DELETED, ERR_HDR or without a length in   *)
(* the same way, so they are one, DELETED, without key and value;          *)
(* ReadsAgree shows that no cached address leads to one.  The sector cache *)
(* holds what a scan of the sector would find and is left out.  Flash      *)
(* operations succeed unless the power is cut.                             *)
(***************************************************************************)
EXTENDS Naturals, Sequences, FiniteSets

CONSTANTS Keys, Values,
          None,        (* no key, value, address or sector                 *)
          Default,     (* default_kv_table: the value a key starts with    *)
          Slots,       (* records a sector has room for                    *)
          Reserve,     (* FDB_SEC_REMAIN_THRESHOLD, in records             *)
          MaxCuts      (* bound: power cuts in the middle of an operation  *)

Sectors == {0, 1}
Defaults == {k \in Keys : Default[k] # None}

(* The log is never choked by the records that cuts leave behind: in the   *)
(* program a sector has room for some three thousand records.              *)
ASSUME KvdbAssumption ==
    /\ None \notin Keys \cup Values \cup Sectors \cup (Sectors \X Nat)
    /\ Default \in [Keys -> Values \cup {None}]
    /\ IsFiniteSet(Keys)
    /\ Slots \in Nat \ {0} /\ Reserve \in Nat \ {0} /\ MaxCuts \in Nat
    /\ Slots > Cardinality(Keys) + MaxCuts + Reserve

(* No call is mistaken for none.                                           *)
ASSUME RequestAssumption ==
    None \notin [key : Keys, val : Values \cup {None}, done : BOOLEAN]

VARIABLES
    flash,       (* the two sectors                                        *)
    phase,       (* what runs: "off", the steps of fdb_kvdb_init "format", *)
                 (* "default", "gccheck" and "kvcheck", "run", "halted"    *)
    pc,          (* the next step of the function that is running          *)
    oldest,      (* db_oldest_addr: a sector, or None for FAILED_ADDR      *)
    gcRequest,   (* gc_request                                             *)
    lastDel,     (* last_is_complete_del                                   *)
    cache,       (* kv_cache_table: the address cached for each key        *)
    req,         (* set_kv, del_kv, or a default being created: the key    *)
                 (* (None: no call), and the value (None: del_kv)          *)
    put,         (* the record being created or copied: key, value, sector *)
                 (* it goes to, and whether it fills it (is_full)          *)
    src,         (* the record being replaced, moved or deleted            *)
    alreadyGc,   (* new_kv's already_gc                                    *)
    gc,          (* gc_collect_by_free_size: its caller, the sectors it    *)
                 (* has not visited, the one it collects, the record it is *)
                 (* at, and how many it visited (traversed_len)            *)
    scan,        (* the iterators of _fdb_kv_load: the sectors not visited *)
                 (* yet and the record reached                             *)
    todo,        (* the sectors still to be formatted                      *)
    missing,     (* the default keys still to be created                   *)
    cuts         (* power cuts so far                                      *)

ram == <<oldest, gcRequest, lastDel, cache>>
loading == <<scan, todo, missing>>
frames == <<req, put, src, alreadyGc, gc, loading>>
vars == <<flash, phase, pc, oldest, gcRequest, lastDel, cache, req, put, src,
          alreadyGc, gc, scan, todo, missing, cuts>>

------------------------------------------------------------------------------
(* Sectors and records.                                                    *)

Erased == [ok |-> FALSE, store |-> "UNUSED", dirty |-> "UNUSED",
           kv |-> << >>]
Formatted == [ok |-> TRUE, store |-> "EMPTY", dirty |-> "FALSE", kv |-> << >>]

Blank(st) == [st |-> st, ok |-> FALSE, key |-> None, val |-> None]
Dead == Blank("DELETED")

Addresses == UNION {{s} \X DOMAIN flash[s].kv : s \in Sectors}
At(a) == flash[a[1]].kv[a[2]]

(* The addresses of the records of k with one of the statuses S.           *)
Records(k, S) ==
    {a \in Addresses : LET r == At(a) IN r.key = k /\ r.ok /\ r.st \in S}

(* get_next_sector_addr: the sectors in the order of the log.              *)
Order == <<oldest, 1 - oldest>>
First(S) == IF oldest \in S THEN oldest ELSE 1 - oldest

(* get_kv_from_cache: the name at the cached address is compared, not the  *)
(* status of the record.                                                   *)
Hit(k) == cache[k] \in Addresses /\ At(cache[k]).key = k

(* find_kv: the cached address, or the first record in force.              *)
Find(k) == LET found == Records(k, {"WRITE"})
               here  == {a \in found : a[1] = oldest}
               among == IF here # {} THEN here ELSE found
           IN IF Hit(k) THEN cache[k]
              ELSE IF found = {} THEN None
              ELSE CHOOSE a \in among : \A b \in among : a[2] <= b[2]

(* Mutant: the header of the sector counts as free space.                  *)
RemainWithHeader(s) == Slots + 1 - Len(flash[s].kv)
Remain(s) == Slots - Len(flash[s].kv)

(* alloc_kv with gc_request = g: a sector in use with room, or an empty    *)
(* one; the last empty one only for the garbage collector.                 *)
(* Mutant: a full sector is taken for one in use.                          *)
UsableFull(g) == {s \in Sectors :
                    /\ flash[s].ok
                    /\ flash[s].store \in {"USING", "FULL"}
                    /\ Remain(s) > 0
                    /\ flash[s].dirty \in {"FALSE", "TRUE"}
                    /\ flash[s].dirty = "TRUE" => ~g}
Usable(g) == {s \in Sectors :
                 /\ flash[s].ok
                 /\ flash[s].store = "USING"
                 /\ Remain(s) > 0
                 /\ flash[s].dirty \in {"FALSE", "TRUE"}
                 /\ flash[s].dirty = "TRUE" => ~g}
Empty == {s \in Sectors : flash[s].ok /\ flash[s].store = "EMPTY"}
(* Mutant: the last empty sector is used like any other.                   *)
AllocLast(g) == IF Usable(g) # {} THEN First(Usable(g))
                ELSE IF Empty # {} THEN First(Empty)
                ELSE None
Alloc(g) == IF Usable(g) # {} THEN First(Usable(g))
            ELSE IF Empty # {} /\ (Empty = Sectors \/ g) THEN First(Empty)
            ELSE None

(* alloc_kv raises gc_request when it spares the last empty sector.        *)
Raised(g) == g \/ (Alloc(g) = None /\ Empty # {})

(* _fdb_write_status of the record at a.                                   *)
Mark(a, r) == [flash EXCEPT ![a[1]].kv[a[2]] = r]

NoReq == [key |-> None, val |-> None]
NoPut == [key |-> None, val |-> None, to |-> None, full |-> FALSE]
ToCreate(k, v) == [NoPut EXCEPT !.key = k, !.val = v]
(* Mutant: traversed_len does not start at zero.                           *)
NoGcTraversed == [for |-> "none", rest |-> << >>, sec |-> None, at |-> 0,
                  trav |-> 1]
NoGc == [for |-> "none", rest |-> << >>, sec |-> None, at |-> 0, trav |-> 0]
NoScan == [rest |-> << >>, at |-> 0]
EmptyCache == [k \in Keys |-> None]

Init == /\ flash = [s \in Sectors |-> Erased]
        /\ phase = "off"
        /\ pc = "off"
        /\ oldest = 0
        /\ gcRequest = FALSE
        /\ lastDel = FALSE
        /\ cache = EmptyCache
        /\ req = NoReq
        /\ put = NoPut
        /\ src = None
        /\ alreadyGc = FALSE
        /\ gc = NoGc
        /\ scan = NoScan
        /\ todo = << >>
        /\ missing = {}
        /\ cuts = 0

------------------------------------------------------------------------------
(* The power.                                                              *)

(* Everything in RAM is lost.                                              *)
Lost == /\ oldest' = 0
        /\ gcRequest' = FALSE
        /\ lastDel' = FALSE
        /\ cache' = EmptyCache
        /\ req' = NoReq
        /\ put' = NoPut
        /\ src' = None
        /\ alreadyGc' = FALSE
        /\ gc' = NoGc
        /\ scan' = NoScan
        /\ todo' = << >>
        /\ missing' = {}

PowerOff == /\ phase # "off"
            /\ IF pc \in {"idle", "halted"} THEN UNCHANGED cuts
               ELSE cuts < MaxCuts /\ cuts' = cuts + 1
            /\ phase' = "off"
            /\ pc' = "off"
            /\ Lost
            /\ UNCHANGED flash

(* read_kv gives a record without a length the status ERR_HDR the first    *)
(* time it comes across it, and so it does with the erased bytes at the    *)
(* start of a sector in use that has no record yet.  Nothing is written to *)
(* such a sector before it was read, so this is done here for all.         *)
Reread(sector) ==
    IF sector.ok /\ sector.store \in {"USING", "FULL"}
    THEN [sector EXCEPT !.kv = IF @ = << >> THEN <<Dead>>
                               ELSE [i \in DOMAIN @ |->
                                       IF @[i] = Blank("PRE_WRITE")
                                       THEN Dead ELSE @[i]]]
    ELSE sector

(* fdb_kvdb_init up to _fdb_kv_load's check of the sector headers: the     *)
(* second sector is the oldest when the first is empty.  read_sector_info  *)
(* leaves the status of a sector without a magic word as it was: garbage   *)
(* is what the stack held.                                                 *)
PowerOn == /\ phase = "off"
           /\ \E garbage \in {"EMPTY", "USING"} :
                LET first == IF flash[0].ok THEN flash[0].store ELSE garbage
                IN oldest' = IF /\ first = "EMPTY"
                                /\ flash[1].ok
                                /\ flash[1].store \in {"USING", "FULL"}
                             THEN 1 ELSE 0
           /\ flash' = [s \in Sectors |-> Reread(flash[s])]
           /\ phase' = "format"
           /\ LET bad == {s \in Sectors : ~flash[s].ok}
              IN /\ todo' = IF bad = Sectors THEN <<0, 1, 0, 1>>
                            ELSE IF bad = {} THEN << >>
                            ELSE <<CHOOSE s \in bad : TRUE>>
                 /\ missing' = IF bad = Sectors THEN Defaults ELSE {}
           /\ pc' = "formatnext"
           /\ UNCHANGED <<gcRequest, lastDel, cache, req, put, src, alreadyGc,
                          gc, scan, cuts>>

------------------------------------------------------------------------------
(* format_sector, for the sectors with a bad header and for the garbage    *)
(* collector: the erasure, then the header.  The magic word is the last of *)
(* the header's writes, and without it the others are not looked at.       *)

FormatNext ==
    /\ pc = "formatnext"
    /\ IF todo # << >>
       THEN /\ pc' = "erase"
            /\ UNCHANGED <<phase, oldest, scan>>
       ELSE IF missing # {}
       THEN /\ phase' = "default"
            /\ pc' = "default"
            /\ UNCHANGED <<oldest, scan>>
       ELSE /\ phase' = "gccheck"
            /\ pc' = "gccheck"
            /\ scan' = [rest |-> Order, at |-> 0]
            /\ UNCHANGED oldest
    /\ UNCHANGED <<flash, gcRequest, lastDel, cache, req, put, src, alreadyGc,
                   gc, todo, missing, cuts>>

(* The sector being formatted.                                             *)
Doomed == IF phase = "format" THEN Head(todo) ELSE gc.sec

Erase == /\ pc = "erase"
         /\ flash' = [flash EXCEPT ![Doomed] = Erased]
         /\ pc' = "header"
         /\ UNCHANGED <<phase, ram, frames, cuts>>

(* do_gc goes on: oldest_addr is the next sector, or FAILED_ADDR when this *)
(* was the last one of the traversal; a collection for one record stops at *)
(* the first sector, those of _fdb_kv_load visit all.                      *)
WriteHeader ==
    /\ pc = "header"
    /\ flash' = [flash EXCEPT ![Doomed] = Formatted]
    /\ IF phase = "format"
       THEN /\ todo' = Tail(todo)
            /\ pc' = "formatnext"
            /\ UNCHANGED <<oldest, gc>>
       ELSE /\ oldest' = IF gc.trav < Cardinality(Sectors) THEN 1 - gc.sec
                                                           ELSE None
            /\ gc' = [gc EXCEPT !.rest = IF gc.for \in {"new", "set"}
                                         THEN << >> ELSE @]
            /\ pc' = "gcnext"
            /\ UNCHANGED todo
    /\ UNCHANGED <<phase, gcRequest, lastDel, cache, req, put, src, alreadyGc,
                   scan, missing, cuts>>

------------------------------------------------------------------------------
(* fdb_kv_set_default creates the defaults one by one, and a default that  *)
(* cannot be created is passed over; then the oldest sector is the first.  *)

(* Mutant: only one default is created.                                    *)
DefaultNextFirst ==
    /\ pc = "default"
    /\ IF missing = {}
       THEN /\ oldest' = 0
            /\ phase' = "gccheck"
            /\ pc' = "gccheck"
            /\ scan' = [rest |-> <<0, 1>>, at |-> 0]
            /\ req' = NoReq
            /\ UNCHANGED <<put, missing>>
       ELSE /\ \E k \in missing :
                 /\ req' = [key |-> k, val |-> Default[k]]
                 /\ put' = ToCreate(k, Default[k])
            /\ missing' = {}
            /\ pc' = "new"
            /\ UNCHANGED <<phase, oldest, scan>>
    /\ UNCHANGED <<flash, gcRequest, lastDel, cache, src, alreadyGc, gc, todo,
                   cuts>>

DefaultNext ==
    /\ pc = "default"
    /\ IF missing = {}
       THEN /\ oldest' = 0
            /\ phase' = "gccheck"
            /\ pc' = "gccheck"
            /\ scan' = [rest |-> <<0, 1>>, at |-> 0]
            /\ req' = NoReq
            /\ UNCHANGED <<put, missing>>
       ELSE /\ \E k \in missing :
                 /\ req' = [key |-> k, val |-> Default[k]]
                 /\ put' = ToCreate(k, Default[k])
                 /\ missing' = missing \ {k}
            /\ pc' = "new"
            /\ UNCHANGED <<phase, oldest, scan>>
    /\ UNCHANGED <<flash, gcRequest, lastDel, cache, src, alreadyGc, gc, todo,
                   cuts>>

------------------------------------------------------------------------------
(* The calls of the program.                                               *)

(* Every iterator starts at oldest_addr; when that is FAILED_ADDR the      *)
(* assertion of read_sector_info (line 401) stops the program.             *)
Halt == /\ phase' = "halted"
        /\ pc' = "halted"
        /\ Lost

(* fdb_kv_set_blob of v, or fdb_kv_del when v is None.                     *)
Call(k, v) ==
    /\ pc = "idle"
    /\ req' = [key |-> k, val |-> v]
    /\ IF v = None
       THEN pc' = "find" /\ UNCHANGED put
       ELSE pc' = "new" /\ put' = ToCreate(k, v)
    /\ UNCHANGED <<flash, phase, ram, src, alreadyGc, gc, loading, cuts>>

(* fdb_kv_get_blob changes nothing but the cache.                          *)
Get(k) ==
    /\ pc = "idle"
    /\ IF oldest = None /\ ~Hit(k) THEN Halt
       ELSE /\ cache' = IF Find(k) = None THEN cache
                        ELSE [cache EXCEPT ![k] = Find(k)]
            /\ UNCHANGED <<phase, pc, oldest, gcRequest, lastDel, frames>>
    /\ UNCHANGED <<flash, cuts>>

(* new_kv: room for the record, after a collection if need be.             *)
NewKv ==
    /\ pc = "new"
    /\ IF oldest = None THEN Halt
       ELSE IF Alloc(gcRequest) # None
       THEN /\ put' = [put EXCEPT !.to = Alloc(gcRequest)]
            /\ alreadyGc' = FALSE
            /\ pc' = IF phase = "default" THEN "status" ELSE "find"
            /\ UNCHANGED <<phase, ram, req, src, gc, loading>>
       ELSE IF Raised(gcRequest) /\ ~alreadyGc
       THEN /\ gcRequest' = TRUE
            /\ alreadyGc' = TRUE
            /\ gc' = [NoGc EXCEPT !.for = "new"]
            /\ pc' = "gc"
            /\ UNCHANGED <<phase, oldest, lastDel, cache, req, put, src,
                           loading>>
       ELSE /\ gcRequest' = (gcRequest /\ ~alreadyGc)
            /\ alreadyGc' = FALSE
            /\ put' = NoPut
            /\ pc' = IF phase = "default" THEN "default" ELSE "full"
            /\ UNCHANGED <<phase, oldest, lastDel, cache, req, src, gc,
                           loading>>
    /\ UNCHANGED <<flash, cuts>>

(* find_kv, for the old record of the key.  The cache remembers what it    *)
(* finds.                                                                  *)
FindOld ==
    /\ pc = "find"
    /\ IF oldest = None /\ ~Hit(req.key) THEN Halt
       ELSE LET a == Find(req.key)
            IN /\ src' = a
               /\ cache' = IF a = None THEN cache
                           ELSE [cache EXCEPT ![req.key] = a]
               /\ pc' = IF req.val = None
                        THEN IF a = None THEN "absent" ELSE "delete"
                        ELSE IF a = None THEN "status" ELSE "predelete"
               /\ UNCHANGED <<phase, oldest, gcRequest, lastDel, req, put,
                              alreadyGc, gc, loading>>
    /\ UNCHANGED <<flash, cuts>>

(* The call returns FDB_NO_ERR, FDB_KV_NAME_ERR or FDB_SAVED_FULL.         *)
Return == /\ pc \in {"done", "absent", "full"}
          /\ pc' = "idle"
          /\ req' = NoReq
          /\ put' = NoPut
          /\ src' = None
          /\ UNCHANGED <<flash, phase, ram, alreadyGc, gc, loading, cuts>>

------------------------------------------------------------------------------
(* create_kv_blob and the copy of move_kv: the record put goes to the end  *)
(* of its sector.                                                          *)

(* move_kv is running: for the garbage collector or for the recovery.      *)
Moving == gc.for # "none" \/ phase = "kvcheck"

Last == <<put.to, Len(flash[put.to].kv)>>

(* update_sec_status.                                                      *)
UpdateSecStatus ==
    /\ pc = "status"
    /\ LET fills == /\ flash[put.to].store = "USING"
                    /\ Remain(put.to) - 1 < Reserve
       IN /\ flash' = [flash EXCEPT ![put.to].store =
                                      IF fills THEN "FULL" ELSE "USING"]
          /\ put' = [put EXCEPT !.full = fills]
    /\ pc' = "prewrite"
    /\ UNCHANGED <<phase, ram, req, src, alreadyGc, gc, loading, cuts>>

PreWrite ==
    /\ pc = "prewrite"
    /\ flash' = [flash EXCEPT ![put.to].kv = Append(@, Blank("PRE_WRITE"))]
    /\ pc' = "data"
    /\ UNCHANGED <<phase, ram, frames, cuts>>

(* The header, the name and the value, after which the CRC is right.  A    *)
(* cut before the last byte leaves a record that recovery treats like a    *)
(* whole one in PRE_WRITE.                                                 *)
WriteData ==
    /\ pc = "data"
    /\ flash' = Mark(Last, [st |-> "PRE_WRITE", ok |-> TRUE,
                            key |-> put.key, val |-> put.val])
    /\ pc' = "write"
    /\ UNCHANGED <<phase, ram, frames, cuts>>

(* FDB_KV_WRITE: the record is in force.  create_kv_blob asks for a        *)
(* collection when it has filled the sector.                               *)
CommitWrite ==
    /\ pc = "write"
    /\ flash' = Mark(Last, [At(Last) EXCEPT !.st = "WRITE"])
    /\ cache' = [cache EXCEPT ![put.key] = Last]
    /\ gcRequest' = (gcRequest \/ (put.full /\ ~Moving))
    /\ put' = NoPut
    /\ pc' = IF Moving THEN "delete"
             ELSE IF phase = "default" THEN "default"
             ELSE IF src # None THEN "delete" ELSE "endset"
    /\ UNCHANGED <<phase, oldest, lastDel, req, src, alreadyGc, gc, loading,
                   cuts>>

------------------------------------------------------------------------------
(* del_kv of the record at src.                                            *)

(* complete_del is false: the record is about to be replaced.              *)
(* Mutant: the old record is deleted before the new one is in force.       *)
PreDeleteWhole ==
    /\ pc = "predelete"
    /\ flash' = Mark(src, Dead)
    /\ lastDel' = TRUE
    /\ pc' = "predirty"
    /\ UNCHANGED <<phase, oldest, gcRequest, cache, frames, cuts>>
PreDelete ==
    /\ pc = "predelete"
    /\ flash' = Mark(src, [At(src) EXCEPT !.st = "PRE_DELETE"])
    /\ lastDel' = TRUE
    /\ pc' = "predirty"
    /\ UNCHANGED <<phase, oldest, gcRequest, cache, frames, cuts>>

(* complete_del is true.  The key leaves the cache unless the call before  *)
(* was the other one.  In flash only the status changes: the name stays,   *)
(* and a cached address of the deleted record would go on hitting it       *)
(* (line 245).  The model drops the name, which is the same as long as no  *)
(* such address is looked up: ReadsAgree.                                  *)
(* Mutant: the deleted key stays in the cache.                             *)
DeleteCached ==
    /\ pc = "delete"
    /\ flash' = Mark(src, Dead)
    /\ lastDel' = FALSE
    /\ pc' = "dirty"
    /\ UNCHANGED <<phase, oldest, gcRequest, cache, frames, cuts>>
Delete ==
    /\ pc = "delete"
    /\ flash' = Mark(src, Dead)
    /\ cache' = IF lastDel THEN cache ELSE [cache EXCEPT ![At(src).key] = None]
    /\ lastDel' = FALSE
    /\ pc' = "dirty"
    /\ UNCHANGED <<phase, oldest, gcRequest, frames, cuts>>

(* Both end by marking the record's sector dirty.                          *)
MarkDirty ==
    /\ pc \in {"predirty", "dirty"}
    /\ flash' = [flash EXCEPT ![src[1]].dirty =
                                  IF @ = "FALSE" THEN "TRUE" ELSE @]
    /\ src' = IF pc = "dirty" THEN None ELSE src
    /\ pc' = IF pc = "predirty"
             THEN IF Moving THEN "movealloc" ELSE "status"
             ELSE IF gc.for # "none" THEN "gckv"
             ELSE IF phase = "kvcheck" THEN "kvcheck"
             ELSE IF req.val = None THEN "done" ELSE "endset"
    /\ UNCHANGED <<phase, ram, req, put, alreadyGc, gc, loading, cuts>>

(* The end of set_kv: the garbage is collected if that was asked for.      *)
EndSet ==
    /\ pc = "endset"
    /\ IF gcRequest
       THEN gc' = [NoGc EXCEPT !.for = "set"] /\ pc' = "gc"
       ELSE pc' = "done" /\ UNCHANGED gc
    /\ UNCHANGED <<flash, phase, ram, req, put, src, alreadyGc, loading, cuts>>

------------------------------------------------------------------------------
(* gc_collect_by_free_size and do_gc.                                      *)

(* Two empty sectors are above FDB_GC_EMPTY_SEC_THRESHOLD: there is        *)
(* nothing to collect.                                                     *)
GcStart ==
    /\ pc = "gc"
    /\ IF oldest = None THEN Halt
       ELSE /\ gc' = [gc EXCEPT !.rest = IF Empty = Sectors THEN << >>
                                                         ELSE Order]
            /\ pc' = "gcnext"
            /\ UNCHANGED <<phase, ram, req, put, src, alreadyGc, loading>>
    /\ UNCHANGED <<flash, cuts>>

(* A dirty sector is collected, a clean one passed over.  do_gc writes the *)
(* mark without looking (line 1075), so that of a sector whose collection  *)
(* was cut off is programmed a second time: Resumed, below.                *)
GcSector ==
    /\ pc = "gcnext"
    /\ gc.rest # << >>
    /\ LET s == Head(gc.rest)
           dirty == flash[s].ok /\ flash[s].dirty \in {"TRUE", "GC"}
       IN /\ flash' = IF dirty THEN [flash EXCEPT ![s].dirty = "GC"] ELSE flash
          /\ gc' = [gc EXCEPT !.rest = Tail(@), !.sec = s, !.at = 1,
                             !.trav = @ + 1]
          /\ pc' = IF dirty THEN "gckv" ELSE "gcnext"
    /\ UNCHANGED <<phase, ram, req, put, src, alreadyGc, loading, cuts>>

(* The next record of the sector that is in force, or about to be replaced,*)
(* is moved; then the sector is formatted.                                 *)
GcRecord ==
    /\ pc = "gckv"
    /\ LET live == {i \in gc.at..Len(flash[gc.sec].kv) :
                       LET r == At(<<gc.sec, i>>)
                       IN r.ok /\ r.st \in {"WRITE", "PRE_DELETE"}}
           i == CHOOSE i \in live : \A j \in live : i <= j
       IN IF live = {}
          THEN /\ pc' = "erase"
               /\ UNCHANGED <<src, gc>>
          ELSE /\ src' = <<gc.sec, i>>
               /\ gc' = [gc EXCEPT !.at = i + 1]
               /\ pc' = IF At(<<gc.sec, i>>).st = "WRITE" THEN "predelete"
                                                          ELSE "movealloc"
    /\ UNCHANGED <<flash, phase, ram, req, put, alreadyGc, loading, cuts>>

GcReturn == CASE gc.for = "new"     -> "new"
              [] gc.for = "set"     -> "done"
              [] gc.for = "gccheck" -> "gccheck"
              [] gc.for = "kvcheck" -> "kvstart"

GcDone ==
    /\ pc = "gcnext"
    /\ gc.rest = << >>
    /\ gcRequest' = FALSE
    /\ gc' = NoGc
    /\ pc' = GcReturn
    /\ put' = IF gc.for = "new" THEN ToCreate(req.key, req.val) ELSE put
    /\ UNCHANGED <<flash, phase, oldest, lastDel, cache, req, src, alreadyGc,
                   loading, cuts>>

(* find_kv_no_cache during the recovery: the copy of k is already there.   *)
(* Mutant: it is not looked for.                                           *)
CopiedNever(k) == FALSE
Copied(k) == phase \in {"gccheck", "kvcheck"} /\ Records(k, {"WRITE"}) # {}

(* move_kv once the record is marked: room for the copy is found first,    *)
(* even when the recovery then finds that the copy is already there.       *)
MoveAlloc ==
    /\ pc = "movealloc"
    /\ LET to == Alloc(gcRequest)
           old == At(src)
       IN IF oldest = None THEN Halt
          ELSE /\ gcRequest' = Raised(gcRequest)
               /\ IF to = None
                  THEN /\ pc' = IF gc.for # "none" THEN "gckv" ELSE "kvend"
                       /\ src' = None
                       /\ UNCHANGED put
                  ELSE IF Copied(old.key)
                  THEN pc' = "delete" /\ UNCHANGED <<put, src>>
                  ELSE /\ put' = [key |-> old.key, val |-> old.val,
                                  to |-> to, full |-> FALSE]
                       /\ pc' = "status"
                       /\ UNCHANGED src
               /\ UNCHANGED <<phase, oldest, lastDel, cache, req, alreadyGc,
                              gc, loading>>
    /\ UNCHANGED <<flash, cuts>>

------------------------------------------------------------------------------
(* The recovery of _fdb_kv_load.                                           *)

(* check_and_recovery_gc_cb, sector by sector: a collection that was       *)
(* interrupted is resumed.                                                 *)
GcCheck ==
    /\ pc = "gccheck"
    /\ IF scan.rest = << >>
       THEN /\ phase' = "kvcheck"
            /\ pc' = "kvstart"
            /\ UNCHANGED <<scan, gcRequest, gc>>
       ELSE LET s == Head(scan.rest)
            IN /\ scan' = [scan EXCEPT !.rest = Tail(@)]
               /\ UNCHANGED phase
               /\ IF flash[s].ok /\ flash[s].dirty = "GC"
                  THEN /\ gcRequest' = TRUE
                       /\ gc' = [NoGc EXCEPT !.for = "gccheck"]
                       /\ pc' = "gc"
                  ELSE UNCHANGED <<gcRequest, gc, pc>>
    /\ UNCHANGED <<flash, oldest, lastDel, cache, req, put, src, alreadyGc,
                   todo, missing, cuts>>

(* kv_iterator with check_and_recovery_kv_cb starts at the oldest sector.  *)
KvStart ==
    /\ pc = "kvstart"
    /\ IF oldest = None THEN Halt
       ELSE /\ scan' = [rest |-> Order, at |-> 1]
            /\ pc' = "kvcheck"
            /\ UNCHANGED <<phase, ram, req, put, src, alreadyGc, gc, todo,
                           missing>>
    /\ UNCHANGED <<flash, cuts>>

(* The record reached: one that was about to be replaced is copied, one    *)
(* that was not finished becomes an error and ends the iteration, one in   *)
(* force is cached.                                                        *)
KvCheck ==
    /\ pc = "kvcheck"
    /\ IF scan.rest = << >>
       THEN /\ pc' = "kvend"
            /\ UNCHANGED <<flash, scan, src, cache>>
       ELSE LET s == Head(scan.rest)
                a == <<s, scan.at>>
            IN IF flash[s].store \notin {"USING", "FULL"} \/ a \notin Addresses
               THEN /\ scan' = [rest |-> Tail(scan.rest), at |-> 1]
                    /\ UNCHANGED <<flash, src, cache, pc>>
               ELSE /\ scan' = [scan EXCEPT !.at = @ + 1]
                    /\ CASE At(a).ok /\ At(a).st = "PRE_DELETE"
                              -> /\ src' = a
                                 /\ pc' = "movealloc"
                                 /\ UNCHANGED <<flash, cache>>
                         [] At(a).st = "PRE_WRITE"
                              -> /\ flash' = Mark(a, Dead)
                                 /\ pc' = "kvend"
                                 /\ UNCHANGED <<src, cache>>
                         [] At(a).ok /\ At(a).st = "WRITE"
                              -> /\ cache' = [cache EXCEPT ![At(a).key] = a]
                                 /\ UNCHANGED <<flash, src, pc>>
                         [] OTHER -> UNCHANGED <<flash, src, cache, pc>>
    /\ UNCHANGED <<phase, oldest, gcRequest, lastDel, req, put, alreadyGc, gc,
                   todo, missing, cuts>>

(* A collection that was asked for, and the check again; otherwise the     *)
(* database is open.                                                       *)
(* Mutant: the check is made again even when nothing was collected.        *)
KvEndAgain ==
    /\ pc = "kvend"
    /\ scan' = NoScan
    /\ IF gcRequest
       THEN /\ gc' = [NoGc EXCEPT !.for = "kvcheck"]
            /\ pc' = "gc"
       ELSE pc' = "kvstart" /\ UNCHANGED gc
    /\ UNCHANGED <<flash, phase, ram, req, put, src, alreadyGc, todo, missing,
                   cuts>>
KvEnd ==
    /\ pc = "kvend"
    /\ scan' = NoScan
    /\ IF gcRequest
       THEN /\ gc' = [NoGc EXCEPT !.for = "kvcheck"]
            /\ pc' = "gc"
            /\ UNCHANGED phase
       ELSE /\ phase' = "run"
            /\ pc' = "idle"
            /\ UNCHANGED gc
    /\ UNCHANGED <<flash, ram, req, put, src, alreadyGc, todo, missing, cuts>>

------------------------------------------------------------------------------
Step == \/ FormatNext \/ Erase \/ WriteHeader \/ DefaultNext
        \/ NewKv \/ FindOld \/ Return
        \/ UpdateSecStatus \/ PreWrite \/ WriteData \/ CommitWrite
        \/ PreDelete \/ Delete \/ MarkDirty \/ EndSet
        \/ GcStart \/ GcSector \/ GcRecord \/ GcDone \/ MoveAlloc
        \/ GcCheck \/ KvStart \/ KvCheck \/ KvEnd

Next == \/ Step
        \/ PowerOn
        \/ PowerOff
        \/ \E k \in Keys : Get(k)
        \/ \E k \in Keys, v \in Values \cup {None} : Call(k, v)

(* While there is power the program goes on, and whoever runs the robot    *)
(* switches it on again.                                                   *)
Fairness == /\ WF_vars(Step)
            /\ WF_vars(PowerOn)
            /\ WF_vars(pc = "halted" /\ PowerOff)

Spec == Init /\ [][Next]_vars /\ Fairness

------------------------------------------------------------------------------
(* What the database holds for its caller.                                 *)

Current(k)  == Records(k, {"WRITE"})
Replaced(k) == Records(k, {"PRE_DELETE"})
ValueIn(S)  == At(CHOOSE a \in S : TRUE).val

(* The record in force, or else the one that was about to be replaced.     *)
Stored(k) == LET current == Current(k)
                 replaced == Replaced(k)
             IN IF current # {} THEN ValueIn(current)
                ELSE IF replaced # {} THEN ValueIn(replaced)
                ELSE None

(* The call has taken effect: set_kv once the new record is in force,      *)
(* del_kv once the old one is not.                                         *)
Effective == \/ pc \in {"endset", "done"}
             \/ gc.for = "set"
             \/ gc.for = "none" /\ pc = "dirty"
             \/ gc.for = "none" /\ pc = "delete" /\ req.val # None

Map == INSTANCE DurableMap WITH
    map  <- [k \in Keys |-> Stored(k)],
    ask  <- IF req = NoReq \/ phase = "default" THEN None
            ELSE [key |-> req.key, val |-> req.val, done |-> Effective],
    life <- IF phase = "run" THEN "up"
            ELSE IF missing # {} \/ phase = "default"
                    \/ \A s \in Sectors : ~flash[s].ok
            THEN "created" ELSE "down",
    cuts <- cuts

------------------------------------------------------------------------------
(* Properties.                                                             *)

Statuses == {"PRE_WRITE", "WRITE", "PRE_DELETE"}
Whole == [st : Statuses, ok : {TRUE}, key : Keys, val : Values]
Record == Whole \cup {Dead, Blank("PRE_WRITE")}
Sector == [ok : BOOLEAN,
           store : {"UNUSED", "EMPTY", "USING", "FULL"},
           dirty : {"UNUSED", "FALSE", "TRUE", "GC"},
           kv : Seq(Record)]
SomeAddress == Sectors \X (1..Slots)

TypeOK ==
    /\ flash \in [Sectors -> Sector]
    /\ \A s \in Sectors : Len(flash[s].kv) <= Slots
    /\ phase \in {"off", "format", "default", "gccheck", "kvcheck", "run",
                  "halted"}
    /\ oldest \in Sectors \cup {None}
    /\ gcRequest \in BOOLEAN /\ lastDel \in BOOLEAN /\ alreadyGc \in BOOLEAN
    /\ cache \in [Keys -> SomeAddress \cup {None}]
    /\ req \in [key : Keys \cup {None}, val : Values \cup {None}]
    /\ put \in [key : Keys \cup {None}, val : Values \cup {None},
                to : Sectors \cup {None}, full : BOOLEAN]
    /\ src \in Addresses \cup {None}
    /\ gc \in [for : {"none", "new", "set", "gccheck", "kvcheck"},
               rest : Seq(Sectors), sec : Sectors \cup {None},
               at : Nat, trav : Nat]
    /\ scan \in [rest : Seq(Sectors), at : Nat]
    /\ todo \in Seq(Sectors)
    /\ missing \subseteq Defaults
    /\ cuts \in 0..MaxCuts

(* A key never has two records in force: which of them is found would      *)
(* depend on the order of the sectors.  It is true up to two cuts, and so  *)
(* are ReadsAgree and MapSpec; RecoveredAll says what the third one does.  *)
OneCurrent == \A k \in Keys : Cardinality(Current(k)) <= 1

(* Whenever find_kv is called no value hides in a record that was about to *)
(* be replaced, and the cached address, whose record's status is not       *)
(* looked at, is that of the record in force.                              *)
ReadsAgree == pc \in {"idle", "find"} => \A k \in Keys :
                 /\ Replaced(k) = {}
                 /\ cache[k] # None => cache[k] \in Current(k)

(* "check all KV for recovery" (fdb_kvdb.c:1615): once the database is     *)
(* open, no value is left in a record that was about to be replaced.  The  *)
(* check ends at the first unfinished record (line 1573), and two cuts can *)
(* leave two of them: the third cut finds one in front of a record it has  *)
(* half replaced, the next start does not get to that record, and the      *)
(* value is gone until a later start or a collection copies it; what a     *)
(* collection copies comes beside any newer one, for it does not look.     *)
RecoveredAll == pc = "idle" => \A k \in Keys : Replaced(k) = {}

(* However cuts and collections follow each other, no call is turned away  *)
(* for want of room, and the collector always finds room for a copy (it    *)
(* would erase the original all the same).                                 *)
RoomRemains == /\ pc # "full"
               /\ pc = "movealloc" /\ gc.for # "none" =>
                     Alloc(gcRequest) # None

(* The assertion of read_sector_info can fail: when the power is cut while *)
(* the second sector is being collected, or while the first is erased.     *)
(* Both sectors are then readable and none is half collected, so that the  *)
(* next start opens the database.                                          *)
HaltHeals == phase = "halted" => /\ cuts > 0
                                 /\ \A s \in Sectors : flash[s].ok
                                                     /\ flash[s].dirty # "GC"

(* What flash allows: a byte once written stays until its sector is        *)
(* erased.  A record is appended, its content is written once, and its     *)
(* status only moves forward; so do those of a sector.                     *)
Rank(st) == CASE st \in {"UNUSED", "PRE_WRITE"} -> 1
              [] st \in {"EMPTY", "FALSE", "WRITE"} -> 2
              [] st \in {"USING", "TRUE", "PRE_DELETE"} -> 3
              [] st \in {"FULL", "GC", "DELETED"} -> 4

Programmed(old, new) ==
    \/ new = old \/ new = Dead
    \/ old = Blank("PRE_WRITE") /\ new.st = "PRE_WRITE"
    \/ /\ Rank(new.st) >= Rank(old.st)
       /\ old = [new EXCEPT !.st = old.st]

WritesOnce(old, new) ==
    \/ new = Erased
    \/ old = Erased /\ new = Formatted
    \/ /\ new.ok = old.ok
       /\ Rank(new.store) >= Rank(old.store)
       /\ Rank(new.dirty) >= Rank(old.dirty)
       /\ Len(new.kv) >= Len(old.kv)
       /\ \A i \in 1..Len(old.kv) : Programmed(old.kv[i], new.kv[i])

ForwardOnly == \A s \in Sectors : WritesOnce(flash[s], flash'[s])

(* The steps that program flash whatever it holds; the others write a      *)
(* status only when it changes.                                            *)
Programs == \/ WriteHeader \/ PreWrite \/ WriteData \/ CommitWrite
            \/ PreDelete \/ Delete
            \/ GcSector /\ pc' = "gckv"

(* After a cut the recovery resumes the collection of a sector that is     *)
(* marked already, and marks it again.                                     *)
Resumed == /\ cuts > 0 /\ phase = "gccheck"
           /\ GcSector /\ flash[Head(gc.rest)].dirty = "GC"

(* Nothing is programmed twice between two erasures, which "some flash     *)
(* (like stm32 onchip)" does not support (fdb_utils.c:166), with this one  *)
(* exception.                                                              *)
WriteOnce == [][ForwardOnly /\ (Programs => flash' # flash \/ Resumed)]_vars

(* Every answered call took effect and survives every later cut; a call    *)
(* that was cut off took effect whole or not at all; and the first opening *)
(* finds every default, unless a cut came between.                         *)
MapSpec == Map!Spec

(* After every cut, and after every failure of the assertion, the database *)
(* opens again: the recovery ends, and a second start helps where the      *)
(* first one hangs.                                                        *)
Reopens == []<>(phase = "run")
==============================================================================
