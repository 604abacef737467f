----------------------------- MODULE DurableMap ------------------------------
(***************************************************************************)
(* What the key-value database of Hardware/flashbd promises main.c: a map  *)
(* from keys to values that survives the power being cut at any moment.    *)
(* A request takes effect at once or not at all, a request that was        *)
(* answered has taken effect (or was refused and changed nothing), and a   *)
(* cut loses the request under way, never what was stored.  The database   *)
(* starts with the defaults of main.c:182, all of them unless it was       *)
(* created under a cut; a cut is the only way a default can be left out.   *)
(***************************************************************************)
EXTENDS Naturals

CONSTANTS Keys, Values,
          None,       (* no value, no request                              *)
          Default     (* fdb_default_kv: the value each key starts with,   *)
                      (* None for a key that is not in the table           *)

VARIABLES map,   (* what the keys hold                                     *)
          ask,   (* the request under way: its key, the value it stores    *)
                 (* (None: it deletes the key) and whether it took effect; *)
                 (* None when there is none                                *)
          life,  (* the database is being "created", "up" or "down"        *)
          cuts   (* operations that the power cut off                      *)

mapVars == <<map, ask, life, cuts>>

Init == /\ map = [k \in Keys |-> None]
        /\ ask = None
        /\ life = "created"
        /\ cuts = 0

(* fdb_kv_set_default stores one of the defaults.                          *)
Provide(k) == /\ life = "created"
              /\ map' = [map EXCEPT ![k] = Default[k]]
              /\ UNCHANGED <<ask, life, cuts>>

(* fdb_kv_set_default is done: every default is there.  What remains is    *)
(* the check that every start makes.                                       *)
Provided == /\ life = "created"
            /\ \A k \in Keys : Default[k] # None => map[k] = Default[k]
            /\ life' = "down"
            /\ UNCHANGED <<ask, map, cuts>>

(* fdb_kvdb_init is done.                                                  *)
Open == /\ life = "down"
        /\ life' = "up"
        /\ UNCHANGED <<ask, map, cuts>>

(* fdb_kv_set_blob or fdb_kv_del is called.                                *)
Ask(k, v) == /\ life = "up"
             /\ ask = None
             /\ ask' = [key |-> k, val |-> v, done |-> FALSE]
             /\ UNCHANGED <<life, map, cuts>>

(* The request takes effect.                                               *)
Commit == /\ ask # None
          /\ ~ask.done
          /\ ask' = [ask EXCEPT !.done = TRUE]
          /\ map' = [map EXCEPT ![ask.key] = ask.val]
          /\ UNCHANGED <<life, cuts>>

(* FDB_NO_ERR is returned: the request has taken effect.                   *)
Reply == /\ ask # None
         /\ ask.done
         /\ ask' = None
         /\ UNCHANGED <<life, map, cuts>>

(* FDB_KV_NAME_ERR is returned: there is nothing to delete.                *)
Absent == /\ ask # None
          /\ ask' = None
          /\ ask.val = None
          /\ map[ask.key] = None
          /\ UNCHANGED <<life, map, cuts>>

(* The power is switched off between two requests.                         *)
Off == /\ life = "up"
       /\ ask = None
       /\ life' = "down"
       /\ UNCHANGED <<ask, map, cuts>>

(* The power is cut in the middle of an operation: the request under way   *)
(* is forgotten, what is stored stays.  A database that was being created  *)
(* is created anew if nothing was stored yet; otherwise it stays as it is, *)
(* and the defaults it does not have are never stored.                     *)
Cut == /\ ask' = None
       /\ \/ life' = "down"
          \/ /\ life = "created" /\ life' = "created"
             /\ \A k \in Keys : map[k] = None
       /\ cuts' = cuts + 1
       /\ UNCHANGED map

(* The assertion of read_sector_info stops the program, which only an      *)
(* earlier cut can bring about.                                            *)
Hang == /\ cuts > 0
        /\ life # "created"
        /\ ask' = None
        /\ life' = "down"
        /\ UNCHANGED <<map, cuts>>

Next == \/ \E k \in Keys : Provide(k)
        \/ Provided
        \/ Open
        \/ \E k \in Keys, v \in Values \cup {None} : Ask(k, v)
        \/ Commit
        \/ Reply
        \/ Absent
        \/ Off
        \/ Cut
        \/ Hang

Spec == Init /\ [][Next]_mapVars
==============================================================================
