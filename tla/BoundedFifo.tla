----------------------------- MODULE BoundedFifo -----------------------------
(***************************************************************************)
(* What Control/kfifo.c promises its callers: a queue of at most Capacity  *)
(* bytes.  kfifo_in appends a prefix of the bytes it is offered, kfifo_out *)
(* removes a prefix of the queue and hands over exactly those bytes, at    *)
(* most as many as it was asked for, and kfifo_reset_out empties the queue.*)
(* No byte is invented, lost inside the queue, duplicated or reordered.    *)
(***************************************************************************)
EXTENDS Naturals, Sequences

CONSTANTS Capacity,  (* bytes the queue can hold: kfifo.size               *)
          MaxIn,     (* most bytes one kfifo_in offers                     *)
          MaxReq,    (* most bytes one kfifo_out asks for                  *)
          Byte       (* the byte values                                    *)

VARIABLES queue,  (* the bytes accepted and not yet handed over, in order  *)
          from,   (* the bytes the writer is offering, << >> between calls *)
          need,   (* how many bytes the reader asks for, 0 between calls   *)
          got     (* the bytes the last finished kfifo_out handed over     *)

fifoVars == <<queue, from, need, got>>

Requests == UNION { [1..n -> Byte] : n \in 1..MaxIn }

Init == /\ queue = << >>
        /\ from = << >>
        /\ need = 0
        /\ got = << >>

(* kfifo_in is called with the bytes s.                                    *)
Offer(s) == /\ from = << >>
            /\ from' = s
            /\ UNCHANGED <<queue, need, got>>

(* kfifo_in returns n: the first n bytes offered are now in the queue.     *)
Accept(n) == /\ from # << >>
             /\ n <= Len(from)
             /\ Len(queue) + n <= Capacity
             /\ queue' = queue \o SubSeq(from, 1, n)
             /\ from' = << >>
             /\ UNCHANGED <<need, got>>

(* kfifo_out is called for n bytes.                                        *)
Ask(n) == /\ need = 0
          /\ need' = n
          /\ UNCHANGED <<queue, from, got>>

(* kfifo_out returns n: the n oldest bytes leave the queue for the caller. *)
HandOver(n) == /\ need # 0
               /\ n <= need
               /\ n <= Len(queue)
               /\ got' = SubSeq(queue, 1, n)
               /\ queue' = SubSeq(queue, n + 1, Len(queue))
               /\ need' = 0
               /\ UNCHANGED from

(* kfifo_reset_out: the reader skips what is queued.                       *)
Skip == /\ need = 0
        /\ queue' = << >>
        /\ UNCHANGED <<from, need, got>>

Next == \/ \E s \in Requests : Offer(s)
        \/ \E n \in 0..MaxIn : Accept(n)
        \/ \E n \in 1..MaxReq : Ask(n)
        \/ \E n \in 0..MaxReq : HandOver(n)
        \/ Skip

Spec == Init /\ [][Next]_fifoVars
==============================================================================
