------------------------------ MODULE LossyLink ------------------------------
(***************************************************************************)
(* What a packet link promises: the payloads handed over are payloads that *)
(* were sent, in the order in which they were sent, each at most once.     *)
(* Any of them may be missing.                                             *)
(***************************************************************************)
EXTENDS Naturals

VARIABLES sent,      (* the payloads sent so far, numbered from 1          *)
          received   (* the one last handed over, 0 before the first       *)

linkVars == <<sent, received>>

Init == sent \in {0, 1} /\ received = 0

Send == sent' = sent + 1 /\ UNCHANGED received

Deliver(n) == received < n /\ received' = n /\ UNCHANGED sent

Next == Send \/ \E n \in 1..sent : Deliver(n)

Spec == Init /\ [][Next]_linkVars
==============================================================================
