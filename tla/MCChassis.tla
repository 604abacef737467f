------------------------------ MODULE MCChassis ------------------------------
(* Remote-control frames that reach every branch of a cycle: the three     *)
(* positions of the mode switch, a stick, the spin stick, and a locating   *)
(* target that moves and one that does not.                                *)
EXTENDS Chassis

Switches(ch9) == [ch1 |-> 0, ch2 |-> 0, ch4 |-> 0, ch5 |-> 1, ch9 |-> ch9]
MCRcFrame == { Switches(1), Switches(2), Switches(3),
               [Switches(2) EXCEPT !.ch5 = 2],
               [Switches(3) EXCEPT !.ch1 = 1, !.ch2 = 1],
               [Switches(1) EXCEPT !.ch4 = 1] }

(* For the property about switching off: drive, and switch off.            *)
OffRcFrame == { Switches(1), [Switches(3) EXCEPT !.ch1 = 1, !.ch2 = 1] }
==============================================================================
