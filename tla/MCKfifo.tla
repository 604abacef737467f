------------------------------- MODULE MCKfifo -------------------------------
(* A four-slot ring whose counters wrap after two laps, with calls of one  *)
(* and two bytes, so that calls fill the ring, find it full, straddle its  *)
(* end and carry a counter over the wrap.  The byte values only have to be *)
(* told apart, so they are interchangeable.                                *)
EXTENDS Kfifo, TLC

ByteSymmetry == Permutations(Byte)
==============================================================================
