------------------------------- MODULE MCKvdb -------------------------------
EXTENDS Kvdb, TLC
CONSTANTS k1, k2, v1, v2
MCDefault == k1 :> v1 @@ k2 :> v2
==============================================================================
