------------------------------- MODULE MCIter -------------------------------
(* Instances of Iter for TLC.                                              *)
EXTENDS Iter

CONSTANTS d1, d2, k1, k2

ShortArrays == {<<>>, <<d1>>, <<d1, d2>>}

(* Both keys on the last slot, so that probing wraps, or apart.            *)
Hashes == {[key \in Key |-> 3], [key \in Key |-> IF key = k1 THEN 0 ELSE 2]}
=============================================================================
