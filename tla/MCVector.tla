------------------------------ MODULE MCVector ------------------------------
(* Instances of Vector for TLC.                                            *)
EXTENDS Vector, TLC

CONSTANTS d1, d2

Requests == {0, 1, 4, 8}

ShortArrays == {<<>>, <<d1, d2>>, <<d1, d1, d1, d1>>}

(* Handles and buffer addresses are interchangeable.                       *)
Symmetry == Permutations(Handle) \cup Permutations(Buffer)
=============================================================================
