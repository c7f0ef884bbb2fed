------------------------------ MODULE MCTuple -------------------------------
(* Instances of Tuple for TLC.                                             *)
EXTENDS Tuple, TLC

CONSTANTS d1, d2

ShortArrays == {<<>>, <<d1>>, <<d1, d2>>}

(* Buffer addresses are interchangeable.                                   *)
Symmetry == Permutations(Buffer)
=============================================================================
