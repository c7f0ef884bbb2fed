----------------------------- MODULE MCHashing ------------------------------
(* Instances of Hashing for TLC.                                           *)
EXTENDS Hashing

(* Up to two elements of one to three bytes, what follows the shorter      *)
(* ones, and a zero byte at the end.                                       *)
Bytes == {m \in [1 .. 6 -> Byte] : m[6] = 0}
=============================================================================
