----------------------------- MODULE ProbePath ------------------------------
(***************************************************************************)
(* The order in which linear probing visits the slots of a container: what *)
(* the tables and the sets of hash.c have in common whatever they store.   *)
(***************************************************************************)
EXTENDS Integers

(* hash & (capacity - 1), the remainder as long as the capacity is a power *)
(* of two (see CapacityPowerOfTwo).                                        *)
HashIndex(hash_fun, key, capacity) == hash_fun[key] % capacity

(* The slot reached from start after d increments with wrap-around.        *)
Probe(start, d, capacity) ==
  IF start + d < capacity THEN start + d ELSE start + d - capacity

(* The first slot of S on the probe path from start; the loop visits each  *)
(* slot once before it starts over.                                        *)
FirstIn(S, start, capacity) ==
  LET dist == {d \in 0 .. capacity - 1 : Probe(start, d, capacity) \in S}
  IN  Probe(start, CHOOSE d \in dist : \A e \in dist : d <= e, capacity)

=============================================================================
