---------------------------- MODULE MCHashTable -----------------------------
(* Instances of HashTable for TLC.                                         *)
EXTENDS HashTable, TLC

CONSTANTS k1, k2, k3

HashesTo(a, b, c) == [key \in Key |->
                        CASE key = k1 -> a [] key = k2 -> b [] OTHER -> c]

(* Hash values for k1, k2, k3 in tables of up to 4 slots: all keys on the  *)
(* last slot, so that probing wraps; one of them on the slot before it;    *)
(* two on a slot with the third one on the next.                           *)
CollidingHashes == {HashesTo(3, 3, 3), HashesTo(3, 3, 2), HashesTo(1, 2, 1)}

(* k1 and k2 share a slot of a table of 4, or neighbouring ones, and part  *)
(* when it grows to 8.  With HashesTo(3, 7, 0) probing wraps before the    *)
(* expansion and not after it, which exchanges two entries of one key.     *)
GrowthHashes ==
  {HashesTo(3, 7, 0), HashesTo(2, 6, 0), HashesTo(7, 6, 0), HashesTo(3, 2, 0)}

Hashes == CollidingHashes \cup GrowthHashes

(* A request of 4 makes 1 << pow negative, which no calloc can serve; one  *)
(* of 8 is an undefined shift, and a table of a single slot if it goes on. *)
Requests == {0, 1, 2, 4, 8}

(* Tables of 4 slots that grow to 8 hold two keys; those with three have   *)
(* no memory to grow beyond 4.                                             *)
Bounded ==
  ht # NULL =>
    IF ht.hash_fun \in GrowthHashes
    THEN ht.capacity \in {4, 8} /\ (k3 \in Key => Holding(ht.container, k3) = {})
    ELSE ht.capacity <= 4

MCNext == Next /\ Bounded'

MCSpec == Init /\ [][MCNext]_vars

DatumSymmetry == Permutations(Datum)
=============================================================================
