------------------------------ MODULE Probing -------------------------------
(***************************************************************************)
(* Linear probing, as the tables and the sets of hash.c do it: the path of *)
(* ProbePath and what a slot on it holds.  A container is a function from  *)
(* 0..capacity-1 to entries, of which these operators look at is_tombstone *)
(* and key alone.                                                          *)
(***************************************************************************)
EXTENDS Common, ProbePath

CONSTANT NULL     \* the null pointer

VacantSlots(c) == {i \in DOMAIN c : c[i].key = NULL /\ ~c[i].is_tombstone}
Tombstones(c) == {i \in DOMAIN c : c[i].is_tombstone}
KeySlots(c) == {i \in DOMAIN c : c[i].key # NULL}
Holding(c, key) == {i \in DOMAIN c : ~c[i].is_tombstone /\ c[i].key = key}

=============================================================================
