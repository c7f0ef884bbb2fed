------------------------------ MODULE MCHashSet -----------------------------
(* Instances of HashSet for TLC.                                           *)
EXTENDS HashSet, TLC

CONSTANTS k1, k2, k3

(* Hash values for k1, k2, k3: all on the first slot; on the last one, so  *)
(* that probing wraps; on neighbouring slots; each on its own.             *)
HashesTo(a, b, c) == [key \in Key |->
                        CASE key = k1 -> a [] key = k2 -> b [] OTHER -> c]

CollidingHashes ==
  {HashesTo(0, 0, 0), HashesTo(3, 3, 0), HashesTo(1, 2, 1), HashesTo(0, 1, 2)}

(* A request of 4 makes 1 << pow negative, which no calloc can serve; one  *)
(* of 8 is an undefined shift, and a set of a single slot if it goes on.   *)
Requests == {0, 2, 4, 8}
=============================================================================
