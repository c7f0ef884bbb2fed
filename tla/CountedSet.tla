----------------------------- MODULE CountedSet -----------------------------
(***************************************************************************)
(* What the set of hash.c amounts to, without slots and probing.  It has a *)
(* fixed number of places.  A place that a pop has freed is marked: it can *)
(* be filled again but does not count as unused.  In a set with marks, an  *)
(* insertion may count a key that is present once more, and the key is     *)
(* then a member until it has been popped as often as it was counted.      *)
(***************************************************************************)
EXTENDS Integers, FiniteSets

CONSTANTS
  Key, NULL, Unfinished, Undefined,
  Overlarge    \* the client may ask for a set larger than an int can count

VARIABLES
  capacity,   \* the number of places, 0 without a set
  count,      \* how often each key is counted
  marks,      \* the number of marked places
  ret         \* the call made last, with its key and its result

vars == <<capacity, count, marks, ret>>

Returns(call, key, result) ==
  ret' = [call |-> call, key |-> key, result |-> result]

Ready == ret.result \notin {Unfinished, Undefined}

Open == capacity > 0

(* The places that hold a key, as many for each key as it is counted.      *)
Taken == Cardinality(UNION {{key} \X (1 .. count[key]) : key \in Key})

Empty == count = [key \in Key |-> 0] /\ marks = 0

Init ==
  /\ capacity = 0
  /\ Empty
  /\ ret = [call |-> "none", key |-> NULL, result |-> NULL]

Create ==
  /\ ~Open
  /\ Empty'
  /\ \/ capacity' \in Nat /\ Returns("setCreate", NULL, capacity' > 0)
     \/ Overlarge /\ capacity' = 0 /\ Returns("setCreate", NULL, Undefined)

Delete ==
  /\ capacity' = 0
  /\ Empty'
  /\ Returns("setDelete", NULL, NULL)

(* A null argument, a call that is undefined, and one that never returns.  *)
Idle(call, key, rejection, endless) ==
  /\ \/ /\ ~Open \/ key = NULL
        /\ Returns(call, key, rejection)
     \/ Open /\ key # NULL /\ Returns(call, key, Undefined)
     \/ Open /\ key # NULL /\ count[key] = 0 /\ endless
        /\ Returns(call, key, Unfinished)
  /\ UNCHANGED <<capacity, count, marks>>

(* An absent key is sought for ever when every place is taken or marked.   *)
Lost == Taken + marks = capacity

Insert(key) ==
  \/ Idle("setInsert", key, FALSE, Taken = capacity)
  \/ /\ Open /\ key # NULL
     /\ \/ /\ count[key] > 0
           /\ UNCHANGED <<count, marks>>
        \/ /\ count' = [count EXCEPT ![key] = @ + 1]
           /\ \/ marks > 0 /\ marks' = marks - 1
              \/ count[key] = 0 /\ ~Lost /\ UNCHANGED marks
     /\ Returns("setInsert", key, TRUE)
     /\ UNCHANGED capacity

Search(key) ==
  \/ Idle("setSearch", key, FALSE, Lost)
  \/ /\ Open /\ key # NULL
     /\ count[key] > 0 \/ ~Lost
     /\ Returns("setSearch", key, count[key] > 0)
     /\ UNCHANGED <<capacity, count, marks>>

Pop(key) ==
  \/ Idle("setPop", key, NULL, Lost)
  \/ /\ Open /\ key # NULL
     /\ \/ /\ count[key] > 0
           /\ count' = [count EXCEPT ![key] = @ - 1]
           /\ marks' = marks + 1
           /\ Returns("setPop", key, key)
        \/ /\ count[key] = 0 /\ ~Lost
           /\ Returns("setPop", key, NULL)
           /\ UNCHANGED <<count, marks>>
     /\ UNCHANGED capacity

Next ==
  /\ Ready
  /\ \/ Create \/ Delete
     \/ \E key \in Key \cup {NULL} : Insert(key) \/ Search(key) \/ Pop(key)

Spec == Init /\ [][Next]_vars

=============================================================================
