------------------------------ MODULE HashSet -------------------------------
(***************************************************************************)
(* The set of hash.c: the probing of the hash table without its length,    *)
(* its expansion and its check for room.  One action per call.             *)
(*                                                                         *)
(* setCreate allocates a pointer's size for each entry, and an entry takes *)
(* ENTRY_WORDS pointers (three: mark, size and key), so most slots lie     *)
(* beyond the allocated block.  A call that touches one is undefined: it   *)
(* may find memory that nothing else uses and go on as if the slot were    *)
(* there, or it has the result Undefined and the client makes no further   *)
(* call.  A creation that comes to an undefined shift may likewise go on   *)
(* with what the shift instruction gives.  As for the table, a Key is a    *)
(* class of pointers that _hashKeyComp cannot tell apart, and NULL stands  *)
(* for the arguments a call rejects.                                       *)
(***************************************************************************)
EXTENDS Probing, FiniteSets

CONSTANTS
  Key, HashFun, MinCapacity,
  Unfinished, Undefined,
  ENTRY_WORDS     \* sizeof(SetEntry) / sizeof(SetEntry*)

SetEntry == [is_tombstone : BOOLEAN, key : Key \cup {NULL}]

ASSUME HashSetAssumption ==
  /\ NULL \notin Key
  /\ \A capacity \in 1 .. SizeSpan - 1 :
       NULL \notin [capacity : {capacity}, hash_fun : HashFun,
                   container : [0 .. capacity - 1 -> SetEntry]]
  /\ HashFun \subseteq [Key -> Nat]
  /\ MinCapacity \subseteq Nat
  /\ ENTRY_WORDS \in Nat \ {0}

VARIABLES
  set,   \* the set, NULL when the client holds none
  ret    \* the call made last, with its key and its result

vars == <<set, ret>>

Vacant == [is_tombstone |-> FALSE, key |-> NULL]

NewSet(hash_fun, capacity) ==
  [capacity |-> capacity, hash_fun |-> hash_fun,
   container |-> [i \in 0 .. capacity - 1 |-> Vacant]]

(* The slots that lie within the allocated block.                          *)
Block(s) == {i \in 0 .. s.capacity - 1 : (i + 1) * ENTRY_WORDS <= s.capacity}

Start(s, key) == HashIndex(s.hash_fun, key, s.capacity)

Stop(s, key, stops) == FirstIn(stops, Start(s, key), s.capacity)

(* The probing touches every slot up to the one it stops at, and the whole *)
(* container when it stops nowhere.                                        *)
Overruns(s, key, stops) ==
  \E d \in 0 .. s.capacity - 1 :
    /\ Probe(Start(s, key), d, s.capacity) \notin Block(s)
    /\ \A e \in 0 .. d - 1 : Probe(Start(s, key), e, s.capacity) \notin stops

(* Mutant: a lookup that stops at tombstones.                              *)
LookupStopsEarly(s, key) ==
  VacantSlots(s.container) \cup Tombstones(s.container) \cup Holding(s.container, key)

LookupStops(s, key) == VacantSlots(s.container) \cup Holding(s.container, key)

InsertStops(s, key) == LookupStops(s, key) \cup Tombstones(s.container)

Found(s, key) ==
  LookupStops(s, key) # {} /\ Stop(s, key, LookupStops(s, key)) \in Holding(s.container, key)

(* The key goes into a vacant slot or the first tombstone, wherever it may *)
(* be already further on.                                                  *)
Inserted(s, key) ==
  LET slot == Stop(s, key, InsertStops(s, key))
  IN  IF slot \in Holding(s.container, key) THEN s
      ELSE [s EXCEPT !.container[slot] = [is_tombstone |-> FALSE, key |-> key]]

(* Mutant: a pop that clears its slot and leaves no mark.                  *)
RemovedNoMark(s, slot) == [s EXCEPT !.container[slot] = Vacant]

(* Mutant: a pop that marks its slot and leaves the key in it.             *)
RemovedInPart(s, slot) == [s EXCEPT !.container[slot].is_tombstone = TRUE]

Removed(s, slot) ==
  [s EXCEPT !.container[slot] = [is_tombstone |-> TRUE, key |-> NULL]]

-----------------------------------------------------------------------------
(* The API.                                                                *)

Init ==
  /\ set = NULL
  /\ ret = [call |-> "none", key |-> NULL, result |-> NULL]

Returns(call, key, result) ==
  ret' = [call |-> call, key |-> key, result |-> result]

Ready == ret.result \notin {Unfinished, Undefined}

(* A request of zero is not refused.                                       *)
SetCreate(hash_fun, min_capacity) ==
  /\ Ready
  /\ set = NULL
  /\ \/ /\ UNCHANGED set
        /\ Returns("setCreate", NULL, FALSE)
     \/ /\ ShiftUndefined(min_capacity)
        /\ UNCHANGED set
        /\ Returns("setCreate", NULL, Undefined)
     \/ /\ \E capacity \in Capacities(min_capacity) :
             /\ Allocatable(capacity)
             /\ set' = NewSet(hash_fun, capacity)
        /\ Returns("setCreate", NULL, TRUE)

SetDelete ==
  /\ Ready
  /\ set' = NULL
  /\ Returns("setDelete", NULL, NULL)

(* A null argument.                                                        *)
Rejected(call, key, result) ==
  /\ set = NULL \/ key = NULL
  /\ Returns(call, key, result)
  /\ UNCHANGED set

(* The two ways in which probing for a slot among stops fails to return.   *)
Fails(call, key, stops) ==
  /\ \/ Overruns(set, key, stops) /\ Returns(call, key, Undefined)
     \/ stops = {} /\ Returns(call, key, Unfinished)
  /\ UNCHANGED set

SetInsert(key) ==
  /\ Ready
  /\ \/ Rejected("setInsert", key, FALSE)
     \/ /\ set # NULL /\ key # NULL
        /\ \/ Fails("setInsert", key, InsertStops(set, key))
           \/ /\ InsertStops(set, key) # {}
              /\ set' = Inserted(set, key)
              /\ Returns("setInsert", key, TRUE)

SetSearch(key) ==
  /\ Ready
  /\ \/ Rejected("setSearch", key, FALSE)
     \/ /\ set # NULL /\ key # NULL
        /\ \/ Fails("setSearch", key, LookupStops(set, key))
           \/ /\ LookupStops(set, key) # {}
              /\ Returns("setSearch", key, Found(set, key))
              /\ UNCHANGED set

SetPop(key) ==
  /\ Ready
  /\ \/ Rejected("setPop", key, NULL)
     \/ /\ set # NULL /\ key # NULL
        /\ \/ Fails("setPop", key, LookupStops(set, key))
           \/ /\ LookupStops(set, key) # {} /\ ~Found(set, key)
              /\ Returns("setPop", key, NULL)
              /\ UNCHANGED set
           \/ /\ Found(set, key)
              /\ set' = Removed(set, Stop(set, key, LookupStops(set, key)))
              /\ Returns("setPop", key, key)

(* The program probes for ever, or has stopped.                            *)
Stuck ==
  /\ ~Ready
  /\ UNCHANGED vars

Next ==
  \/ \E hash_fun \in HashFun, min_capacity \in MinCapacity :
       SetCreate(hash_fun, min_capacity)
  \/ SetDelete
  \/ \E key \in Key \cup {NULL} : SetInsert(key)
  \/ \E key \in Key \cup {NULL} : SetSearch(key)
  \/ \E key \in Key \cup {NULL} : SetPop(key)
  \/ Stuck

Spec == Init /\ [][Next]_vars

-----------------------------------------------------------------------------
(* Properties.                                                             *)

(* The set has the shape its struct declares, and no slot is both marked   *)
(* and occupied.                                                           *)
TypeOK ==
  /\ \/ set = NULL
     \/ /\ set \in [capacity : 1 .. SizeSpan - 1, hash_fun : HashFun,
                    container : [0 .. set.capacity - 1 -> SetEntry]]
        /\ Tombstones(set.container) \cap KeySlots(set.container) = {}
  /\ ret.result \in BOOLEAN \cup Key \cup {NULL, Unfinished, Undefined}

(* No vacant slot lies between the slot a key hashes to and a slot that    *)
(* stores it, as far as no call has been undefined.                        *)
ProbeChain ==
  set # NULL =>
    \A i \in KeySlots(set.container), d, e \in 0 .. set.capacity - 1 :
      LET start == Start(set, set.container[i].key)
      IN  Probe(start, d, set.capacity) = i /\ e < d
            => Probe(start, e, set.capacity) \notin VacantSlots(set.container)

(* What the probe paths are for: a lookup that ends has found the key if   *)
(* and only if some slot holds it, whatever marks lie in between.          *)
LookupExact ==
  set # NULL => \A key \in Key : Found(set, key) <=> Holding(set.container, key) # {}

(* The set implements CountedSet: a key is found exactly while an entry of *)
(* it is left, an insertion returns exactly while the key or a slot to put *)
(* it in is there, and a lookup exactly while the key or a slot never used *)
(* before is.                                                              *)
Places(s) == IF s = NULL THEN 0 ELSE s.capacity
Counts(s) == [key \in Key |->
                IF s = NULL THEN 0 ELSE Cardinality(Holding(s.container, key))]
Marks(s) == IF s = NULL THEN 0 ELSE Cardinality(Tombstones(s.container))

(* A request too large for the shift of setCreate.                         *)
Overlarge == \E min_capacity \in MinCapacity : ShiftUndefined(min_capacity)

Counted == INSTANCE CountedSet WITH
  capacity <- Places(set), count <- Counts(set), marks <- Marks(set)

ImplementsCountedSet == Counted!Spec


=============================================================================
