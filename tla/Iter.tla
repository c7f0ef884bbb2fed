-------------------------------- MODULE Iter --------------------------------
(***************************************************************************)
(* The iterator of linear.c over each of the five containers, and the loop *)
(* README.md shows a client write around it: create, then read and go on   *)
(* until there is nothing left, with any calls on the container in the     *)
(* body of the loop, and leaving it early if need be.                      *)
(*                                                                         *)
(* The iterator copies a pointer and a bound from the container and never  *)
(* looks at the container again.  A behaviour is about one container, of   *)
(* the type chosen at first; its calls are those of the module that models *)
(* it, as far as they change it.  An access to memory that is freed or     *)
(* outside of a block, and one through a null pointer, stops the program.  *)
(***************************************************************************)
EXTENDS Tuple

CONSTANTS
  Unfinished,
  Node,                         \* as in SLList
  Key, HashFun, ENTRY_WORDS,    \* as in HashSet
  MaxLength,    \* the client adds to no vector or list longer than this
  Types         \* the types of container it may iterate over

VARIABLES
  list, node, lret,    \* as in SLList, ret being that of Tuple
  ht, hret,            \* as in HashTable
  set, sret            \* as in HashSet

L == INSTANCE SLList WITH ret <- lret
H == INSTANCE HashTable WITH ret <- hret
S == INSTANCE HashSet WITH ret <- sret

ASSUME IterAssumption ==
  /\ Types \subseteq {"VECTOR", "TUPLE", "SLLIST", "HASH_TABLE", "SET"}
  /\ Handle # {} /\ Datum # {}
  /\ L!SLListAssumption /\ H!HashTableAssumption /\ S!HashSetAssumption
  /\ NULL \notin [index : Nat, index_max : Nat,
                  container : Nat \cup Buffer \cup Node \cup {NULL}]

VARIABLES
  type,      \* the IterableType of the container
  iter,      \* the struct Iter, NULL when the client has none
  loop,      \* "out" of it, "at" a new position, "read", or "stopped"
  ground,    \* what the iterator stands on: "firm", "empty", "short" or "freed"
  stay,      \* what was there when the iterator was made, and ever since
  seen       \* what the client has been shown

linear == tupleVars
lists == <<list, node, lret>>
hashes == <<ht, hret, set, sret>>
walk == <<type, iter, loop, ground, stay, seen>>
loopVars == <<linear, lists, hashes, walk>>

-----------------------------------------------------------------------------
(* The container.                                                          *)

Hashed == type \in {"HASH_TABLE", "SET"}

Struct ==
  CASE type = "VECTOR" -> vec[CHOOSE h \in Handle : TRUE]
    [] type = "TUPLE" -> tuple
    [] type = "SLLIST" -> list
    [] type = "HASH_TABLE" -> ht
    [] type = "SET" -> set

(* The block of memory the elements are in: the buffer, or for a table the *)
(* array of slots, which is another one exactly when the capacity changes. *)
(* All that frees nodes of a list is sllDelete, which leaves it empty.     *)
Block ==
  IF Struct = NULL THEN {}
  ELSE CASE type = "SLLIST" -> {Struct.head # NULL}
         [] Hashed -> {Struct.capacity}
         [] OTHER -> {Struct.container}

(* The elements in it, each with its place where that does not change.     *)
Present ==
  IF Struct = NULL THEN {}
  ELSE CASE type = "SLLIST" -> {<<n, node[n].data>> : n \in L!Chain}
         [] Hashed -> {Struct.container[i].key : i \in DOMAIN Struct.container} \ {NULL}
         [] OTHER -> {<<i, heap[Struct.container][i]>> : i \in 0 .. Struct.length - 1}

(* Those the length of a list stands for.                                  *)
Counted ==
  IF type # "SLLIST" THEN Present
  ELSE {e \in Present : \E i \in 0 .. Struct.length - 1 :
          i <= Cardinality(Node) /\ L!Reached(Struct.head)[i] = e[1]}

-----------------------------------------------------------------------------
(* The iterator.                                                           *)

IterInit ==
  /\ TupleInit /\ L!Init /\ H!Init /\ S!Init
  /\ type \in Types
  /\ iter = NULL /\ loop = "out" /\ ground = "firm"
  /\ stay = {} /\ seen = {}

(* Every call so far has returned.                                         *)
AllReady == loop # "stopped" /\ Ready /\ L!Ready /\ H!Ready /\ S!Ready

Containers == <<linear, lists, hashes>>

(* Mutant: the bound of a hash table is the number of its keys.            *)
BoundByLength == IF type = "SET" THEN Struct.capacity ELSE Struct.length

(* What iterCreate copies into index_max and container.                    *)
Bound == IF Hashed THEN Struct.capacity ELSE Struct.length

Start ==
  CASE type = "SLLIST" -> Struct.head
    [] Hashed -> Struct.capacity    \* stands for the array of that many slots
    [] OTHER -> Struct.container

IterCreate ==
  /\ AllReady /\ loop = "out"
  /\ Struct # NULL
  /\ iter' = [index |-> 0, index_max |-> Bound, container |-> Start]
  /\ loop' = "at"
  /\ ground' = IF Bound = 0 THEN "empty"
               ELSE IF type = "SLLIST" /\ Bound > Cardinality(L!Chain) THEN "short"
               ELSE "firm"
  /\ stay' = Counted
  /\ UNCHANGED <<Containers, type, seen>>

(* The iterator is gone.                                                   *)
Leave ==
  /\ iter' = NULL
  /\ loop' = "out" /\ ground' = "firm"
  /\ stay' = {} /\ seen' = {}
  /\ UNCHANGED type

Stop == loop' = "stopped" /\ UNCHANGED <<type, iter, ground, stay, seen>>

(* What iterGetData points to, and whether it may be read.                 *)
Readable ==
  /\ ground # "freed"
  /\ CASE type = "SLLIST" -> iter.container # NULL
       [] Hashed -> iter.index < iter.container
       [] OTHER -> iter.index \in DOMAIN heap[iter.container]

Shown ==
  CASE type = "SLLIST" -> {<<iter.container, node[iter.container].data>>}
    [] Hashed -> {Struct.container[iter.index].key} \ {NULL}
    [] OTHER -> {<<iter.index, heap[iter.container][iter.index]>>}

(* Most slots of a set are outside of the block allocated for them.        *)
InBlock == type = "SET" => iter.index \in S!Block(set)

(* iterGetData, and the client's look at what it returns.                  *)
IterGetData ==
  /\ AllReady /\ loop = "at"
  /\ \/ /\ Readable
        /\ loop' = "read"
        /\ seen' = seen \cup Shown
        /\ UNCHANGED <<type, iter, ground, stay>>
     \/ /\ ~(Readable /\ InBlock)
        /\ Stop
  /\ UNCHANGED Containers

(* Mutant: the index stays where it is.                                    *)
AdvancedNot ==
  [iter EXCEPT !.container = IF type = "SLLIST" THEN node[@].next ELSE @]

Advanced ==
  [iter EXCEPT !.index = (@ + 1) % SizeSpan,
               !.container = IF type = "SLLIST" THEN node[@].next ELSE @]

(* Mutant: the loop goes on to the bound itself.                           *)
AtEndLate(i) == i.index_max < i.index

AtEnd(i) == i.index_max = i.index

(* The node the iterator is at may be gone.                                *)
Lost == type = "SLLIST" /\ ground = "freed"

(* The last step of a loop deletes the iterator.                           *)
IterNext ==
  /\ AllReady /\ loop = "read"
  /\ \/ Lost /\ Stop
     \/ ~Lost /\ AtEnd(Advanced) /\ Leave
     \/ /\ ~Lost /\ ~AtEnd(Advanced)
        /\ iter' = Advanced
        /\ loop' = "at"
        /\ UNCHANGED <<type, ground, stay, seen>>
  /\ UNCHANGED Containers

(* The client breaks out of the loop.                                      *)
IterDelete ==
  /\ AllReady /\ loop = "read"
  /\ Leave
  /\ UNCHANGED Containers

-----------------------------------------------------------------------------
(* The client's calls on the container, before, in and after the loop.     *)

MayGrow == Struct # NULL => Struct.length < MaxLength

VectorChanges ==
  \E h \in Handle :
    \/ \E min_capacity \in MinCapacity : VectorCreate(h, min_capacity)
    \/ \E arr \in Arrays : VectorFromArray(h, arr)
    \/ VectorDelete(h)
    \/ \E data \in Datum : MayGrow /\ VectorPrepend(h, data)
    \/ \E data \in Datum, index \in Index : VectorUpdate(h, data, index)

(* The tuple may come from a vector that then changes.                     *)
TupleChanges ==
  \/ \E values \in Arrays : TupleCreate(DATA_SIZE, values)
  \/ TupleDelete
  \/ \E h \in Handle : VectorToTuple(h) \/ TupleToVector(h)
  \/ /\ \E h \in Handle :
          \/ VectorDelete(h)
          \/ \E data \in Datum, index \in Index : VectorUpdate(h, data, index)
     /\ UNCHANGED tuple

ListChanges ==
  \/ L!SllCreate
  \/ L!SllDelete
  \/ \E data \in Datum : MayGrow /\ (L!SllPrepend(data) \/ L!SllAppend(data))

(* Only the keys of a table are shown: one datum is enough.                *)
TableChanges ==
  \/ \E hash_fun \in HashFun, min_capacity \in MinCapacity :
       H!HtCreate(hash_fun, min_capacity)
  \/ H!HtDelete
  \/ \E key \in Key : H!HtSet(key, CHOOSE data \in Datum : TRUE) \/ H!HtPop(key)

SetChanges ==
  \/ \E hash_fun \in HashFun, min_capacity \in MinCapacity :
       S!SetCreate(hash_fun, min_capacity)
  \/ S!SetDelete
  \/ \E key \in Key : S!SetInsert(key) \/ S!SetPop(key)

ContainerCall ==
  /\ AllReady /\ loop # "at"
  /\ UNCHANGED <<type, iter, loop, seen>>
  /\ \/ type = "VECTOR" /\ VectorChanges /\ UNCHANGED <<tuple, lists, hashes>>
     \/ type = "TUPLE" /\ TupleChanges /\ UNCHANGED <<lists, hashes>>
     \/ type = "SLLIST" /\ ListChanges /\ UNCHANGED <<linear, hashes>>
     \/ type = "HASH_TABLE" /\ TableChanges /\ UNCHANGED <<linear, lists, set, sret>>
     \/ type = "SET" /\ SetChanges /\ UNCHANGED <<linear, lists, ht, hret>>
  /\ stay' = stay \cap Present'
  /\ ground' = IF iter # NULL /\ Block' # Block THEN "freed" ELSE ground

(* The program has stopped, or probes for ever.                            *)
Stuck == ~AllReady /\ UNCHANGED loopVars

LoopNext == IterCreate \/ IterGetData \/ IterNext \/ IterDelete \/ ContainerCall \/ Stuck

(* The body of the loop ends, so that the client gets to its next round.   *)
LoopSpec ==
  IterInit /\ [][LoopNext]_loopVars /\ WF_loopVars(IterGetData) /\ WF_loopVars(IterNext)

-----------------------------------------------------------------------------
(* Properties.                                                             *)

InLoop == loop \in {"at", "read"}

(* The client has an iterator exactly while it is in the loop, and the     *)
(* index is short of the bound unless there was nothing to iterate over.   *)
LoopTypeOK ==
  /\ InLoop => iter # NULL
  /\ loop = "out" => iter = NULL
  /\ iter # NULL /\ iter.index_max # 0 => iter.index \in 0 .. iter.index_max - 1
  /\ ground \in {"firm", "empty", "short", "freed"}

(* The loop is safe: it never reads outside of memory it may read, as long *)
(* as the container was not empty, is not deleted and does not move, and   *)
(* was no list that counts more elements than it has.  (Slots of a set     *)
(* outside of its block are another matter.)                               *)
SafeLoop ==
  /\ InLoop /\ ground = "firm" => Readable
  /\ loop = "stopped" => ground # "firm" \/ type = "SET"

(* The loop is complete: when it ends on firm ground it has shown all that *)
(* was in the container from its first round to its last, whatever came    *)
(* and went in the meantime.  Of a list it shows what length counts.       *)
Complete ==
  [][loop = "read" /\ ground = "firm" /\ IterNext /\ iter' = NULL
       => stay \subseteq seen]_loopVars

(* README.md:129: the loop ends by itself, or the program stops.           *)
LoopEnds == InLoop ~> loop = "out" \/ ~AllReady

=============================================================================
