----------------------------- MODULE HashTable ------------------------------
(***************************************************************************)
(* The hash table of hash.c: open addressing, linear probing, tombstones,  *)
(* doubling at 85% load.  One action per call of the API; a probing loop   *)
(* is a choice of the slot it ends at, see Probing.                        *)
(*                                                                         *)
(* A Key is a class of pointers that _hashKeyComp cannot tell apart, a     *)
(* Datum stands for the pair (data, data_size), and NULL for an argument   *)
(* the first test of a call rejects: a null pointer or a size of zero.     *)
(* The client holds at most one table, never passes NULL to the calls that *)
(* dereference it unchecked (htGet, htPop), and leaves the keys it handed  *)
(* over unchanged while the table refers to them.  A creation that comes   *)
(* to an undefined shift may go on with what the shift instruction gives,  *)
(* or has the result Undefined and the client makes no further call.       *)
(***************************************************************************)
EXTENDS Probing, FiniteSets

CONSTANTS
  Key, Datum,
  Unfinished,     \* the result of a call that never returns
  Undefined,      \* and of one that does what the language leaves undefined
  HashFun,        \* the hash functions a client may pass to htCreate
  MinCapacity     \* the minimum capacities a client may ask for

HTEntry == [is_tombstone : BOOLEAN, key : Key \cup {NULL},
            data : Datum \cup {NULL}]

ASSUME HashTableAssumption ==
  /\ NULL \notin Key \cup Datum
  /\ \A capacity \in 1 .. SizeSpan - 1 :
       NULL \notin [capacity : {capacity}, length : Nat, hash_fun : HashFun,
                   container : [0 .. capacity - 1 -> HTEntry]]
  /\ HashFun \subseteq [Key -> Nat]
  /\ MinCapacity \subseteq Nat

VARIABLES
  ht,    \* the table, NULL when the client holds none
  ret    \* the call made last, with its key and its result

vars == <<ht, ret>>

Vacant == [is_tombstone |-> FALSE, key |-> NULL, data |-> NULL]

(* Mutant: a pop that clears its slot and leaves no mark.                  *)
NoTombstone == Vacant

Tombstone == [Vacant EXCEPT !.is_tombstone = TRUE]

Filled(key, data) == [is_tombstone |-> FALSE, key |-> key, data |-> data]

Calloc(capacity) == [i \in 0 .. capacity - 1 |-> Vacant]

(* The slots at which htSearch, htGet and htPop stop looking for key.      *)
LookupStops(h, key) == VacantSlots(h.container) \cup Holding(h.container, key)

LookupSlot(h, key) ==
  FirstIn(LookupStops(h, key), HashIndex(h.hash_fun, key, h.capacity),
          h.capacity)

(* Mutant: a pop that does not check whether the loop met the key.         *)
FoundUnchecked(h, key) == LookupStops(h, key) # {}

Found(h, key) == /\ LookupStops(h, key) # {}
                 /\ h.container[LookupSlot(h, key)].key # NULL

(* The result of htGet: a vacant slot has no data.                         *)
Retrieved(h, key) ==
  LET stops == LookupStops(h, key)
      start == HashIndex(h.hash_fun, key, h.capacity)
  IN  IF stops = {} THEN Unfinished
      ELSE h.container[FirstIn(stops, start, h.capacity)].data

(* _htExpand copies one entry, unless its slot has no key.                 *)
Reinsert(c, capacity, hash_fun, entry) ==
  IF entry.key = NULL THEN c
  ELSE LET slot == FirstIn(DOMAIN c \ KeySlots(c),
                           HashIndex(hash_fun, entry.key, capacity), capacity)
       IN  [c EXCEPT ![slot] = Filled(entry.key, entry.data)]

(* Mutant: the entries are copied to the positions they had.               *)
RehashInPlace(h, new_capacity) ==
  [index \in 0 .. new_capacity - 1 |->
     IF index \in KeySlots(h.container) THEN h.container[index] ELSE Vacant]

(* Mutant: a copying loop that leaves out the last slot.                   *)
RehashShort(h, new_capacity) ==
  LET new_container[index \in 0 .. h.capacity - 1] ==
        IF index = 0 THEN Calloc(new_capacity)
        ELSE Reinsert(new_container[index - 1], new_capacity, h.hash_fun,
                      h.container[index - 1])
  IN  new_container[h.capacity - 1]

(* The copying loop of _htExpand, over the slots of the old container.     *)
Rehash(h, new_capacity) ==
  LET new_container[index \in 0 .. h.capacity] ==
        IF index = 0 THEN Calloc(new_capacity)
        ELSE Reinsert(new_container[index - 1], new_capacity, h.hash_fun,
                      h.container[index - 1])
  IN  new_container[h.capacity]

(* The tables htSet may go on with after _htExpand: the grown one, or the  *)
(* old one when the load is low, the doubled capacity overflows cds_size   *)
(* or calloc fails, as it must for half of the address space.              *)
Expanded(h) ==
  LET new_capacity == Double(h.capacity)
  IN  {h} \cup IF /\ ExpansionDue(h.capacity, h.length + 1)
                  /\ new_capacity > h.capacity
                  /\ Allocatable(new_capacity)
               THEN {[h EXCEPT !.capacity = new_capacity,
                               !.container = Rehash(h, new_capacity)]}
               ELSE {}

(* Mutant: an update that counts as an insertion.                          *)
SetDataCounted(h, key, data) ==
  LET c == h.container
      slot == FirstIn(VacantSlots(c) \cup Tombstones(c) \cup Holding(c, key),
                      HashIndex(h.hash_fun, key, h.capacity), h.capacity)
  IN  [h EXCEPT !.container[slot] = Filled(key, data), !.length = h.length + 1]

(* _htSetData: the loop stops at a vacant slot, at the key and at the      *)
(* first tombstone, wherever the key may be further on.                    *)
SetData(h, key, data) ==
  LET c == h.container
      slot == FirstIn(VacantSlots(c) \cup Tombstones(c) \cup Holding(c, key),
                      HashIndex(h.hash_fun, key, h.capacity), h.capacity)
  IN  IF c[slot].key = key
      THEN [h EXCEPT !.container[slot].data = data]
      ELSE [h EXCEPT !.container[slot] = Filled(key, data),
                     !.length = h.length + 1]

-----------------------------------------------------------------------------
(* The API.                                                                *)

Init ==
  /\ ht = NULL
  /\ ret = [call |-> "none", key |-> NULL, result |-> NULL]

Returns(call, key, result) ==
  ret' = [call |-> call, key |-> key, result |-> result]

Ready == ret.result \notin {Unfinished, Undefined}

(* Mutant: the last slot may be filled too.                                *)
FitsToTheLast(h) == h.length < h.capacity

(* htSet keeps one slot of the table without a key.                        *)
Fits(h) == h.length + 1 < h.capacity

NewTable(hash_fun, capacity) ==
  [capacity |-> capacity, length |-> 0, hash_fun |-> hash_fun,
   container |-> Calloc(capacity)]

(* NULL for a request that is zero or whose exponent does not fit, and     *)
(* when malloc or calloc fails.                                            *)
HtCreate(hash_fun, min_capacity) ==
  /\ Ready
  /\ ht = NULL
  /\ \/ /\ UNCHANGED ht
        /\ Returns("htCreate", NULL, FALSE)
     \/ /\ min_capacity # 0
        /\ ShiftUndefined(min_capacity)
        /\ UNCHANGED ht
        /\ Returns("htCreate", NULL, Undefined)
     \/ /\ min_capacity # 0
        /\ \E capacity \in Capacities(min_capacity) :
             /\ Allocatable(capacity)
             /\ ht' = NewTable(hash_fun, capacity)
        /\ Returns("htCreate", NULL, TRUE)

HtDelete ==
  /\ Ready
  /\ ht' = NULL
  /\ Returns("htDelete", NULL, NULL)

(* htSearch answers FALSE to a null argument, and loops for ever when the  *)
(* container holds neither the key nor a vacant slot.                      *)
HtSearch(key) ==
  /\ Ready
  /\ Returns("htSearch", key,
       IF ht = NULL \/ key = NULL THEN FALSE
       ELSE IF LookupStops(ht, key) = {} THEN Unfinished
       ELSE Found(ht, key))
  /\ UNCHANGED ht

HtSet(key, data) ==
  /\ Ready
  /\ \/ /\ ht = NULL \/ key = NULL \/ data = NULL
        /\ Returns("htSet", key, FALSE)
        /\ UNCHANGED ht
     \/ /\ ht # NULL /\ key # NULL /\ data # NULL
        /\ \E h \in Expanded(ht) :
             /\ ht' = IF Fits(h) THEN SetData(h, key, data) ELSE h
             /\ Returns("htSet", key, Fits(h))

HtGet(key) ==
  /\ Ready
  /\ ht # NULL
  /\ Returns("htGet", key, Retrieved(ht, key))
  /\ UNCHANGED ht

HtPop(key) ==
  /\ Ready
  /\ ht # NULL
  /\ Returns("htPop", key, Retrieved(ht, key))
  /\ ht' = IF Found(ht, key)
           THEN [ht EXCEPT !.container[LookupSlot(ht, key)] = Tombstone,
                           !.length = ht.length - 1]
           ELSE ht

(* The program probes for ever, or has stopped.                            *)
Stuck ==
  /\ ~Ready
  /\ UNCHANGED vars

Next ==
  \/ \E hash_fun \in HashFun, min_capacity \in MinCapacity :
       HtCreate(hash_fun, min_capacity)
  \/ HtDelete
  \/ \E key \in Key \cup {NULL} : HtSearch(key)
  \/ \E key \in Key \cup {NULL}, data \in Datum \cup {NULL} : HtSet(key, data)
  \/ \E key \in Key : HtGet(key)
  \/ \E key \in Key : HtPop(key)
  \/ Stuck

Spec == Init /\ [][Next]_vars

-----------------------------------------------------------------------------
(* Properties.                                                             *)

Result == BOOLEAN \cup Datum \cup {NULL, Unfinished, Undefined}

(* Every variable has the shape the struct declarations give it, the       *)
(* container has as many slots as the capacity says, a tombstone carries   *)
(* no key, and htPop never takes length below zero.                        *)
TypeOK ==
  /\ \/ ht = NULL
     \/ /\ ht \in [capacity : Nat \ {0}, length : Nat, hash_fun : HashFun,
                   container : [0 .. ht.capacity - 1 -> HTEntry]]
        /\ Tombstones(ht.container) \cap KeySlots(ht.container) = {}
  /\ ret.result \in Result

(* Every capacity is a power of two, which the comment at hash.c:98 relies *)
(* on to replace the remainder by a mask.                                  *)
CapacityPowerOfTwo ==
  ht # NULL => \E n \in 0 .. MAX_POW2 - 1 : ht.capacity = Pow2[n]

(* No vacant slot lies on the probe path between the slot a key hashes to  *)
(* and a slot that stores it, in whatever order keys were set, popped and  *)
(* rehashed: a lookup that stops at a vacant slot has missed nothing.      *)
ProbeChain ==
  ht # NULL =>
    \A i \in KeySlots(ht.container), d, e \in 0 .. ht.capacity - 1 :
      LET start == HashIndex(ht.hash_fun, ht.container[i].key, ht.capacity)
      IN  Probe(start, d, ht.capacity) = i /\ e < d
            => Probe(start, e, ht.capacity) \notin VacantSlots(ht.container)

(* What the probe paths are for: a lookup that ends has found the key if   *)
(* and only if some slot holds it, whatever marks lie in between.          *)
LookupExact ==
  ht # NULL => \A key \in Key : Found(ht, key) <=> Holding(ht.container, key) # {}

(* htLength counts the slots that carry a key, through pops, reused        *)
(* tombstones and expansions.                                              *)
LengthCountsKeys ==
  ht # NULL => ht.length = Cardinality(KeySlots(ht.container))

(* At least one slot never carries a key, so the insertion loop of         *)
(* _htSetData always finds a vacant slot or a tombstone, even when every   *)
(* expansion has failed.                                                   *)
RoomToInsert == ht # NULL => ht.length < ht.capacity

(* The table implements ShadowMap: htGet and htPop return what was set,    *)
(* a call about one key leaves the data of the others alone except that an *)
(* expansion may bring a hidden datum back, and only a table with          *)
(* tombstones hides data or fails to answer.                               *)
Visible(h, key) ==
  IF LookupStops(h, key) = {} THEN NULL ELSE Retrieved(h, key)

Shown(h) == [key \in Key |-> IF h = NULL THEN NULL ELSE Visible(h, key)]

Storing(c, key, data) == {i \in Holding(c, key) : c[i].data = data}

Bindings(h) ==
  [key \in Key |-> [data \in Datum |->
     IF h = NULL THEN 0 ELSE Cardinality(Storing(h.container, key, data))]]

Marked(h) == h # NULL /\ Tombstones(h.container) # {}

(* A request too large for the shift of htCreate.                          *)
Overlarge == \E min_capacity \in MinCapacity : ShiftUndefined(min_capacity)

Promise == INSTANCE ShadowMap WITH
  open <- ht # NULL,
  visible <- Shown(ht),
  bound <- Bindings(ht),
  marked <- Marked(ht)

ImplementsPromise == Promise!Spec

(* hash.h:181 calls htSet the inserting and updating function, README.md:9 *)
(* the table an unordered map: a key has at most one entry.                *)
OneEntryPerKey ==
  ht # NULL => \A key \in Key : Cardinality(Holding(ht.container, key)) <= 1

(* hash.h:176: htSearch returns true if the key is present, or false       *)
(* otherwise; in either case it returns.                                   *)
LookupReturns == ret.result # Unfinished

=============================================================================
