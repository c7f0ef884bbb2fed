-------------------------- MODULE HashTableProofs ---------------------------
(***************************************************************************)
(* The invariants of HashTable, for any keys, data, hash functions and     *)
(* widths.  They are proved together: GoodTable, what they say about one   *)
(* table, is the inductive invariant.  The lemmas follow the operators of  *)
(* HashTable, from the probe path up to the calls.                         *)
(***************************************************************************)
EXTENDS HashTable, CommonProofs

Shaped(h) ==
  /\ h \in [capacity : Nat \ {0}, length : Nat, hash_fun : HashFun,
            container : [Slots(h.capacity) -> HTEntry]]
  /\ Tombstones(h.container) \cap KeySlots(h.container) = {}

Chained(c, capacity, hash_fun) ==
  \A i \in KeySlots(c), d, e \in Slots(capacity) :
    LET start == HashIndex(hash_fun, c[i].key, capacity)
    IN  Probe(start, d, capacity) = i /\ e < d
          => Probe(start, e, capacity) \notin VacantSlots(c)

PowerCapacity(h) == \E n \in 0 .. MAX_POW2 - 1 : h.capacity = Pow2[n]

Counted(h) == h.length = Cardinality(KeySlots(h.container))

(* The slots that carry a key have data, and no others.                    *)
Full(c) == \A i \in DOMAIN c : c[i].key = NULL <=> c[i].data = NULL

(* All that the invariants say about a table, save that a slot is free.    *)
SoundTable(h) ==
  /\ Shaped(h)
  /\ Full(h.container)
  /\ PowerCapacity(h)
  /\ Chained(h.container, h.capacity, h.hash_fun)
  /\ Counted(h)

GoodTable(h) == SoundTable(h) /\ h.length < h.capacity

-----------------------------------------------------------------------------
(* The copying loop of _htExpand.                                          *)

(* A hash index is a slot of the table.                                    *)
LEMMA HashIndexInTable ==
  ASSUME NEW hash_fun \in HashFun, NEW key \in Key, NEW capacity \in Nat \ {0}
  PROVE  HashIndex(hash_fun, key, capacity) \in Slots(capacity)
<1>1. hash_fun[key] \in Nat
  BY HashTableAssumption
<1> QED BY <1>1 DEF HashIndex, Slots

(* A new container: no key, no mark, and nothing to find.                  *)
LEMMA CallocEmpty ==
  ASSUME NEW capacity \in Nat \ {0}
  PROVE  /\ Calloc(capacity) \in [Slots(capacity) -> HTEntry]
         /\ KeySlots(Calloc(capacity)) = {}
         /\ Tombstones(Calloc(capacity)) = {}
         /\ Full(Calloc(capacity))
         /\ \A key \in Key, data \in Datum : Storing(Calloc(capacity), key, data) = {}
BY HashTableAssumption
   DEF Calloc, Slots, HTEntry, Vacant, KeySlots, Tombstones, Full, Storing, Holding

(* What writing one slot does to the sets a container is looked at by.     *)
Written(c, slot, entry) == [c EXCEPT ![slot] = entry]

LEMMA WrittenSlots ==
  ASSUME NEW capacity, NEW c \in [Slots(capacity) -> HTEntry],
         NEW slot \in Slots(capacity), NEW entry \in HTEntry,
         NEW r, r = Written(c, slot, entry)
  PROVE  /\ r \in [Slots(capacity) -> HTEntry]
         /\ r[slot] = entry /\ \A i \in Slots(capacity) \ {slot} : r[i] = c[i]
         /\ \A key \in Key :
              Holding(r, key) = (Holding(c, key) \ {slot}) \cup
                (IF entry.key = key /\ ~entry.is_tombstone THEN {slot} ELSE {})
         /\ \A key \in Key, data \in Datum :
              Storing(r, key, data) = (Storing(c, key, data) \ {slot}) \cup
                (IF entry.key = key /\ ~entry.is_tombstone /\ entry.data = data
                 THEN {slot} ELSE {})
<1>1. /\ r \in [Slots(capacity) -> HTEntry]
      /\ r[slot] = entry /\ \A i \in Slots(capacity) \ {slot} : r[i] = c[i]
  BY DEF Written
<1>2. DOMAIN r = Slots(capacity) /\ DOMAIN c = Slots(capacity)
  BY <1>1
<1> QED BY <1>1, <1>2 DEF Holding, Storing

(* Copying an entry into a container with a slot to spare fills one slot   *)
(* that had no key and breaks no probe path.                               *)
LEMMA ReinsertFills ==
  ASSUME NEW capacity \in Nat \ {0}, NEW hash_fun \in HashFun,
         NEW c \in [Slots(capacity) -> HTEntry],
         Tombstones(c) = {}, KeySlots(c) # Slots(capacity),
         Chained(c, capacity, hash_fun),
         NEW entry \in HTEntry, entry.key # NULL
  PROVE  LET r == Reinsert(c, capacity, hash_fun, entry)
         IN  /\ r \in [Slots(capacity) -> HTEntry]
             /\ Tombstones(r) = {}
             /\ Chained(r, capacity, hash_fun)
             /\ \E slot \in Slots(capacity) \ KeySlots(c) :
                  /\ r = Written(c, slot, Filled(entry.key, entry.data))
                  /\ KeySlots(r) = KeySlots(c) \cup {slot}
<1> DEFINE start == HashIndex(hash_fun, entry.key, capacity)
           S == Slots(capacity) \ KeySlots(c)
           slot == FirstIn(S, start, capacity)
           r == [c EXCEPT ![slot] = Filled(entry.key, entry.data)]
<1>1. entry.key \in Key /\ entry.data \in Datum \cup {NULL}
  BY DEF HTEntry
<1>2. start \in Slots(capacity)
  BY <1>1, HashIndexInTable
<1>3. S \in SUBSET Slots(capacity) /\ S # {}
  BY DEF KeySlots
<1>4. PICK dist \in Slots(capacity) :
        /\ slot = Probe(start, dist, capacity)
        /\ slot \in S
        /\ \A e \in Slots(capacity) : e < dist => Probe(start, e, capacity) \notin S
  <2> HIDE DEF S, start
  <2> QED BY <1>2, <1>3, FirstInIsFirst
<1>5. r = Reinsert(c, capacity, hash_fun, entry)
  BY DEF Reinsert
<1> HIDE DEF slot
<1>11. r = Written(c, slot, Filled(entry.key, entry.data))
  BY DEF Written
<1>6. r \in [Slots(capacity) -> HTEntry]
  BY <1>1 DEF HTEntry, Filled
<1>7. /\ \A i \in Slots(capacity) \ {slot} : r[i] = c[i]
      /\ r[slot] = Filled(entry.key, entry.data)
  BY <1>4
<1> HIDE DEF r
<1>8. Tombstones(r) = {}
  BY <1>6, <1>7, <1>4 DEF Tombstones, Filled
<1>9. /\ KeySlots(r) = KeySlots(c) \cup {slot}
      /\ VacantSlots(r) \subseteq VacantSlots(c) \ {slot}
  BY <1>6, <1>7, <1>4 DEF KeySlots, VacantSlots, Filled
<1>10. Chained(r, capacity, hash_fun)
  <2> SUFFICES ASSUME NEW i \in KeySlots(r), NEW d \in Slots(capacity),
                      NEW e \in Slots(capacity),
                      Probe(HashIndex(hash_fun, r[i].key, capacity), d, capacity) = i,
                      e < d
               PROVE  Probe(HashIndex(hash_fun, r[i].key, capacity), e, capacity)
                        \notin VacantSlots(r)
    BY DEF Chained
  <2>1. CASE i = slot
    <3>1. HashIndex(hash_fun, r[i].key, capacity) = start
      BY <2>1, <1>7 DEF Filled
    <3>2. d = dist
      BY <2>1, <3>1, <1>2, <1>4, ProbeInjective
    <3>3. Probe(start, e, capacity) \notin S /\ Probe(start, e, capacity) \in Slots(capacity)
      BY <3>2, <1>2, <1>4, ProbeInjective
    <3> QED BY <3>1, <3>3, <1>9 DEF KeySlots, VacantSlots
  <2>2. CASE i # slot
    <3>1. i \in KeySlots(c) /\ r[i] = c[i]
      BY <2>2, <1>6, <1>7, <1>9 DEF KeySlots
    <3> QED BY <3>1, <1>9 DEF Chained
  <2> QED BY <2>1, <2>2
<1> QED BY <1>4, <1>5, <1>6, <1>8, <1>9, <1>10, <1>11

(* The loop copies every entry, however many: the new container has as     *)
(* many keys as the old one, with the same data, no marks, and sound probe *)
(* paths.                                                                  *)
LEMMA RehashKeeps ==
  ASSUME NEW h, Shaped(h), Full(h.container),
         NEW new_capacity \in Nat, new_capacity > h.capacity
  PROVE  LET r == Rehash(h, new_capacity)
         IN  /\ r \in [Slots(new_capacity) -> HTEntry]
             /\ Tombstones(r) = {}
             /\ Chained(r, new_capacity, h.hash_fun)
             /\ Full(r)
             /\ Cardinality(KeySlots(r)) = Cardinality(KeySlots(h.container))
             /\ \A key \in Key, data \in Datum :
                  Cardinality(Storing(r, key, data)) =
                    Cardinality(Storing(h.container, key, data))
<1> DEFINE C == [Slots(new_capacity) -> HTEntry]
           N == h.capacity
           Next1(c, i) == Reinsert(c, new_capacity, h.hash_fun, h.container[i])
           first == Calloc(new_capacity)
           step == [i \in 0 .. N - 1 |-> [c \in C |-> Next1(c, i)]]
           Copies(f) == f = [index \in 0 .. N |->
                               IF index = 0 THEN first ELSE Next1(f[index - 1], index - 1)]
           copy == CHOOSE f : Copies(f)
           Before(i) == {j \in 0 .. i - 1 : h.container[j].key # NULL}
           Of(i, key, data) ==
             {j \in Before(i) : h.container[j].key = key /\ h.container[j].data = data}
           SameBindings(c, i) ==
             \A key \in Key, data \in Datum :
               Cardinality(Storing(c, key, data)) = Cardinality(Of(i, key, data))
           Copied(c, i) == /\ c \in C
                           /\ Tombstones(c) = {}
                           /\ Chained(c, new_capacity, h.hash_fun)
                           /\ Full(c)
                           /\ Cardinality(KeySlots(c)) = Cardinality(Before(i))
                           /\ SameBindings(c, i)
<1>1. /\ N \in Nat \ {0} /\ h.hash_fun \in HashFun
      /\ h.container \in [Slots(N) -> HTEntry]
      /\ new_capacity \in Nat \ {0}
  BY DEF Shaped
<1>2. /\ first \in C /\ KeySlots(first) = {} /\ Tombstones(first) = {}
      /\ Full(first) /\ \A key \in Key, data \in Datum : Storing(first, key, data) = {}
  BY <1>1, CallocEmpty
<1>3. ASSUME NEW i \in 0 .. N - 1, NEW c \in C PROVE Next1(c, i) \in C
  <2>1. h.container[i] \in HTEntry
    BY <1>1 DEF Slots
  <2> QED BY <2>1 DEF Reinsert, Filled, HTEntry
<1>4. step \in Steps(N, C)
  <2> HIDE DEF C, Next1, N
  <2> QED BY <1>3 DEF Steps
<1>5. PICK f : Recursive(f, N, C, first, step)
  <2> HIDE DEF C, step, first, N
  <2> QED BY <1>1, <1>2, <1>4, Recursion
<1>6. Copies(f)
  <2>1. f = [index \in 0 .. N |-> f[index]]
    BY <1>5 DEF Recursive
  <2>2. f[0] = first
    BY <1>5 DEF Recursive
  <2>3. ASSUME NEW i \in 1 .. N PROVE f[i] = Next1(f[i - 1], i - 1)
    <3> HIDE DEF C, Next1, N
    <3>1. i - 1 \in 0 .. N - 1 /\ i - 1 \in 0 .. N
      BY <1>1
    <3>2. f[i - 1] \in C /\ f[i] = step[i - 1][f[i - 1]]
      <4> HIDE DEF step
      <4> QED BY <1>5, <3>1 DEF Recursive
    <3> QED BY <3>1, <3>2
  <2> HIDE DEF first, Next1, N
  <2>4. \A i \in 0 .. N : f[i] = IF i = 0 THEN first ELSE Next1(f[i - 1], i - 1)
    <3>1. \A i \in 0 .. N : i = 0 \/ i \in 1 .. N
      BY <1>1
    <3> QED BY <2>2, <2>3, <3>1
  <2> QED BY <2>1, <2>4
<1>7. Copies(copy)
  <2> HIDE DEF Copies
  <2> QED BY <1>6
<1>8. Rehash(h, new_capacity) = copy[N]
  BY DEF Rehash
<1> HIDE DEF copy
<1>9. copy[0] = first /\ \A i \in 1 .. N : copy[i] = Next1(copy[i - 1], i - 1)
  <2> HIDE DEF first, Next1, N
  <2>1. \A i \in 0 .. N : copy[i] = IF i = 0 THEN first ELSE Next1(copy[i - 1], i - 1)
    BY <1>7
  <2> QED BY <1>1, <2>1
<1>10. Copied(copy[0], 0)
  <2>1. Before(0) = {}
    OBVIOUS
  <2>2. Chained(first, new_capacity, h.hash_fun)
    BY <1>2 DEF Chained
  <2>3. SameBindings(first, 0)
    <3>1. \A key \in Key, data \in Datum : Of(0, key, data) = {}
      BY <2>1
    <3> HIDE DEF Of
    <3> QED BY <1>2, <3>1
  <2> HIDE DEF SameBindings
  <2> QED BY <1>2, <1>9, <2>1, <2>2, <2>3
<1>11. ASSUME NEW i \in 1 .. N, Copied(copy[i - 1], i - 1) PROVE Copied(copy[i], i)
  <2> DEFINE c == copy[i - 1]
             entry == h.container[i - 1]
  <2>1. i - 1 \in Slots(N) /\ entry \in HTEntry /\ copy[i] = Next1(c, i - 1)
    BY <1>1, <1>9 DEF Slots
  <2>2. CASE entry.key = NULL
    <3>1. Before(i) = Before(i - 1)
      BY <1>1, <2>2
    <3>2. copy[i] = c
      BY <2>1, <2>2 DEF Reinsert
    <3>3. SameBindings(copy[i], i)
      <4> HIDE DEF Before
      <4> QED BY <3>1, <3>2, <1>11
    <3> HIDE DEF SameBindings
    <3> QED BY <3>1, <3>2, <3>3, <1>11
  <2>3. CASE entry.key # NULL
    <3> HIDE DEF SameBindings
    <3>1. Before(i) = Before(i - 1) \cup {i - 1} /\ i - 1 \notin Before(i - 1)
      BY <1>1, <2>3
    <3>2. Before(i - 1) \in SUBSET Slots(i - 1) /\ i - 1 \in Nat
      BY <1>1 DEF Slots
    <3>3. /\ IsFiniteSet(Before(i - 1)) /\ Cardinality(Before(i - 1)) \in Nat
          /\ Cardinality(Before(i - 1)) <= i - 1
      <4> HIDE DEF Before
      <4> QED BY <3>2, SlotsFinite
    <3>4. Cardinality(Before(i)) = Cardinality(Before(i - 1)) + 1
      <4> HIDE DEF Before
      <4> QED BY <3>1, <3>3, FS_AddElement
    <3>5. KeySlots(c) \in SUBSET Slots(new_capacity)
      BY <1>11 DEF KeySlots
    <3>6. KeySlots(c) # Slots(new_capacity)
      <4>1. Cardinality(Slots(new_capacity)) = new_capacity
        BY <1>1, SlotsFinite
      <4>2. i - 1 < new_capacity
        BY <1>1
      <4> HIDE DEF Before
      <4> QED BY <4>1, <4>2, <3>3, <1>11, <1>1
    <3>7. PICK slot \in Slots(new_capacity) \ KeySlots(c) :
            /\ copy[i] = Written(c, slot, Filled(entry.key, entry.data))
            /\ KeySlots(copy[i]) = KeySlots(c) \cup {slot}
      BY <1>1, <2>1, <2>3, <3>6, <1>11, ReinsertFills
    <3>8. /\ copy[i] \in C /\ Tombstones(copy[i]) = {}
          /\ Chained(copy[i], new_capacity, h.hash_fun)
      BY <1>1, <2>1, <2>3, <3>6, <1>11, ReinsertFills
    <3>9. Cardinality(KeySlots(copy[i])) = Cardinality(KeySlots(c)) + 1
      <4>1. IsFiniteSet(KeySlots(c))
        BY <1>1, <3>5, SlotsFinite
      <4> QED BY <4>1, <3>7, FS_AddElement
    <3> DEFINE copied == Filled(entry.key, entry.data)
    <3>10. /\ copied \in HTEntry /\ ~copied.is_tombstone
           /\ copied.key = entry.key /\ copied.data = entry.data
      BY <2>1, <2>3 DEF Filled, HTEntry
    <3> HIDE DEF copied
    <3>11. /\ copy[i][slot] = copied
           /\ \A j \in Slots(new_capacity) \ {slot} : copy[i][j] = c[j]
           /\ \A key \in Key, data \in Datum :
                Storing(copy[i], key, data) = (Storing(c, key, data) \ {slot}) \cup
                  (IF entry.key = key /\ entry.data = data THEN {slot} ELSE {})
      <4> DEFINE r == copy[i]
      <4>1. c \in C /\ r = Written(c, slot, copied)
        BY <3>7, <1>11 DEF copied
      <4>2. slot \in Slots(new_capacity)
        OBVIOUS
      <4> HIDE DEF c, entry, r
      <4>3. /\ r[slot] = copied
            /\ \A j \in Slots(new_capacity) \ {slot} : r[j] = c[j]
            /\ \A key \in Key, data \in Datum :
                 Storing(r, key, data) = (Storing(c, key, data) \ {slot}) \cup
                   (IF copied.key = key /\ ~copied.is_tombstone /\ copied.data = data
                    THEN {slot} ELSE {})
        BY <3>10, <4>1, <4>2, WrittenSlots
      <4> QED BY <3>10, <4>3 DEF r
    <3>12. Full(copy[i])
      <4>1. copied.data # NULL
        BY <1>1, <2>1, <2>3, <3>10 DEF Full
      <4>2. DOMAIN copy[i] = Slots(new_capacity) /\ DOMAIN c = Slots(new_capacity)
        BY <3>8, <1>11
      <4> QED BY <2>3, <3>10, <3>11, <4>1, <4>2, <1>11 DEF Full
    <3>13. SameBindings(copy[i], i)
      <4> SUFFICES ASSUME NEW key \in Key, NEW data \in Datum
                   PROVE  Cardinality(Storing(copy[i], key, data))
                            = Cardinality(Of(i, key, data))
        BY DEF SameBindings
      <4>1. /\ IsFiniteSet(Storing(c, key, data)) /\ slot \notin Storing(c, key, data)
            /\ Cardinality(Storing(c, key, data)) = Cardinality(Of(i - 1, key, data))
        <5>1. Storing(c, key, data) \in SUBSET KeySlots(c)
          BY HashTableAssumption DEF Storing, Holding, KeySlots
        <5>2. Storing(c, key, data) \in SUBSET Slots(new_capacity)
          BY <3>5, <5>1
        <5> QED BY <1>1, <1>11, <3>7, <5>1, <5>2, SlotsFinite DEF SameBindings
      <4>2. /\ Of(i - 1, key, data) \subseteq Before(i - 1)
            /\ Of(i, key, data) = IF entry.key = key /\ entry.data = data
                                  THEN Of(i - 1, key, data) \cup {i - 1}
                                  ELSE Of(i - 1, key, data)
        <5> HIDE DEF Before
        <5> QED BY <3>1
      <4> DEFINE old == Storing(c, key, data)
                 new == Storing(copy[i], key, data)
                 was == Of(i - 1, key, data)
                 is == Of(i, key, data)
      <4> HIDE DEF Before, Of, entry, c
      <4>3. IsFiniteSet(Of(i - 1, key, data)) /\ i - 1 \notin Of(i - 1, key, data)
        BY <3>1, <3>3, <4>2, FS_Subset
      <4>4. CASE entry.key = key /\ entry.data = data
        <5>1. new = old \cup {slot} /\ is = was \cup {i - 1}
          BY <3>11, <4>1, <4>2, <4>4
        <5> HIDE DEF old, new, was, is
        <5>2. Cardinality(new) = Cardinality(old) + 1
          BY <4>1, <5>1, FS_AddElement DEF old
        <5>3. Cardinality(is) = Cardinality(was) + 1
          BY <4>3, <5>1, FS_AddElement DEF was
        <5> QED BY <4>1, <5>2, <5>3 DEF old, new, was, is
      <4>5. CASE ~(entry.key = key /\ entry.data = data)
        BY <3>11, <4>1, <4>2, <4>5
      <4> QED BY <4>4, <4>5
    <3> QED BY <3>4, <3>8, <3>9, <3>12, <3>13, <1>11
  <2> QED BY <2>2, <2>3
<1>12. Copied(copy[N], N)
  <2> HIDE DEF Copied
  <2> DEFINE S == {i \in 0 .. N : Copied(copy[i], i)}
  <2>1. 0 \in S
    BY <1>1, <1>10
  <2>2. \A i \in 1 .. N : i - 1 \in S => i \in S
    BY <1>1, <1>11
  <2>3. \A i \in 0 .. N : i \in S
    <3> HIDE DEF S, N
    <3> QED BY <1>1, <2>1, <2>2, UpTo
  <2> QED BY <1>1, <2>3
<1>13. Before(N) = KeySlots(h.container)
  BY <1>1 DEF KeySlots, Slots
<1>14. \A key \in Key, data \in Datum :
         Of(N, key, data) = Storing(h.container, key, data)
  <2>1. \A key \in Key : \A j \in Before(N) :
          h.container[j].key = key => ~h.container[j].is_tombstone
    BY <1>1, <1>13, HashTableAssumption DEF Shaped, Tombstones, KeySlots
  <2>2. \A key \in Key : Holding(h.container, key) \subseteq Before(N)
    BY <1>13, HashTableAssumption DEF Holding, KeySlots
  <2> HIDE DEF Before
  <2> QED BY <1>13, <2>1, <2>2 DEF Storing, Holding, KeySlots
<1> HIDE DEF Of, Before
<1> QED BY <1>8, <1>12, <1>13, <1>14

-----------------------------------------------------------------------------
(* The calls.                                                              *)

(* What htCreate builds.                                                   *)
LEMMA NewTableGood ==
  ASSUME NEW hash_fun \in HashFun, NEW min_capacity \in Nat,
         NEW capacity \in Capacities(min_capacity), Allocatable(capacity)
  PROVE  GoodTable(NewTable(hash_fun, capacity))
<1> DEFINE h == NewTable(hash_fun, capacity)
<1>1. PICK n \in 0 .. MAX_POW2 - 1 : capacity = Pow2[n]
  BY CapacitiesArePowers
<1>2. capacity \in Nat \ {0}
  BY <1>1, WidthAssumption, Pow2Def
<1>3. /\ h.capacity = capacity /\ h.length = 0 /\ h.hash_fun = hash_fun
      /\ h.container = Calloc(capacity)
  BY DEF NewTable
<1>4. /\ Calloc(capacity) \in [Slots(capacity) -> HTEntry]
      /\ KeySlots(Calloc(capacity)) = {} /\ Tombstones(Calloc(capacity)) = {}
      /\ Full(Calloc(capacity))
  BY <1>2, CallocEmpty
<1>5. Shaped(h)
  BY <1>2, <1>4 DEF Shaped, NewTable
<1>6. Chained(h.container, h.capacity, h.hash_fun)
  BY <1>3, <1>4 DEF Chained
<1>7. Counted(h)
  BY <1>3, <1>4, FS_EmptySet DEF Counted
<1>8. PowerCapacity(h) /\ h.length < h.capacity
  BY <1>1, <1>2, <1>3 DEF PowerCapacity
<1> QED BY <1>3, <1>4, <1>5, <1>6, <1>7, <1>8 DEF GoodTable, SoundTable

(* An expansion, whether it succeeds or not, leaves a good table.          *)
LEMMA ExpandedGood ==
  ASSUME NEW h, GoodTable(h), NEW g \in Expanded(h)
  PROVE  GoodTable(g)
<1> DEFINE new_capacity == Double(h.capacity)
           r == Rehash(h, new_capacity)
<1>1. CASE g = h
  BY <1>1
<1>2. CASE g # h
  <2>1. /\ new_capacity > h.capacity
        /\ g = [h EXCEPT !.capacity = new_capacity, !.container = r]
    BY <1>2 DEF Expanded
  <2>2. PICK n \in 0 .. MAX_POW2 - 1 : h.capacity = Pow2[n]
    BY DEF GoodTable, SoundTable, PowerCapacity
  <2>3. n + 1 \in 0 .. MAX_POW2 - 1 /\ new_capacity = Pow2[n + 1]
    BY <2>1, <2>2, DoublePow2
  <2>4. new_capacity \in Nat \ {0}
    BY <2>3, WidthAssumption, Pow2Def
  <2>5. /\ h \in [capacity : Nat \ {0}, length : Nat, hash_fun : HashFun,
                  container : [Slots(h.capacity) -> HTEntry]]
        /\ Shaped(h) /\ Full(h.container)
        /\ Counted(h) /\ h.length < h.capacity
    BY DEF GoodTable, SoundTable, Shaped
  <2> HIDE DEF new_capacity, r
  <2>6. /\ r \in [Slots(new_capacity) -> HTEntry] /\ Tombstones(r) = {}
        /\ Chained(r, new_capacity, h.hash_fun)
        /\ Full(r)
        /\ Cardinality(KeySlots(r)) = Cardinality(KeySlots(h.container))
    BY <2>1, <2>4, <2>5, RehashKeeps DEF r
  <2>7. /\ g.capacity = new_capacity /\ g.container = r
        /\ g.length = h.length /\ g.hash_fun = h.hash_fun
    BY <2>1, <2>5
  <2>8. Shaped(g)
    <3>1. g \in [capacity : Nat \ {0}, length : Nat, hash_fun : HashFun,
                 container : [Slots(new_capacity) -> HTEntry]]
      BY <2>1, <2>4, <2>5, <2>6
    <3> QED BY <3>1, <2>6, <2>7 DEF Shaped
  <2>9. PowerCapacity(g)
    BY <2>3, <2>7 DEF PowerCapacity
  <2>10. Chained(g.container, g.capacity, g.hash_fun) /\ Counted(g) /\ Full(g.container)
    BY <2>5, <2>6, <2>7 DEF Counted
  <2>11. g.length < g.capacity
    BY <2>1, <2>4, <2>5, <2>7
  <2> QED BY <2>8, <2>9, <2>10, <2>11 DEF GoodTable, SoundTable
<1> QED BY <1>1, <1>2

(* The slots at which _htSetData stops, and the first of them.             *)
InsertStops(h, key) ==
  VacantSlots(h.container) \cup Tombstones(h.container) \cup Holding(h.container, key)

InsertSlot(h, key) ==
  FirstIn(InsertStops(h, key), HashIndex(h.hash_fun, key, h.capacity), h.capacity)

LEMMA InsertLands ==
  ASSUME NEW h, GoodTable(h), NEW key \in Key
  PROVE  /\ InsertStops(h, key) \in SUBSET Slots(h.capacity)
         /\ InsertStops(h, key) # {}
         /\ InsertSlot(h, key) \in InsertStops(h, key)
<1> DEFINE S == InsertStops(h, key)
           start == HashIndex(h.hash_fun, key, h.capacity)
           keyed == KeySlots(h.container)
<1>1. /\ h.capacity \in Nat \ {0} /\ h.hash_fun \in HashFun
      /\ h.container \in [Slots(h.capacity) -> HTEntry]
      /\ h.length = Cardinality(keyed) /\ h.length < h.capacity /\ h.length \in Nat
  BY DEF GoodTable, SoundTable, Shaped, Counted
<1>2. keyed \in SUBSET Slots(h.capacity)
  BY <1>1 DEF KeySlots
<1>3. PICK i \in Slots(h.capacity) : i \notin keyed
  <2>1. Cardinality(Slots(h.capacity)) = h.capacity
    BY <1>1, <1>2, SlotsFinite
  <2> HIDE DEF keyed
  <2>2. keyed # Slots(h.capacity)
    BY <1>1, <2>1
  <2> QED BY <1>2, <2>2
<1>4. i \in S
  BY <1>1, <1>3 DEF InsertStops, KeySlots, VacantSlots, Tombstones
<1>5. S \in SUBSET Slots(h.capacity)
  BY <1>1 DEF InsertStops, VacantSlots, Tombstones, Holding
<1>6. start \in Slots(h.capacity)
  BY <1>1, HashIndexInTable
<1>7. FirstIn(S, start, h.capacity) \in S
  <2> HIDE DEF S, start
  <2> QED BY <1>1, <1>4, <1>5, <1>6, FirstInIsFirst
<1> QED BY <1>4, <1>5, <1>7 DEF InsertSlot

(* Storing a key in a table with a free slot: the loop of _htSetData ends, *)
(* and a slot that gets a new key is counted once.                         *)
LEMMA SetDataSound ==
  ASSUME NEW h, GoodTable(h), Fits(h), NEW key \in Key, NEW data \in Datum
  PROVE  GoodTable(SetData(h, key, data))
<1> DEFINE c == h.container
           capacity == h.capacity
           start == HashIndex(h.hash_fun, key, capacity)
           S == VacantSlots(c) \cup Tombstones(c) \cup Holding(c, key)
           slot == FirstIn(S, start, capacity)
           g == SetData(h, key, data)
<1>1. /\ capacity \in Nat \ {0} /\ h.length \in Nat /\ h.hash_fun \in HashFun
      /\ c \in [Slots(capacity) -> HTEntry]
      /\ h \in [capacity : Nat \ {0}, length : Nat, hash_fun : HashFun,
                container : [Slots(capacity) -> HTEntry]]
      /\ Tombstones(c) \cap KeySlots(c) = {}
      /\ Chained(c, capacity, h.hash_fun)
      /\ h.length = Cardinality(KeySlots(c)) /\ h.length + 1 < capacity
      /\ Full(c)
  BY DEF GoodTable, SoundTable, Shaped, Counted, Fits
<1>2. start \in Slots(capacity)
  BY <1>1, HashIndexInTable
<1>3. KeySlots(c) \in SUBSET Slots(capacity)
  BY <1>1 DEF KeySlots
<1>4. IsFiniteSet(KeySlots(c)) /\ Cardinality(Slots(capacity)) = capacity
  BY <1>1, <1>3, SlotsFinite
<1>5. S \in SUBSET Slots(capacity) /\ S # {}
  BY InsertLands DEF InsertStops
<1>6. PICK dist \in Slots(capacity) :
        /\ slot = Probe(start, dist, capacity)
        /\ slot \in S
        /\ \A e \in Slots(capacity) : e < dist => Probe(start, e, capacity) \notin S
  <2> HIDE DEF S, start, capacity
  <2> QED BY <1>1, <1>2, <1>5, FirstInIsFirst
<1>7. /\ g = IF c[slot].key = key
             THEN [h EXCEPT !.container[slot].data = data]
             ELSE [h EXCEPT !.container[slot] = Filled(key, data),
                            !.length = h.length + 1]
  BY DEF SetData
<1>8. key # NULL /\ slot \in Slots(capacity)
  BY <1>5, <1>6, HashTableAssumption
<1> SUFFICES GoodTable(g)
  OBVIOUS
<1> HIDE DEF slot, g
<1>9. CASE c[slot].key = key
  <2> DEFINE r == [c EXCEPT ![slot] = [c[slot] EXCEPT !.data = data]]
  <2>1. /\ g.container = r /\ g.capacity = capacity
        /\ g.length = h.length /\ g.hash_fun = h.hash_fun
    BY <1>1, <1>7, <1>9
  <2>2. r \in [Slots(capacity) -> HTEntry]
    BY <1>1, <1>8 DEF HTEntry
  <2>3. \A i \in Slots(capacity) :
          r[i].key = c[i].key /\ r[i].is_tombstone = c[i].is_tombstone
    BY <1>1, <1>8 DEF HTEntry
  <2> HIDE DEF r
  <2>4. /\ KeySlots(r) = KeySlots(c) /\ Tombstones(r) = Tombstones(c)
        /\ VacantSlots(r) = VacantSlots(c)
    BY <1>1, <2>2, <2>3 DEF KeySlots, Tombstones, VacantSlots
  <2>5. Chained(r, capacity, h.hash_fun)
    BY <1>1, <1>3, <2>3, <2>4 DEF Chained
  <2>6. g \in [capacity : Nat \ {0}, length : Nat, hash_fun : HashFun,
               container : [Slots(capacity) -> HTEntry]]
    <3>1. g = [h EXCEPT !.container = r]
      BY <1>1, <1>7, <1>9 DEF r
    <3> QED BY <1>1, <2>2, <3>1
  <2>9. Full(r)
    <3>1. r[slot].data = data /\ \A i \in Slots(capacity) \ {slot} : r[i] = c[i]
      BY <1>1, <1>8 DEF HTEntry, r
    <3>2. DOMAIN r = Slots(capacity) /\ DOMAIN c = Slots(capacity)
      BY <1>1, <2>2
    <3> QED BY <1>1, <1>8, <1>9, <2>3, <3>1, <3>2, HashTableAssumption DEF Full
  <2>7. Shaped(g) /\ Counted(g) /\ g.length < g.capacity
    BY <1>1, <2>1, <2>4, <2>6 DEF Shaped, Counted
  <2>8. PowerCapacity(g)
    BY <2>1 DEF GoodTable, SoundTable, PowerCapacity
  <2> QED BY <2>1, <2>5, <2>7, <2>8, <2>9 DEF GoodTable, SoundTable
<1>10. CASE c[slot].key # key
  <2> DEFINE r == [c EXCEPT ![slot] = Filled(key, data)]
  <2>1. /\ g.container = r /\ g.capacity = capacity
        /\ g.length = h.length + 1 /\ g.hash_fun = h.hash_fun
    BY <1>1, <1>7, <1>10
  <2>2. r \in [Slots(capacity) -> HTEntry]
    BY <1>1, <1>8 DEF HTEntry, Filled
  <2>3. r[slot] = Filled(key, data) /\ \A i \in Slots(capacity) \ {slot} : r[i] = c[i]
    BY <1>1, <1>8
  <2> HIDE DEF r
  <2>4. slot \notin KeySlots(c)
    BY <1>1, <1>6, <1>10 DEF VacantSlots, Tombstones, Holding, KeySlots
  <2>5. /\ KeySlots(r) = KeySlots(c) \cup {slot}
        /\ Tombstones(r) = Tombstones(c) \ {slot}
        /\ VacantSlots(r) = VacantSlots(c) \ {slot}
    BY <1>1, <1>8, <2>2, <2>3 DEF KeySlots, Tombstones, VacantSlots, Filled
  <2>6. Cardinality(KeySlots(r)) = h.length + 1
    <3>1. Cardinality(KeySlots(c) \cup {slot}) = Cardinality(KeySlots(c)) + 1
      BY <1>4, <2>4, FS_AddElement
    <3> QED BY <1>1, <2>5, <3>1
  <2>7. Chained(r, capacity, h.hash_fun)
    <3> SUFFICES ASSUME NEW i \in KeySlots(r), NEW d \in Slots(capacity),
                        NEW e \in Slots(capacity),
                        Probe(HashIndex(h.hash_fun, r[i].key, capacity), d, capacity) = i,
                        e < d
                 PROVE  Probe(HashIndex(h.hash_fun, r[i].key, capacity), e, capacity)
                          \notin VacantSlots(r)
      BY DEF Chained
    <3>1. CASE i = slot
      <4>1. HashIndex(h.hash_fun, r[i].key, capacity) = start
        BY <3>1, <2>3 DEF Filled
      <4>2. d = dist
        BY <3>1, <4>1, <1>1, <1>2, <1>6, ProbeInjective
      <4> QED BY <4>1, <4>2, <1>6, <2>5
    <3>2. CASE i # slot
      <4>1. i \in KeySlots(c) /\ r[i] = c[i]
        BY <3>2, <1>3, <2>3, <2>5
      <4> QED BY <4>1, <1>1, <2>5 DEF Chained
    <3> QED BY <3>1, <3>2
  <2>8. g \in [capacity : Nat \ {0}, length : Nat, hash_fun : HashFun,
               container : [Slots(capacity) -> HTEntry]]
    <3>1. g = [h EXCEPT !.container = r, !.length = h.length + 1]
      BY <1>1, <1>7, <1>10 DEF r
    <3>2. h.length + 1 \in Nat
      BY <1>1
    <3>3. h \in [capacity : Nat \ {0}, length : Nat, hash_fun : HashFun,
                 container : [Slots(capacity) -> HTEntry]]
      BY <1>1
    <3> QED BY <2>2, <3>1, <3>2, <3>3
  <2>9. Shaped(g) /\ Counted(g) /\ g.length < g.capacity
    BY <1>1, <2>1, <2>5, <2>6, <2>8 DEF Shaped, Counted
  <2>10. PowerCapacity(g)
    BY <2>1 DEF GoodTable, SoundTable, PowerCapacity
  <2>11. Full(r)
    <3>1. DOMAIN r = Slots(capacity) /\ DOMAIN c = Slots(capacity)
      BY <1>1, <2>2
    <3> QED BY <1>1, <1>8, <2>3, <3>1, HashTableAssumption DEF Full, Filled
  <2> QED BY <2>1, <2>7, <2>9, <2>10, <2>11 DEF GoodTable, SoundTable
<1> QED BY <1>9, <1>10

(* A lookup that stops, stops in the table; one that succeeds, stops at a  *)
(* slot that holds the key.                                                *)
LEMMA LookupLands ==
  ASSUME NEW h, Shaped(h), NEW key \in Key, LookupStops(h, key) # {}
  PROVE  /\ LookupSlot(h, key) \in Slots(h.capacity)
         /\ Found(h, key) => LookupSlot(h, key) \in Holding(h.container, key)
<1> DEFINE S == LookupStops(h, key)
           start == HashIndex(h.hash_fun, key, h.capacity)
<1>1. /\ h.capacity \in Nat \ {0} /\ h.hash_fun \in HashFun
      /\ h.container \in [Slots(h.capacity) -> HTEntry]
  BY DEF Shaped
<1>2. start \in Slots(h.capacity)
  BY <1>1, HashIndexInTable
<1>3. S \in SUBSET Slots(h.capacity)
  BY <1>1 DEF LookupStops, VacantSlots, Holding
<1>4. FirstIn(S, start, h.capacity) \in S
  <2> HIDE DEF S, start
  <2> QED BY <1>1, <1>2, <1>3, FirstInIsFirst DEF S
<1>5. LookupSlot(h, key) \in S
  BY <1>4 DEF LookupSlot
<1> QED BY <1>3, <1>5 DEF Found, LookupStops, VacantSlots

(* A lookup that stops has missed nothing.                                 *)
LEMMA FoundHeld ==
  ASSUME NEW h, SoundTable(h), NEW key \in Key
  PROVE  Found(h, key) <=> Holding(h.container, key) # {}
<1> DEFINE c == h.container
           start == HashIndex(h.hash_fun, key, h.capacity)
           V == VacantSlots(c)
           K == Holding(c, key)
<1>1. /\ Shaped(h) /\ h.capacity \in Nat \ {0} /\ h.hash_fun \in HashFun
      /\ c \in [Slots(h.capacity) -> HTEntry]
      /\ Chained(c, h.capacity, h.hash_fun)
  BY DEF SoundTable, Shaped
<1>2. key # NULL
  BY HashTableAssumption
<1>3. ASSUME Found(h, key) PROVE K # {}
  BY <1>1, <1>3, LookupLands DEF Found
<1>4. ASSUME NEW i \in K PROVE Found(h, key)
  <2>1. i \in KeySlots(c) /\ c[i].key = key
    BY <1>2 DEF Holding, KeySlots
  <2>2. start \in Slots(h.capacity) /\ V \in SUBSET Slots(h.capacity)
        /\ K \in SUBSET Slots(h.capacity)
    BY <1>1, HashIndexInTable DEF VacantSlots, Holding
  <2>3. Clear(V, start, i, h.capacity)
    BY <1>1, <2>1 DEF Chained, Clear
  <2>4. FirstIn(V \cup K, start, h.capacity) \in K
    <3> HIDE DEF V, K, start
    <3> QED BY <1>1, <2>2, <2>3, ChainFinds
  <2>5. c[LookupSlot(h, key)].key = key
    BY <2>4 DEF LookupSlot, LookupStops, Holding
  <2> QED BY <1>2, <2>5 DEF Found, LookupStops
<1> QED BY <1>3, <1>4

(* What htGet and htPop answer is a datum, NULL, or nothing at all.        *)
LEMMA RetrievedType ==
  ASSUME NEW h, Shaped(h), NEW key \in Key
  PROVE  Retrieved(h, key) \in Result
<1>1. h.container \in [Slots(h.capacity) -> HTEntry]
  BY DEF Shaped
<1>2. CASE LookupStops(h, key) = {}
  BY <1>2 DEF Retrieved, Result
<1>3. CASE LookupStops(h, key) # {}
  <2>1. /\ Retrieved(h, key) = h.container[LookupSlot(h, key)].data
        /\ LookupSlot(h, key) \in Slots(h.capacity)
    BY <1>3, LookupLands DEF Retrieved, LookupSlot
  <2> QED BY <1>1, <2>1 DEF HTEntry, Result
<1> QED BY <1>2, <1>3

(* The table htPop leaves behind when it has found the key.                *)
LEMMA PoppedGood ==
  ASSUME NEW h, GoodTable(h), NEW key \in Key, Found(h, key)
  PROVE  GoodTable([h EXCEPT !.container[LookupSlot(h, key)] = Tombstone,
                             !.length = h.length - 1])
<1> DEFINE c == h.container
           capacity == h.capacity
           slot == LookupSlot(h, key)
           r == [c EXCEPT ![slot] = Tombstone]
           g == [h EXCEPT !.container[slot] = Tombstone, !.length = h.length - 1]
<1>1. /\ capacity \in Nat \ {0} /\ h.length \in Nat
      /\ c \in [Slots(capacity) -> HTEntry]
      /\ h \in [capacity : Nat \ {0}, length : Nat, hash_fun : HashFun,
                container : [Slots(capacity) -> HTEntry]]
      /\ Tombstones(c) \cap KeySlots(c) = {}
      /\ Chained(c, capacity, h.hash_fun)
      /\ h.length = Cardinality(KeySlots(c)) /\ h.length < capacity
      /\ Shaped(h) /\ Full(c)
  BY DEF GoodTable, SoundTable, Shaped, Counted
<1>2. slot \in Slots(capacity) /\ slot \in KeySlots(c)
  BY <1>1, LookupLands, HashTableAssumption DEF Found, Holding, KeySlots
<1> HIDE DEF slot
<1>3. r \in [Slots(capacity) -> HTEntry]
  BY <1>1, <1>2 DEF HTEntry, Tombstone, Vacant
<1>4. r[slot] = Tombstone /\ \A i \in Slots(capacity) \ {slot} : r[i] = c[i]
  BY <1>1, <1>2
<1>5. g = [h EXCEPT !.container = r, !.length = h.length - 1]
  BY <1>1
<1> SUFFICES GoodTable(g)
  BY DEF slot
<1> HIDE DEF r
<1>6. /\ KeySlots(r) = KeySlots(c) \ {slot}
      /\ Tombstones(r) = Tombstones(c) \cup {slot}
      /\ VacantSlots(r) \subseteq VacantSlots(c)
  BY <1>1, <1>2, <1>3, <1>4 DEF KeySlots, Tombstones, VacantSlots, Tombstone, Vacant
<1>7. h.length - 1 \in Nat /\ Cardinality(KeySlots(r)) = h.length - 1
  <2>1. KeySlots(c) \in SUBSET Slots(capacity)
    BY <1>1 DEF KeySlots
  <2>2. IsFiniteSet(KeySlots(c))
    BY <1>1, <2>1, SlotsFinite
  <2>3. /\ Cardinality(KeySlots(c) \ {slot}) = Cardinality(KeySlots(c)) - 1
        /\ Cardinality(KeySlots(c)) # 0
    BY <1>2, <2>2, FS_RemoveElement, FS_EmptySet
  <2> QED BY <1>1, <1>6, <2>3
<1>8. Chained(r, capacity, h.hash_fun)
  <2>1. \A i \in KeySlots(r) : i \in KeySlots(c) /\ r[i] = c[i]
    BY <1>1, <1>4, <1>6 DEF KeySlots
  <2> QED BY <1>1, <1>6, <2>1 DEF Chained
<1>9. /\ g.container = r /\ g.capacity = capacity
      /\ g.length = h.length - 1 /\ g.hash_fun = h.hash_fun
      /\ g \in [capacity : Nat \ {0}, length : Nat, hash_fun : HashFun,
                container : [Slots(capacity) -> HTEntry]]
  <2>1. h \in [capacity : Nat \ {0}, length : Nat, hash_fun : HashFun,
               container : [Slots(capacity) -> HTEntry]]
    BY <1>1
  <2> QED BY <1>3, <1>5, <1>7, <2>1
<1> HIDE DEF g
<1>10. Shaped(g) /\ Counted(g) /\ g.length < g.capacity
  BY <1>1, <1>6, <1>7, <1>9 DEF Shaped, Counted
<1>11. PowerCapacity(g)
  BY <1>9 DEF GoodTable, SoundTable, PowerCapacity
<1>12. Full(r)
  BY <1>1, <1>3, <1>4 DEF Full, Tombstone, Vacant
<1> QED BY <1>8, <1>9, <1>10, <1>11, <1>12 DEF GoodTable, SoundTable

-----------------------------------------------------------------------------
(* The specification.                                                      *)

Inv ==
  /\ ht = NULL \/ GoodTable(ht)
  /\ ret.result \in Result

LEMMA InitInv == Init => Inv
BY DEF Init, Inv, Result

LEMMA NextInv == Inv /\ [Next]_vars => Inv'
<1> SUFFICES ASSUME Inv, [Next]_vars PROVE Inv'
  OBVIOUS
<1>1. ASSUME NEW hash_fun \in HashFun, NEW min_capacity \in MinCapacity,
             HtCreate(hash_fun, min_capacity)
      PROVE  Inv'
  <2>1. ret'.result \in Result
    <3>1. \/ Returns("htCreate", NULL, FALSE) \/ Returns("htCreate", NULL, TRUE)
          \/ Returns("htCreate", NULL, Undefined)
      BY <1>1 DEF HtCreate
    <3>2. CASE Returns("htCreate", NULL, FALSE)
      BY <3>2 DEF Returns, Result
    <3>3. CASE Returns("htCreate", NULL, TRUE)
      BY <3>3 DEF Returns, Result
    <3>4. CASE Returns("htCreate", NULL, Undefined)
      BY <3>4 DEF Returns, Result
    <3> QED BY <3>1, <3>2, <3>3, <3>4
  <2>2. min_capacity \in Nat
    BY HashTableAssumption
  <2>3. ht' = NULL \/ GoodTable(ht')
    BY <1>1, <2>2, NewTableGood DEF HtCreate
  <2> QED BY <2>1, <2>3 DEF Inv
<1>2. CASE HtDelete
  BY <1>2 DEF HtDelete, Returns, Inv, Result
<1>3. ASSUME NEW key \in Key \cup {NULL}, HtSearch(key)
      PROVE  Inv'
  BY <1>3 DEF HtSearch, Returns, Inv, Result, Found
<1>4. ASSUME NEW key \in Key \cup {NULL}, NEW data \in Datum \cup {NULL},
             HtSet(key, data)
      PROVE  Inv'
  <2>1. ret'.result \in Result
    <3>1. CASE Returns("htSet", key, FALSE)
      BY <3>1 DEF Returns, Result
    <3>2. ASSUME NEW h, Returns("htSet", key, Fits(h)) PROVE ret'.result \in Result
      <4>1. Fits(h) = TRUE \/ Fits(h) = FALSE
        BY DEF Fits
      <4>2. Returns("htSet", key, TRUE) \/ Returns("htSet", key, FALSE)
        BY <3>2, <4>1
      <4>3. CASE Returns("htSet", key, TRUE)
        BY <4>3 DEF Returns, Result
      <4> QED BY <4>2, <4>3, <3>1
    <3> QED BY <1>4, <3>1, <3>2 DEF HtSet
  <2>2. CASE ht' = ht
    BY <2>1, <2>2 DEF Inv
  <2>3. CASE ht' # ht
    <3>1. ht # NULL /\ key \in Key /\ data \in Datum
      BY <1>4, <2>3 DEF HtSet
    <3>2. PICK h \in Expanded(ht) : ht' = IF Fits(h) THEN SetData(h, key, data) ELSE h
      BY <1>4, <2>3 DEF HtSet
    <3>3. GoodTable(h)
      BY <3>1, ExpandedGood DEF Inv
    <3>4. GoodTable(ht')
      BY <3>1, <3>2, <3>3, SetDataSound
    <3> QED BY <2>1, <3>4 DEF Inv
  <2> QED BY <2>2, <2>3
<1>5. ASSUME NEW key \in Key, HtGet(key)
      PROVE  Inv'
  BY <1>5, RetrievedType DEF HtGet, Returns, Inv, GoodTable, SoundTable
<1>6. ASSUME NEW key \in Key, HtPop(key)
      PROVE  Inv'
  <2>1. ht # NULL /\ GoodTable(ht)
    BY <1>6 DEF HtPop, Inv
  <2>2. ret'.result \in Result
    BY <1>6, <2>1, RetrievedType DEF HtPop, Returns, GoodTable, SoundTable
  <2>3. GoodTable(ht')
    BY <1>6, <2>1, PoppedGood DEF HtPop
  <2> QED BY <2>2, <2>3 DEF Inv
<1>7. CASE Stuck
  BY <1>7 DEF Stuck, vars, Inv
<1>8. CASE UNCHANGED vars
  BY <1>8 DEF vars, Inv
<1> QED BY <1>1, <1>2, <1>3, <1>4, <1>5, <1>6, <1>7, <1>8 DEF Next

LEMMA Invariance == Spec => []Inv
BY InitInv, NextInv, PTL DEF Spec

(* Whatever the client calls and whichever allocations fail, the struct    *)
(* keeps its shape; in particular length stays a natural number although   *)
(* htPop decrements it.                                                    *)
THEOREM TypeCorrect == Spec => []TypeOK
<1>1. Inv => TypeOK
  BY DEF Inv, GoodTable, SoundTable, Shaped, TypeOK, Slots
<1> QED BY Invariance, <1>1, PTL

(* The mask of _hashGetIndexFromKey is a remainder in both builds: no      *)
(* table ever has a capacity that is not a power of two, even one created  *)
(* through a shift that overflows int.                                     *)
THEOREM PowerOfTwo == Spec => []CapacityPowerOfTwo
<1>1. Inv => CapacityPowerOfTwo
  BY DEF Inv, GoodTable, SoundTable, PowerCapacity, CapacityPowerOfTwo
<1> QED BY Invariance, <1>1, PTL

(* No sequence of insertions, removals and expansions breaks the path to a *)
(* stored key.                                                             *)
THEOREM NothingMissed == Spec => []ProbeChain
<1>1. Inv => ProbeChain
  BY DEF Inv, GoodTable, SoundTable, Chained, ProbeChain, Slots
<1> QED BY Invariance, <1>1, PTL

(* A lookup that stops at a vacant slot has missed nothing.                *)
THEOREM LookupsExact == Spec => []LookupExact
<1>1. Inv => LookupExact
  BY FoundHeld DEF Inv, GoodTable, LookupExact
<1> QED BY Invariance, <1>1, PTL

(* The length is the number of slots that carry a key, whatever was set,   *)
(* popped, set again or moved by an expansion.                             *)
THEOREM LengthExact == Spec => []LengthCountsKeys
<1>1. Inv => LengthCountsKeys
  BY DEF Inv, GoodTable, SoundTable, Counted, LengthCountsKeys
<1> QED BY Invariance, <1>1, PTL

(* One slot stays without a key, so that _htSetData always terminates.     *)
THEOREM InsertionEnds == Spec => []RoomToInsert
<1>1. Inv => RoomToInsert
  BY DEF Inv, GoodTable, RoomToInsert
<1> QED BY Invariance, <1>1, PTL

-----------------------------------------------------------------------------
(* The map a table stands for.                                             *)

LEMMA NullIsNoTable ==
  ASSUME NEW h, SoundTable(h)
  PROVE  h # NULL
<1>1. PICK n \in 0 .. MAX_POW2 - 1 : h.capacity = Pow2[n]
  BY DEF SoundTable, PowerCapacity
<1>2. h.capacity < SizeSpan /\ SizeSpan \in Nat
  <2>1. MAX_POW2 \in Nat
    BY WidthAssumption
  <2>2. n \in 0 .. MAX_POW2 /\ MAX_POW2 \in 0 .. MAX_POW2 /\ n < MAX_POW2
    BY <2>1
  <2> QED BY <1>1, <2>2, Pow2Increasing, Pow2Def DEF SizeSpan
<1>3. h.capacity \in 1 .. SizeSpan - 1
  BY <1>2 DEF SoundTable, Shaped
<1>4. h \in [capacity : {h.capacity}, length : Nat, hash_fun : HashFun,
            container : [0 .. h.capacity - 1 -> HTEntry]]
  BY DEF SoundTable, Shaped, Slots
<1> QED BY <1>3, <1>4, HashTableAssumption

(* A key is visible if a slot holds it: its datum is that of the slot at   *)
(* which a lookup ends.                                                    *)
LEMMA VisibleFacts ==
  ASSUME NEW h, SoundTable(h), NEW key \in Key
  PROVE  /\ LookupStops(h, key) # {} => Retrieved(h, key) = Visible(h, key)
         /\ LookupStops(h, key) = {} => Retrieved(h, key) = Unfinished
         /\ Holding(h.container, key) = {} => Visible(h, key) = NULL
         /\ Holding(h.container, key) # {} =>
              /\ LookupSlot(h, key) \in Holding(h.container, key)
              /\ Visible(h, key) = h.container[LookupSlot(h, key)].data
              /\ Visible(h, key) \in Datum
<1> DEFINE c == h.container
           slot == LookupSlot(h, key)
<1>1. /\ Shaped(h) /\ c \in [Slots(h.capacity) -> HTEntry] /\ Full(c)
      /\ DOMAIN c = Slots(h.capacity)
  BY DEF SoundTable, Shaped
<1>2. /\ LookupStops(h, key) # {} => Retrieved(h, key) = c[slot].data
      /\ LookupStops(h, key) = {} => Retrieved(h, key) = Unfinished
  BY DEF Retrieved, LookupSlot
<1>3. LookupStops(h, key) # {} =>
        /\ slot \in Slots(h.capacity)
        /\ Found(h, key) => slot \in Holding(c, key)
  BY <1>1, LookupLands
<1>4. ASSUME Holding(c, key) = {} PROVE Visible(h, key) = NULL
  <2>1. CASE LookupStops(h, key) = {}
    BY <2>1 DEF Visible
  <2>2. CASE LookupStops(h, key) # {}
    <3>1. c[slot].key = NULL
      BY <1>4, <2>2, FoundHeld DEF Found
    <3> QED BY <1>1, <1>2, <1>3, <2>2, <3>1 DEF Visible, Full
  <2> QED BY <2>1, <2>2
<1>5. ASSUME Holding(c, key) # {}
      PROVE  /\ slot \in Holding(c, key) /\ Visible(h, key) = c[slot].data
             /\ Visible(h, key) \in Datum
  <2>1. LookupStops(h, key) # {} /\ slot \in Holding(c, key)
    BY <1>3, <1>5, FoundHeld DEF LookupStops
  <2>2. c[slot].key # NULL /\ slot \in Slots(h.capacity)
    BY <1>1, <2>1, HashTableAssumption DEF Holding
  <2>3. c[slot].data # NULL /\ c[slot] \in HTEntry
    BY <1>1, <2>2 DEF Full
  <2> QED BY <1>2, <2>1, <2>3 DEF Visible, HTEntry
<1> HIDE DEF c, slot
<1> QED BY <1>2, <1>4, <1>5 DEF Visible, c, slot

(* What the abstract map is when the client holds a table.                 *)
LEMMA Abstraction ==
  ASSUME NEW h, SoundTable(h)
  PROVE  /\ h # NULL
         /\ Shown(h) = [key \in Key |-> Visible(h, key)]
         /\ Bindings(h) \in [Key -> [Datum -> Nat]]
         /\ \A key \in Key, data \in Datum :
              /\ Bindings(h)[key][data] = Cardinality(Storing(h.container, key, data))
              /\ IsFiniteSet(Storing(h.container, key, data))
              /\ Bindings(h)[key][data] = 0 <=> Storing(h.container, key, data) = {}
         /\ Marked(h) <=> Tombstones(h.container) # {}
<1>1. h # NULL
  BY NullIsNoTable
<1>2. ASSUME NEW key \in Key, NEW data \in Datum
      PROVE  /\ IsFiniteSet(Storing(h.container, key, data))
             /\ Cardinality(Storing(h.container, key, data)) \in Nat
             /\ Cardinality(Storing(h.container, key, data)) = 0
                  <=> Storing(h.container, key, data) = {}
  <2>1. Storing(h.container, key, data) \in SUBSET Slots(h.capacity)
    BY DEF SoundTable, Shaped, Storing, Holding
  <2>2. h.capacity \in Nat
    BY DEF SoundTable, Shaped
  <2> QED BY <2>1, <2>2, SlotsFinite, FS_EmptySet
<1>3. Bindings(h) = [key \in Key |-> [data \in Datum |->
                       Cardinality(Storing(h.container, key, data))]]
  BY <1>1 DEF Bindings
<1>4. Shown(h) = [key \in Key |-> Visible(h, key)] /\ (Marked(h) <=> Tombstones(h.container) # {})
  BY <1>1 DEF Shown, Marked
<1> QED BY <1>1, <1>2, <1>3, <1>4

(* A key shows one of the data bound to it, if there are any.              *)
LEMMA ShowsItsOwn ==
  ASSUME NEW h, SoundTable(h), NEW key \in Key
  PROVE  /\ Promise!Shows(Visible(h, key), Bindings(h)[key])
         /\ Visible(h, key) = NULL <=> Holding(h.container, key) = {}
         /\ Visible(h, key) = NULL <=> Bindings(h)[key] = Promise!Nothing
         /\ Visible(h, key) # NULL =>
              Visible(h, key) \in Datum /\ Bindings(h)[key][Visible(h, key)] > 0
<1> DEFINE K == Holding(h.container, key)
           v == Visible(h, key)
           bag == Bindings(h)[key]
<1>1. /\ bag \in [Datum -> Nat]
      /\ \A data \in Datum : bag[data] = 0 <=> Storing(h.container, key, data) = {}
  BY Abstraction
<1>2. CASE K = {}
  <2>1. v = NULL
    BY <1>2, VisibleFacts
  <2>2. \A data \in Datum : bag[data] = 0
    BY <1>1, <1>2 DEF Storing
  <2> HIDE DEF bag, v
  <2>3. bag = Promise!Nothing
    BY <1>1, <2>2 DEF Promise!Nothing
  <2> QED BY <1>2, <2>1, <2>3 DEF Promise!Shows, v, bag
<1>3. CASE K # {}
  <2>1. v \in Datum /\ v # NULL
    BY <1>3, VisibleFacts, HashTableAssumption
  <2>2. LookupSlot(h, key) \in Storing(h.container, key, v)
    BY <1>3, VisibleFacts DEF Storing
  <2>3. bag[v] > 0
    <3>1. Storing(h.container, key, v) # {}
      BY <2>2
    <3> HIDE DEF bag, v
    <3> QED BY <1>1, <2>1, <3>1
  <2> HIDE DEF bag, v
  <2>4. bag # Promise!Nothing
    BY <2>1, <2>3 DEF Promise!Nothing
  <2> QED BY <1>3, <2>1, <2>3, <2>4 DEF Promise!Shows, v, bag
<1> QED BY <1>2, <1>3

(* A key whose slots are left alone shows what it did: a slot that ceases  *)
(* to be vacant is in nobody's way.                                        *)
LEMMA KeptVisible ==
  ASSUME NEW h, SoundTable(h), NEW g, SoundTable(g), NEW key \in Key,
         g.capacity = h.capacity, g.hash_fun = h.hash_fun,
         VacantSlots(g.container) \subseteq VacantSlots(h.container),
         Holding(g.container, key) = Holding(h.container, key),
         \A i \in Holding(h.container, key) :
           g.container[i].data = h.container[i].data
  PROVE  Visible(g, key) = Visible(h, key) /\ Bindings(g)[key] = Bindings(h)[key]
<1> DEFINE K == Holding(h.container, key)
           start == HashIndex(h.hash_fun, key, h.capacity)
<1>1. \A data \in Datum : Storing(g.container, key, data) = Storing(h.container, key, data)
  BY DEF Storing
<1>2. Bindings(g)[key] = Bindings(h)[key]
  <2> DEFINE b == Bindings(g)[key]
             a == Bindings(h)[key]
  <2>1. a \in [Datum -> Nat] /\ b \in [Datum -> Nat]
    BY Abstraction
  <2>2. \A data \in Datum : b[data] = a[data]
    BY <1>1, Abstraction
  <2> HIDE DEF a, b
  <2>3. a = b
    BY <2>1, <2>2
  <2> QED BY <2>3 DEF a, b
<1>3. CASE K = {}
  BY <1>2, <1>3, VisibleFacts
<1>4. CASE K # {}
  <2>1. /\ h.capacity \in Nat \ {0} /\ h.hash_fun \in HashFun
        /\ h.container \in [Slots(h.capacity) -> HTEntry]
    BY DEF SoundTable, Shaped
  <2>2. /\ start \in Slots(h.capacity)
        /\ LookupStops(h, key) \in SUBSET Slots(h.capacity)
        /\ LookupStops(g, key) \in SUBSET LookupStops(h, key)
    BY <2>1, HashIndexInTable DEF LookupStops, VacantSlots, Holding
  <2>3. /\ LookupSlot(h, key) \in K
        /\ Visible(h, key) = h.container[LookupSlot(h, key)].data
        /\ Visible(g, key) = g.container[LookupSlot(g, key)].data
    BY <1>4, VisibleFacts
  <2>4. LookupSlot(h, key) \in LookupStops(g, key)
    BY <2>3 DEF LookupStops
  <2>5. LookupSlot(g, key) = LookupSlot(h, key)
    <3> DEFINE S == LookupStops(h, key)
               P == LookupStops(g, key)
    <3>1. FirstIn(S, start, h.capacity) \in P
      BY <2>4 DEF LookupSlot
    <3> HIDE DEF S, P, start
    <3>2. FirstIn(P, start, h.capacity) = FirstIn(S, start, h.capacity)
      BY <2>1, <2>2, <3>1, FirstInSubset DEF S, P
    <3> QED BY <3>2 DEF LookupSlot, S, P, start
  <2> QED BY <1>2, <2>3, <2>5
<1> QED BY <1>3, <1>4

(* A table in which the slot, not one of the key's, has been written with  *)
(* an entry of another key or none.                                        *)
LEMMA OthersKept ==
  ASSUME NEW h, SoundTable(h), NEW g, SoundTable(g), NEW k \in Key,
         NEW slot \in Slots(h.capacity), NEW entry \in HTEntry,
         g.capacity = h.capacity, g.hash_fun = h.hash_fun,
         g.container = Written(h.container, slot, entry),
         VacantSlots(g.container) \subseteq VacantSlots(h.container),
         slot \notin Holding(h.container, k), entry.key # k
  PROVE  Visible(g, k) = Visible(h, k) /\ Bindings(g)[k] = Bindings(h)[k]
<1> DEFINE c == h.container
           r == g.container
<1>1. c \in [Slots(h.capacity) -> HTEntry] /\ r = Written(c, slot, entry)
  BY DEF SoundTable, Shaped
<1> HIDE DEF c, r
<1>2. /\ \A i \in Slots(h.capacity) \ {slot} : r[i] = c[i]
      /\ Holding(r, k) = (Holding(c, k) \ {slot}) \cup
           (IF entry.key = k /\ ~entry.is_tombstone THEN {slot} ELSE {})
  BY <1>1, WrittenSlots
<1>3. Holding(r, k) = Holding(c, k) /\ Holding(c, k) \subseteq Slots(h.capacity) \ {slot}
  BY <1>1, <1>2 DEF Holding, c
<1>4. \A i \in Holding(c, k) : r[i].data = c[i].data
  BY <1>2, <1>3
<1> QED BY <1>3, <1>4, KeptVisible DEF c, r

(* htPop, when it has found the key.                                       *)
Popped(h, key) == [h EXCEPT !.container[LookupSlot(h, key)] = Tombstone,
                            !.length = h.length - 1]

(* It unbinds the visible datum and leaves a mark.                         *)
LEMMA PoppedMap ==
  ASSUME NEW h, GoodTable(h), NEW key \in Key, Found(h, key)
  PROVE  LET g == Popped(h, key)
         IN  /\ SoundTable(g) /\ Marked(g)
             /\ \A k \in Key \ {key} :
                  Visible(g, k) = Visible(h, k) /\ Bindings(g)[k] = Bindings(h)[k]
             /\ Bindings(g)[key] = Promise!Remove(Bindings(h)[key], Visible(h, key))
<1> DEFINE g == Popped(h, key)
           c == h.container
           r == g.container
           slot == LookupSlot(h, key)
           datum == Visible(h, key)
<1>1. SoundTable(g) /\ SoundTable(h)
  BY PoppedGood DEF GoodTable, Popped
<1>2. /\ c \in [Slots(h.capacity) -> HTEntry] /\ DOMAIN c = Slots(h.capacity)
      /\ Tombstone \in HTEntry
      /\ Tombstone.key = NULL /\ Tombstone.is_tombstone
  BY <1>1 DEF SoundTable, Shaped, HTEntry, Tombstone, Vacant
<1>3. slot \in Holding(c, key) /\ datum = c[slot].data /\ datum \in Datum
  BY <1>1, FoundHeld, VisibleFacts
<1>4. slot \in Slots(h.capacity)
  BY <1>2, <1>3 DEF Holding
<1>5. /\ g.capacity = h.capacity /\ g.hash_fun = h.hash_fun
      /\ r = Written(c, slot, Tombstone)
  BY <1>1 DEF Popped, Written, SoundTable, Shaped
<1> HIDE DEF g, c, r, slot, datum
<1>6. /\ r \in [Slots(h.capacity) -> HTEntry]
      /\ r[slot] = Tombstone /\ \A i \in Slots(h.capacity) \ {slot} : r[i] = c[i]
      /\ \A data \in Datum :
           Storing(r, key, data) = (Storing(c, key, data) \ {slot}) \cup
             (IF Tombstone.key = key /\ ~Tombstone.is_tombstone /\ Tombstone.data = data
              THEN {slot} ELSE {})
  BY <1>2, <1>4, <1>5, WrittenSlots
<1>7. VacantSlots(r) \subseteq VacantSlots(c) /\ slot \in Tombstones(r)
  BY <1>2, <1>4, <1>6 DEF VacantSlots, Tombstones
<1>8. Marked(g)
  BY <1>1, <1>7, Abstraction DEF r
<1>9. ASSUME NEW k \in Key \ {key}
      PROVE  Visible(g, k) = Visible(h, k) /\ Bindings(g)[k] = Bindings(h)[k]
  <2>1. slot \notin Holding(c, k) /\ Tombstone.key # k
    BY <1>2, <1>3, HashTableAssumption DEF Holding
  <2> QED BY <1>1, <1>2, <1>4, <1>5, <1>7, <2>1, OthersKept DEF r, c
<1>10. Bindings(g)[key] = Promise!Remove(Bindings(h)[key], datum)
  <2> DEFINE a == Bindings(h)[key]
             b == Bindings(g)[key]
  <2>1. a \in [Datum -> Nat] /\ b \in [Datum -> Nat]
    BY <1>1, Abstraction
  <2>2. \A data \in Datum : /\ a[data] = Cardinality(Storing(c, key, data))
                            /\ b[data] = Cardinality(Storing(r, key, data))
                            /\ IsFiniteSet(Storing(c, key, data))
    BY <1>1, Abstraction DEF c, r
  <2> HIDE DEF a, b
  <2>3. \A data \in Datum : Storing(r, key, data) = Storing(c, key, data) \ {slot}
    BY <1>2, <1>6
  <2>4. slot \in Storing(c, key, datum)
    BY <1>3 DEF Storing
  <2>5. \A data \in Datum \ {datum} : Storing(r, key, data) = Storing(c, key, data)
    BY <1>3, <2>3 DEF Storing
  <2>6. b[datum] = a[datum] - 1
    BY <1>3, <2>2, <2>3, <2>4, FS_RemoveElement
  <2>7. \A data \in Datum \ {datum} : b[data] = a[data]
    BY <2>2, <2>5
  <2>8. b = [a EXCEPT ![datum] = @ - 1]
    BY <1>3, <2>1, <2>6, <2>7
  <2> QED BY <2>8 DEF a, b, Promise!Remove
<1> QED BY <1>1, <1>8, <1>9, <1>10 DEF g, datum

(* _htExpand, when it succeeds, clears the marks and binds what was bound; *)
(* where a key has several data it may bring forward another one.          *)
LEMMA ExpandedMap ==
  ASSUME NEW h, GoodTable(h), NEW g \in Expanded(h), g # h
  PROVE  /\ GoodTable(g) /\ Fits(g)
         /\ ~Marked(g)
         /\ Bindings(g) = Bindings(h)
<1> DEFINE new_capacity == Double(h.capacity)
           r == Rehash(h, new_capacity)
<1>1. /\ new_capacity > h.capacity
      /\ g = [h EXCEPT !.capacity = new_capacity, !.container = r]
  BY DEF Expanded
<1>2. GoodTable(g) /\ SoundTable(g) /\ SoundTable(h)
  BY ExpandedGood DEF GoodTable
<1>3. /\ h.capacity \in Nat /\ h.length \in Nat /\ h.length < h.capacity
      /\ Shaped(h) /\ Full(h.container)
  BY DEF GoodTable, SoundTable, Shaped
<1> HIDE DEF new_capacity, r
<1>4. g.capacity = new_capacity /\ g.length = h.length /\ g.container = r
  BY <1>1, <1>2 DEF SoundTable, Shaped
<1>5. new_capacity \in Nat
  BY <1>2, <1>4 DEF SoundTable, Shaped
<1>6. Fits(g)
  BY <1>1, <1>3, <1>4, <1>5 DEF Fits
<1>7. /\ Tombstones(r) = {}
      /\ \A key \in Key, data \in Datum :
           Cardinality(Storing(r, key, data)) = Cardinality(Storing(h.container, key, data))
  BY <1>1, <1>3, <1>5, RehashKeeps DEF r
<1>8. ~Marked(g)
  BY <1>2, <1>4, <1>7, Abstraction
<1>9. Bindings(g) = Bindings(h)
  <2> DEFINE a == Bindings(h)
             b == Bindings(g)
  <2>1. a \in [Key -> [Datum -> Nat]] /\ b \in [Key -> [Datum -> Nat]]
    BY <1>2, Abstraction
  <2>2. \A key \in Key, data \in Datum : b[key][data] = a[key][data]
    BY <1>2, <1>4, <1>7, Abstraction
  <2> HIDE DEF a, b
  <2>3. \A key \in Key : b[key] = a[key]
    BY <2>1, <2>2
  <2>4. a = b
    BY <2>1, <2>3
  <2> QED BY <2>4 DEF a, b
<1> QED BY <1>2, <1>6, <1>8, <1>9

(* _htSetData: the key shows the new datum, which replaces the visible one *)
(* or, if the key is absent or a mark was in front of it, joins the data   *)
(* bound to it.                                                            *)
LEMMA SetDataMap ==
  ASSUME NEW h, GoodTable(h), Fits(h), NEW key \in Key, NEW data \in Datum
  PROVE  LET g == SetData(h, key, data)
         IN  /\ SoundTable(g) /\ Visible(g, key) = data
             /\ Marked(g) => Marked(h)
             /\ \A k \in Key \ {key} :
                  Visible(g, k) = Visible(h, k) /\ Bindings(g)[k] = Bindings(h)[k]
             /\ \/ /\ Visible(h, key) = NULL \/ Marked(h)
                   /\ Bindings(g)[key] = Promise!Add(Bindings(h)[key], data)
                \/ /\ Visible(h, key) # NULL
                   /\ Bindings(g)[key] =
                        Promise!Add(Promise!Remove(Bindings(h)[key], Visible(h, key)), data)
<1> DEFINE g == SetData(h, key, data)
           c == h.container
           r == g.container
           S == InsertStops(h, key)
           start == HashIndex(h.hash_fun, key, h.capacity)
           slot == InsertSlot(h, key)
           entry == Filled(key, data)
           K == Holding(c, key)
<1>1. SoundTable(g) /\ SoundTable(h)
  BY SetDataSound DEF GoodTable
<1>2. /\ c \in [Slots(h.capacity) -> HTEntry] /\ DOMAIN c = Slots(h.capacity)
      /\ Tombstones(c) \cap KeySlots(c) = {}
      /\ h.capacity \in Nat \ {0} /\ h.hash_fun \in HashFun
  BY <1>1 DEF SoundTable, Shaped
<1>3. /\ entry \in HTEntry /\ entry.key = key /\ entry.data = data
      /\ ~entry.is_tombstone /\ key # NULL /\ data # NULL
  BY HashTableAssumption DEF HTEntry, Filled
<1>4. S \in SUBSET Slots(h.capacity) /\ slot \in S /\ slot \in Slots(h.capacity)
  BY InsertLands
<1>5. start \in Slots(h.capacity)
  BY <1>2, HashIndexInTable
<1>6. /\ g.capacity = h.capacity /\ g.hash_fun = h.hash_fun
      /\ r = Written(c, slot, entry)
  <2>1. g = IF c[slot].key = key
            THEN [h EXCEPT !.container[slot].data = data]
            ELSE [h EXCEPT !.container[slot] = entry, !.length = h.length + 1]
    BY DEF SetData, InsertSlot, InsertStops
  <2> HIDE DEF slot, entry, g
  <2>2. CASE c[slot].key = key
    <3>1. c[slot] \in HTEntry /\ ~c[slot].is_tombstone
      BY <1>2, <1>3, <1>4, <2>2 DEF Tombstones, KeySlots
    <3>2. [c[slot] EXCEPT !.data = data] = entry
      BY <1>3, <2>2, <3>1 DEF HTEntry, entry, Filled
    <3>3. /\ g.capacity = h.capacity /\ g.hash_fun = h.hash_fun
          /\ g.container = [c EXCEPT ![slot] = [c[slot] EXCEPT !.data = data]]
      BY <1>1, <2>1, <2>2 DEF SoundTable, Shaped
    <3> QED BY <3>2, <3>3 DEF Written
  <2>3. CASE c[slot].key # key
    BY <1>1, <2>1, <2>3 DEF SoundTable, Shaped, Written
  <2> QED BY <2>2, <2>3
<1>7. LookupStops(h, key) \in SUBSET S
  BY DEF LookupStops, InsertStops
<1>8. FirstIn(S, start, h.capacity) = slot
  BY DEF InsertSlot
<1> HIDE DEF g, c, r, slot, entry, start
<1>9. /\ r \in [Slots(h.capacity) -> HTEntry]
      /\ r[slot] = entry /\ \A i \in Slots(h.capacity) \ {slot} : r[i] = c[i]
      /\ Holding(r, key) = (K \ {slot}) \cup
           (IF entry.key = key /\ ~entry.is_tombstone THEN {slot} ELSE {})
      /\ \A d \in Datum :
           Storing(r, key, d) = (Storing(c, key, d) \ {slot}) \cup
             (IF entry.key = key /\ ~entry.is_tombstone /\ entry.data = d
              THEN {slot} ELSE {})
  <2> HIDE DEF K
  <2> QED BY <1>2, <1>3, <1>4, <1>6, WrittenSlots DEF K
<1>10. VacantSlots(r) \subseteq VacantSlots(c) /\ Tombstones(r) \subseteq Tombstones(c)
  BY <1>2, <1>3, <1>4, <1>9 DEF VacantSlots, Tombstones
<1>11. Marked(g) => Marked(h)
  BY <1>1, <1>10, Abstraction DEF r, c
<1>12. ASSUME NEW k \in Key \ {key}
       PROVE  Visible(g, k) = Visible(h, k) /\ Bindings(g)[k] = Bindings(h)[k]
  <2>1. slot \notin Holding(c, k) /\ entry.key # k
    BY <1>2, <1>3, <1>4, HashTableAssumption
       DEF Holding, InsertStops, VacantSlots, Tombstones, c
  <2> QED BY <1>1, <1>3, <1>4, <1>6, <1>10, <2>1, OthersKept DEF r, c
<1>13. Visible(g, key) = data
  <2> DEFINE P == LookupStops(g, key)
  <2>1. slot \in Holding(r, key)
    BY <1>3, <1>9
  <2>2. P \in SUBSET S /\ slot \in P
    BY <1>3, <1>4, <1>9, <1>10, <2>1 DEF LookupStops, InsertStops, r, c
  <2> HIDE DEF P, S
  <2>3. FirstIn(P, start, h.capacity) = slot
    BY <1>2, <1>4, <1>5, <1>8, <2>2, FirstInSubset
  <2>4. LookupSlot(g, key) = slot
    BY <1>6, <2>3 DEF LookupSlot, P, start
  <2>5. Visible(g, key) = r[slot].data
    BY <1>1, <2>1, <2>4, VisibleFacts DEF r
  <2> QED BY <1>3, <1>9, <2>5
<1> DEFINE a == Bindings(h)[key]
           b == Bindings(g)[key]
<1>14. a \in [Datum -> Nat] /\ b \in [Datum -> Nat]
  BY <1>1, Abstraction
<1>15. \A d \in Datum : /\ a[d] = Cardinality(Storing(c, key, d))
                        /\ b[d] = Cardinality(Storing(r, key, d))
                        /\ IsFiniteSet(Storing(c, key, d))
  BY <1>1, Abstraction DEF c, r
<1>16. \A d \in Datum : Storing(r, key, d) = (Storing(c, key, d) \ {slot}) \cup
                                             (IF data = d THEN {slot} ELSE {})
  BY <1>3, <1>9
<1> HIDE DEF S
<1>17. slot \in LookupStops(h, key) => LookupSlot(h, key) = slot
  <2> DEFINE P == LookupStops(h, key)
  <2> HIDE DEF P
  <2> SUFFICES ASSUME slot \in P PROVE FirstIn(P, start, h.capacity) = slot
    BY DEF P, LookupSlot, start
  <2> QED BY <1>2, <1>4, <1>5, <1>7, <1>8, FirstInSubset DEF P
<1> HIDE DEF a, b
<1>18. CASE slot \in K
  <2> DEFINE old == Visible(h, key)
  <2>1. slot \in LookupStops(h, key) /\ K # {}
    BY <1>18 DEF LookupStops, c
  <2>2. old = c[slot].data /\ old \in Datum /\ old # NULL
    BY <1>1, <1>17, <2>1, VisibleFacts, HashTableAssumption DEF c
  <2> HIDE DEF old
  <2>3. slot \in Storing(c, key, old)
    BY <1>18, <2>2 DEF Storing
  <2>4. \A d \in Datum \ {old} : slot \notin Storing(c, key, d)
    BY <2>2 DEF Storing
  <2>5. ASSUME NEW d \in Datum
        PROVE  b[d] = a[d] + (IF d = data THEN 1 ELSE 0) - (IF d = old THEN 1 ELSE 0)
    <3> DEFINE A == Storing(c, key, d)
    <3>1. IsFiniteSet(A) /\ Cardinality(A) = a[d] /\ a[d] \in Nat
      BY <1>14, <1>15
    <3>2. CASE d = data /\ d = old
      <4>1. Storing(r, key, d) = A
        BY <1>16, <2>3, <3>2
      <4> QED BY <1>15, <3>1, <3>2, <4>1
    <3>3. CASE d = data /\ d # old
      <4>1. Storing(r, key, d) = A \cup {slot} /\ slot \notin A
        BY <1>16, <2>4, <3>3
      <4> HIDE DEF A
      <4>2. Cardinality(A \cup {slot}) = Cardinality(A) + 1
        BY <3>1, <4>1, FS_AddElement
      <4>3. b[d] = a[d] + 1
        BY <1>15, <3>1, <4>1, <4>2
      <4> QED BY <3>1, <3>3, <4>3
    <3>4. CASE d # data /\ d = old
      <4>1. Storing(r, key, d) = A \ {slot} /\ slot \in A
        BY <1>16, <2>3, <3>4
      <4> HIDE DEF A
      <4>2. Cardinality(A \ {slot}) = Cardinality(A) - 1
        BY <3>1, <4>1, FS_RemoveElement
      <4>3. b[d] = a[d] - 1
        BY <1>15, <3>1, <4>1, <4>2
      <4> QED BY <3>1, <3>4, <4>3
    <3>5. CASE d # data /\ d # old
      <4>1. Storing(r, key, d) = A
        BY <1>16, <2>4, <3>5
      <4> QED BY <1>15, <3>1, <3>5, <4>1
    <3> QED BY <3>2, <3>3, <3>4, <3>5
  <2>6. b = [[a EXCEPT ![old] = @ - 1] EXCEPT ![data] = @ + 1]
    <3> DEFINE less == [a EXCEPT ![old] = @ - 1]
               more == [less EXCEPT ![data] = @ + 1]
    <3>1. /\ less \in [Datum -> Int] /\ less[old] = a[old] - 1
          /\ \A d \in Datum \ {old} : less[d] = a[d]
      BY <1>14, <2>2
    <3> HIDE DEF less
    <3>2. /\ more \in [Datum -> Int] /\ more[data] = less[data] + 1
          /\ \A d \in Datum \ {data} : more[d] = less[d]
      BY <3>1
    <3> HIDE DEF more
    <3>3. \A d \in Datum : a[d] \in Int /\ less[d] \in Int
      BY <1>14, <3>1
    <3>4. \A d \in Datum : b[d] = more[d]
      BY <2>2, <2>5, <3>1, <3>2, <3>3
    <3>5. b = more
      BY <1>14, <3>2, <3>4
    <3> QED BY <3>5 DEF more, less
  <2>7. b = Promise!Add(Promise!Remove(a, old), data)
    BY <2>6 DEF Promise!Add, Promise!Remove
  <2> QED BY <1>1, <1>11, <1>12, <1>13, <2>2, <2>7 DEF g, a, b, old
<1>19. CASE slot \notin K
  <2>1. Visible(h, key) = NULL \/ Marked(h)
    <3>1. CASE slot \in Tombstones(c)
      BY <1>1, <3>1, Abstraction DEF c
    <3>2. CASE slot \in VacantSlots(c)
      <4>1. LookupSlot(h, key) = slot
        BY <1>17, <3>2 DEF LookupStops, c
      <4>2. K = {}
        BY <1>1, <1>19, <4>1, VisibleFacts DEF c
      <4> QED BY <1>1, <4>2, VisibleFacts DEF c
    <3> QED BY <1>4, <1>19, <3>1, <3>2 DEF InsertStops, S, c
  <2>2. \A d \in Datum : slot \notin Storing(c, key, d)
    BY <1>19 DEF Storing
  <2>3. ASSUME NEW d \in Datum
        PROVE  b[d] = a[d] + (IF d = data THEN 1 ELSE 0)
    <3> DEFINE A == Storing(c, key, d)
    <3>1. IsFiniteSet(A) /\ Cardinality(A) = a[d] /\ a[d] \in Nat /\ slot \notin A
      BY <1>14, <1>15, <2>2
    <3>2. CASE d = data
      <4>1. Storing(r, key, d) = A \cup {slot}
        BY <1>16, <2>2, <3>2
      <4> HIDE DEF A
      <4>2. Cardinality(A \cup {slot}) = Cardinality(A) + 1
        BY <3>1, FS_AddElement
      <4> QED BY <1>15, <3>1, <3>2, <4>1, <4>2
    <3>3. CASE d # data
      <4>1. Storing(r, key, d) = A
        BY <1>16, <2>2, <3>3
      <4> QED BY <1>15, <3>1, <3>3, <4>1
    <3> QED BY <3>2, <3>3
  <2>4. b = [a EXCEPT ![data] = @ + 1]
    BY <1>14, <2>3
  <2>5. b = Promise!Add(a, data)
    BY <2>4 DEF Promise!Add
  <2> QED BY <1>1, <1>11, <1>12, <1>13, <2>1, <2>5 DEF g, a, b
<1> QED BY <1>18, <1>19

-----------------------------------------------------------------------------
(* Each call takes a step of the abstract map.                             *)

LEMMA ReadyIsReady == Ready <=> Promise!Ready
BY DEF Ready, Promise!Ready

(* Without a table the map is empty.                                       *)
LEMMA NoTable ==
  /\ Shown(NULL) = [key \in Key |-> NULL]
  /\ Bindings(NULL) = [key \in Key |-> Promise!Nothing]
  /\ Marked(NULL) = FALSE
BY DEF Shown, Bindings, Marked, Promise!Nothing

(* So it is with a new one.                                                *)
LEMMA NewTableEmpty ==
  ASSUME NEW hash_fun \in HashFun, NEW min_capacity \in Nat,
         NEW capacity \in Capacities(min_capacity), Allocatable(capacity)
  PROVE  LET h == NewTable(hash_fun, capacity)
         IN  /\ h # NULL
             /\ Shown(h) = [key \in Key |-> NULL]
             /\ Bindings(h) = [key \in Key |-> Promise!Nothing]
             /\ ~Marked(h)
<1> DEFINE h == NewTable(hash_fun, capacity)
<1>1. SoundTable(h)
  BY NewTableGood DEF GoodTable
<1>2. h.container = Calloc(capacity) /\ capacity \in Nat \ {0}
  BY <1>1 DEF NewTable, SoundTable, Shaped
<1>3. Tombstones(h.container) = {}
  BY <1>2, CallocEmpty
<1>4. \A key \in Key : Holding(h.container, key) = {}
  BY <1>2, HashTableAssumption DEF Holding, Calloc, Vacant
<1> HIDE DEF h
<1>5. \A key \in Key : Visible(h, key) = NULL /\ Bindings(h)[key] = Promise!Nothing
  BY <1>1, <1>4, ShowsItsOwn
<1>6. Bindings(h) = [key \in Key |-> Promise!Nothing]
  BY <1>1, <1>5, Abstraction
<1>7. Shown(h) = [key \in Key |-> NULL]
  BY <1>1, <1>5, Abstraction
<1> QED BY <1>1, <1>3, <1>6, <1>7, Abstraction DEF h

LEMMA CreateStep ==
  ASSUME Inv, NEW hash_fun \in HashFun, NEW min_capacity \in MinCapacity,
         HtCreate(hash_fun, min_capacity)
  PROVE  Promise!Next
<1>1. ht = NULL /\ Ready
  BY DEF HtCreate
<1>2. CASE /\ UNCHANGED ht
           /\ \/ Returns("htCreate", NULL, FALSE)
              \/ ShiftUndefined(min_capacity) /\ Returns("htCreate", NULL, Undefined)
  <2>1. UNCHANGED <<Shown(ht), Bindings(ht), Marked(ht)>>
    BY <1>2
  <2>2. (ht' # NULL) = FALSE
    BY <1>1, <1>2
  <2>3. ShiftUndefined(min_capacity) => Overlarge
    BY DEF Overlarge
  <2>4. Promise!Create
    BY <1>1, <1>2, <2>1, <2>2, <2>3, ReadyIsReady
       DEF Returns, Promise!Create, Promise!Returns
  <2> QED BY <2>4 DEF Promise!Next
<1>3. ASSUME NEW capacity \in Capacities(min_capacity), Allocatable(capacity),
             ht' = NewTable(hash_fun, capacity), Returns("htCreate", NULL, TRUE)
      PROVE  Promise!Next
  <2>1. min_capacity \in Nat
    BY HashTableAssumption
  <2>2. /\ ht' # NULL
        /\ Shown(ht') = [key \in Key |-> NULL]
        /\ Bindings(ht') = [key \in Key |-> Promise!Nothing]
        /\ Marked(ht') = FALSE
    BY <1>3, <2>1, NewTableEmpty DEF Marked
  <2>3. UNCHANGED <<Shown(ht), Bindings(ht), Marked(ht)>> /\ (ht' # NULL) = TRUE
    BY <1>1, <2>2, NoTable
  <2>4. Promise!Create
    BY <1>1, <1>3, <2>3, ReadyIsReady DEF Returns, Promise!Create, Promise!Returns
  <2> QED BY <2>4 DEF Promise!Next
<1> QED BY <1>2, <1>3 DEF HtCreate

LEMMA DeleteStep ==
  ASSUME HtDelete
  PROVE  Promise!Next
<1>1. /\ Shown(ht') = [key \in Key |-> NULL]
      /\ Bindings(ht') = [key \in Key |-> Promise!Nothing]
      /\ Marked(ht') = FALSE
  BY NoTable DEF HtDelete
<1>2. Promise!Delete
  BY <1>1, ReadyIsReady
     DEF HtDelete, Returns, Promise!Delete, Promise!Returns, Promise!IsEmpty
<1> QED BY <1>2 DEF Promise!Next

(* A lookup that has nowhere to stop is one of an absent key in a table    *)
(* with marks: the slot that carries no key is marked.                     *)
LEMMA HangIsAllowed ==
  ASSUME ht # NULL, Inv, NEW key \in Key, LookupStops(ht, key) = {}
  PROVE  Promise!MayHang(key)
<1>1. GoodTable(ht) /\ SoundTable(ht)
  BY DEF Inv, GoodTable
<1>2. Holding(ht.container, key) = {} /\ VacantSlots(ht.container) = {}
  BY DEF LookupStops
<1>3. Tombstones(ht.container) # {}
  BY <1>1, <1>2, InsertLands DEF InsertStops
<1>4. Shown(ht)[key] = NULL
  BY <1>1, <1>2, VisibleFacts, Abstraction
<1> QED BY <1>1, <1>3, <1>4, Abstraction DEF Promise!MayHang

LEMMA SearchStep ==
  ASSUME Inv, NEW key \in Key \cup {NULL}, HtSearch(key)
  PROVE  Promise!Next
<1>1. UNCHANGED <<ht # NULL, Shown(ht), Bindings(ht), Marked(ht)>>
  BY DEF HtSearch
<1>2. CASE ht = NULL \/ key = NULL
  BY <1>1, <1>2, ReadyIsReady
     DEF HtSearch, Returns, Promise!Search, Promise!Returns, Promise!Next
<1>3. CASE ht # NULL /\ key # NULL /\ LookupStops(ht, key) = {}
  <2>1. key \in Key /\ ret' = [call |-> "htSearch", key |-> key, result |-> Unfinished]
    BY <1>3 DEF HtSearch, Returns
  <2>2. Promise!Search(key)
    BY <1>1, <1>3, <2>1, HangIsAllowed, ReadyIsReady
       DEF HtSearch, Promise!Search, Promise!Returns
  <2> QED BY <2>2 DEF Promise!Next
<1>4. CASE ht # NULL /\ key # NULL /\ LookupStops(ht, key) # {}
  <2>1. key \in Key /\ SoundTable(ht)
    BY <1>4 DEF Inv, GoodTable
  <2>2. Found(ht, key) <=> Visible(ht, key) # NULL
    BY <2>1, FoundHeld, ShowsItsOwn
  <2>3. Found(ht, key) = (Shown(ht)[key] # NULL)
    <3>1. Shown(ht)[key] = Visible(ht, key) /\ Found(ht, key) \in BOOLEAN
      BY <2>1, Abstraction DEF Found
    <3> QED BY <2>2, <3>1
  <2>4. ret' = [call |-> "htSearch", key |-> key, result |-> Shown(ht)[key] # NULL]
    BY <1>4, <2>3 DEF HtSearch, Returns
  <2>5. Promise!Search(key)
    BY <1>1, <1>4, <2>4, ReadyIsReady DEF HtSearch, Promise!Search, Promise!Returns
  <2> QED BY <2>5 DEF Promise!Next
<1> QED BY <1>2, <1>3, <1>4

LEMMA GetStep ==
  ASSUME Inv, NEW key \in Key, HtGet(key)
  PROVE  Promise!Next
<1>1. /\ UNCHANGED <<ht # NULL, Shown(ht), Bindings(ht), Marked(ht)>>
      /\ ht # NULL /\ SoundTable(ht)
  BY DEF HtGet, Inv, GoodTable
<1>2. ret' = [call |-> "htGet", key |-> key, result |-> Retrieved(ht, key)]
  BY DEF HtGet, Returns
<1>3. Shown(ht)[key] = Visible(ht, key)
  BY <1>1, Abstraction
<1>4. CASE LookupStops(ht, key) = {}
  BY <1>1, <1>2, <1>4, HangIsAllowed, VisibleFacts, ReadyIsReady
     DEF HtGet, Promise!Get, Promise!Returns, Promise!Next
<1>5. CASE LookupStops(ht, key) # {}
  BY <1>1, <1>2, <1>3, <1>5, VisibleFacts, ReadyIsReady
     DEF HtGet, Promise!Get, Promise!Returns, Promise!Next
<1> QED BY <1>4, <1>5

LEMMA PopStep ==
  ASSUME Inv, NEW key \in Key, HtPop(key)
  PROVE  Promise!Next
<1>1. /\ ht # NULL /\ GoodTable(ht) /\ SoundTable(ht) /\ Ready
      /\ ret' = [call |-> "htPop", key |-> key, result |-> Retrieved(ht, key)]
  BY DEF HtPop, Inv, GoodTable, Returns
<1>2. Shown(ht)[key] = Visible(ht, key) /\ (Found(ht, key) <=> Visible(ht, key) # NULL)
  <2>1. Shown(ht)[key] = Visible(ht, key)
    BY <1>1, Abstraction
  <2>2. Found(ht, key) <=> Visible(ht, key) # NULL
    BY <1>1, FoundHeld, ShowsItsOwn
  <2> QED BY <2>1, <2>2
<1>3. CASE ~Found(ht, key)
  <2>1. UNCHANGED <<ht # NULL, Shown(ht), Bindings(ht), Marked(ht)>>
    BY <1>3 DEF HtPop
  <2>2. Shown(ht)[key] = NULL
    BY <1>2, <1>3
  <2>3. \/ ret' = [call |-> "htPop", key |-> key, result |-> NULL]
        \/ /\ Promise!MayHang(key)
           /\ ret' = [call |-> "htPop", key |-> key, result |-> Unfinished]
    BY <1>1, <1>2, <1>3, HangIsAllowed, VisibleFacts
  <2>4. Promise!Pop(key)
    BY <1>1, <2>1, <2>2, <2>3, ReadyIsReady DEF Promise!Pop, Promise!Returns
  <2> QED BY <2>4 DEF Promise!Next
<1>4. CASE Found(ht, key)
  <2> DEFINE datum == Visible(ht, key)
             g == Popped(ht, key)
  <2>1. ht' = g
    BY <1>4 DEF HtPop, Popped
  <2>2. datum # NULL /\ Retrieved(ht, key) = datum
    BY <1>1, <1>2, <1>4, VisibleFacts DEF Found
  <2>3. /\ SoundTable(g) /\ Marked(g)
        /\ \A k \in Key \ {key} :
             Visible(g, k) = Visible(ht, k) /\ Bindings(g)[k] = Bindings(ht)[k]
        /\ Bindings(g)[key] = Promise!Remove(Bindings(ht)[key], datum)
    BY <1>1, <1>4, PoppedMap
  <2> HIDE DEF g, datum
  <2>4. /\ g # NULL /\ Shown(g)[key] = Visible(g, key)
        /\ Promise!Shows(Shown(g)[key], Bindings(g)[key])
    BY <2>3, Abstraction, ShowsItsOwn
  <2>5. Shown(g) = [Shown(ht) EXCEPT ![key] = Shown(g)[key]]
    BY <1>1, <2>3, <2>4, Abstraction
  <2>6. Bindings(g) = [Bindings(ht) EXCEPT ![key] = Promise!Remove(@, datum)]
    <3> DEFINE a == Bindings(ht)
               b == Bindings(g)
               bag == Promise!Remove(a[key], datum)
    <3>1. /\ a \in [Key -> [Datum -> Nat]] /\ b \in [Key -> [Datum -> Nat]]
          /\ b[key] = bag /\ \A k \in Key \ {key} : b[k] = a[k]
      BY <1>1, <2>3, Abstraction
    <3> HIDE DEF a, b, bag
    <3>2. b = [a EXCEPT ![key] = bag]
      BY <3>1
    <3> QED BY <3>2 DEF a, b, bag
  <2>7. /\ Shown(ht)[key] = datum
        /\ ret' = [call |-> "htPop", key |-> key, result |-> datum]
    BY <1>1, <1>2, <2>2 DEF datum
  <2>8. Promise!Pop(key)
    <3>1. /\ (ht' # NULL) = (ht # NULL)
          /\ Shown(ht') = [Shown(ht) EXCEPT ![key] = Shown(ht')[key]]
          /\ Bindings(ht') = [Bindings(ht) EXCEPT ![key] = Promise!Remove(@, Shown(ht)[key])]
          /\ Promise!Shows(Shown(ht')[key], Bindings(ht')[key])
          /\ Marked(ht')
      BY <1>1, <2>1, <2>3, <2>4, <2>5, <2>6, <2>7
    <3> QED BY <1>1, <2>2, <2>7, <3>1, ReadyIsReady DEF Promise!Pop, Promise!Returns
  <2> QED BY <2>8 DEF Promise!Next
<1> QED BY <1>3, <1>4

(* htSet, whichever table _htExpand hands to _htSetData.                   *)
LEMMA StoredStep ==
  ASSUME Inv, ht # NULL, Ready, NEW key \in Key, NEW data \in Datum,
         NEW h \in Expanded(ht), Fits(h), ht' = SetData(h, key, data),
         ret' = [call |-> "htSet", key |-> key, result |-> TRUE]
  PROVE  Promise!Set(key, data)
<1> DEFINE g == SetData(h, key, data)
<1>1. GoodTable(ht) /\ SoundTable(ht) /\ GoodTable(h) /\ SoundTable(h)
  BY ExpandedGood DEF Inv, GoodTable
<1>2. /\ SoundTable(g) /\ Visible(g, key) = data
      /\ Marked(g) => Marked(h)
      /\ \A k \in Key \ {key} :
           Visible(g, k) = Visible(h, k) /\ Bindings(g)[k] = Bindings(h)[k]
      /\ \/ /\ Visible(h, key) = NULL \/ Marked(h)
            /\ Bindings(g)[key] = Promise!Add(Bindings(h)[key], data)
         \/ /\ Visible(h, key) # NULL
            /\ Bindings(g)[key] =
                 Promise!Add(Promise!Remove(Bindings(h)[key], Visible(h, key)), data)
  BY <1>1, SetDataMap
<1>3. h = ht \/ (~Marked(h) /\ Bindings(h) = Bindings(ht))
  BY <1>1, ExpandedMap
<1> HIDE DEF g
<1>4. /\ g # NULL
      /\ \A k \in Key : Shown(g)[k] = Visible(g, k) /\ Shown(ht)[k] = Visible(ht, k)
  BY <1>1, <1>2, Abstraction
<1>5. \A k \in Key : /\ Bindings(h)[k] = Bindings(ht)[k]
                     /\ Visible(h, k) = NULL <=> Visible(ht, k) = NULL
                     /\ Promise!Shows(Visible(h, k), Bindings(ht)[k])
                     /\ Visible(h, k) = Visible(ht, k) \/ ~Marked(h)
  BY <1>1, <1>3, ShowsItsOwn
<1>6. Marked(h) => Marked(ht)
  BY <1>3
<1>7. \A k \in Key \ {key} :
        /\ Bindings(g)[k] = Bindings(ht)[k]
        /\ Shown(g)[k] = Shown(ht)[k]
             \/ (~Marked(g) /\ Promise!Shows(Shown(g)[k], Bindings(ht)[k]))
  BY <1>2, <1>4, <1>5
<1>8. \/ /\ Shown(ht)[key] = NULL \/ Marked(ht)
         /\ Bindings(g)[key] = Promise!Add(Bindings(ht)[key], data)
      \/ \E old \in Datum :
           /\ Bindings(ht)[key][old] > 0
           /\ old = Shown(ht)[key] \/ ~Marked(g)
           /\ Bindings(g)[key] =
                Promise!Add(Promise!Remove(Bindings(ht)[key], old), data)
  <2>1. CASE /\ Visible(h, key) = NULL \/ Marked(h)
             /\ Bindings(g)[key] = Promise!Add(Bindings(h)[key], data)
    BY <1>4, <1>5, <1>6, <2>1
  <2>2. CASE /\ Visible(h, key) # NULL
             /\ Bindings(g)[key] =
                  Promise!Add(Promise!Remove(Bindings(h)[key], Visible(h, key)), data)
    <3> DEFINE old == Visible(h, key)
    <3>1. old \in Datum /\ Bindings(h)[key][old] > 0
      BY <1>1, <2>2, ShowsItsOwn
    <3>2. Bindings(g)[key] = Promise!Add(Promise!Remove(Bindings(ht)[key], old), data)
      BY <1>5, <2>2
    <3>3. old = Shown(ht)[key] \/ ~Marked(g)
      BY <1>2, <1>4, <1>5
    <3>4. Bindings(ht)[key][old] > 0
      BY <1>5, <3>1
    <3> HIDE DEF old
    <3> QED BY <3>1, <3>2, <3>3, <3>4
  <2> QED BY <1>2, <2>1, <2>2
<1>9. ht' = g
  BY DEF g
<1>10. Promise!OthersKept(key)
  BY <1>7, <1>9 DEF Promise!OthersKept
<1>11. /\ Shown(ht')[key] = data
       /\ Marked(ht') => Marked(ht)
       /\ (ht' # NULL) = (ht # NULL)
  BY <1>2, <1>4, <1>6, <1>9
<1> QED BY <1>8, <1>9, <1>10, <1>11, ReadyIsReady DEF Promise!Set, Promise!Returns

LEMMA SetStep ==
  ASSUME Inv, NEW key \in Key \cup {NULL}, NEW data \in Datum \cup {NULL},
         HtSet(key, data)
  PROVE  Promise!Next
<1>1. ASSUME UNCHANGED ht, Returns("htSet", key, FALSE) PROVE Promise!Next
  <2>1. UNCHANGED <<ht # NULL, Shown(ht), Bindings(ht), Marked(ht)>>
    BY <1>1
  <2>2. Promise!Refuse(key)
    BY <1>1, <2>1, ReadyIsReady DEF HtSet, Returns, Promise!Refuse, Promise!Returns
  <2> QED BY <2>2 DEF Promise!Next
<1>2. ASSUME ht # NULL, key # NULL, data # NULL, NEW h \in Expanded(ht),
             ht' = IF Fits(h) THEN SetData(h, key, data) ELSE h,
             Returns("htSet", key, Fits(h))
      PROVE  Promise!Next
  <2>1. GoodTable(ht) /\ key \in Key /\ data \in Datum
    BY <1>2 DEF Inv
  <2>2. Fits(h) \in BOOLEAN
    BY DEF Fits
  <2>3. CASE Fits(h)
    <3>1. Fits(h) = TRUE
      BY <2>2, <2>3
    <3>2. ret' = [call |-> "htSet", key |-> key, result |-> TRUE]
      BY <1>2, <3>1 DEF Returns
    <3>3. Promise!Set(key, data)
      BY <1>2, <2>1, <2>3, <3>2, StoredStep DEF HtSet
    <3> QED BY <2>1, <3>3 DEF Promise!Next
  <2>4. CASE ~Fits(h)
    <3>1. Fits(h) = FALSE
      BY <2>2, <2>4
    <3>2. h = ht
      BY <2>1, <2>4, ExpandedMap
    <3>3. Returns("htSet", key, FALSE) /\ ht' = ht
      BY <1>2, <3>1, <3>2 DEF Returns
    <3> QED BY <1>1, <3>3
  <2> QED BY <2>3, <2>4
<1> QED BY <1>1, <1>2 DEF HtSet

(* The table is a ShadowMap: what a client gets from it depends on what it *)
(* has set and popped, for whatever hash function and in whatever order,   *)
(* and calls about one key never change what another key is bound to.      *)
THEOREM PromiseImplemented == Spec => ImplementsPromise
<1>1. Init => Promise!Init
  BY NoTable DEF Init, Promise!Init, Promise!IsEmpty
<1>2. Inv /\ [Next]_vars => [Promise!Next]_(Promise!vars)
  <2> SUFFICES ASSUME Inv, [Next]_vars
               PROVE  Promise!Next \/ UNCHANGED Promise!vars
    OBVIOUS
  <2>1. CASE Stuck \/ UNCHANGED vars
    BY <2>1 DEF Stuck, vars, Promise!vars
  <2> QED BY <2>1, CreateStep, DeleteStep, SearchStep, SetStep, GetStep, PopStep DEF Next
<1> QED BY Invariance, <1>1, <1>2, PTL DEF Spec, ImplementsPromise, Promise!Spec

=============================================================================
