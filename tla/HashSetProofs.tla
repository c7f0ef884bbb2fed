--------------------------- MODULE HashSetProofs ----------------------------
(***************************************************************************)
(* The invariants of HashSet, for any keys, hash functions and widths.     *)
(* GoodSet, what they say about one set, is the inductive invariant.       *)
(***************************************************************************)
EXTENDS HashSet, CommonProofs

Shaped(s) ==
  /\ s \in [capacity : 1 .. SizeSpan - 1, hash_fun : HashFun,
            container : [Slots(s.capacity) -> SetEntry]]
  /\ Tombstones(s.container) \cap KeySlots(s.container) = {}

Chained(c, capacity, hash_fun) ==
  \A i \in KeySlots(c) :
    Clear(VacantSlots(c), HashIndex(hash_fun, c[i].key, capacity), i, capacity)

GoodSet(s) ==
  /\ Shaped(s)
  /\ Chained(s.container, s.capacity, s.hash_fun)

-----------------------------------------------------------------------------
LEMMA SpanIsNatural == SizeSpan \in Nat
BY WidthAssumption, Pow2Def DEF SizeSpan


LEMMA NullIsNoSet ==
  ASSUME NEW s, Shaped(s)
  PROVE  s # NULL
<1>1. s.capacity \in 1 .. SizeSpan - 1
  BY DEF Shaped
<1>2. s \in [capacity : {s.capacity}, hash_fun : HashFun,
            container : [0 .. s.capacity - 1 -> SetEntry]]
  BY DEF Shaped, Slots
<1> QED BY <1>1, <1>2, HashSetAssumption

(* The operations on one set.                                              *)

(* Probing starts in the container.                                        *)
LEMMA StartInSet ==
  ASSUME NEW s, Shaped(s), NEW key \in Key
  PROVE  Start(s, key) \in Slots(s.capacity)
<1>1. s.capacity \in Nat \ {0} /\ s.hash_fun[key] \in Nat
  BY HashSetAssumption DEF Shaped
<1> QED BY <1>1 DEF Start, HashIndex, Slots

(* What setCreate builds.                                                  *)
LEMMA NewSetGood ==
  ASSUME NEW hash_fun \in HashFun, NEW min_capacity \in Nat,
         NEW capacity \in Capacities(min_capacity), Allocatable(capacity)
  PROVE  GoodSet(NewSet(hash_fun, capacity))
<1> DEFINE s == NewSet(hash_fun, capacity)
<1>1. capacity \in 1 .. SizeSpan - 1
  BY CapacitiesInRange
<1>2. s.container \in [Slots(capacity) -> SetEntry]
  BY DEF NewSet, Slots, SetEntry, Vacant
<1>3. KeySlots(s.container) = {}
  BY DEF NewSet, Slots, Vacant, KeySlots
<1>4. Shaped(s)
  BY <1>1, <1>2, <1>3 DEF NewSet, Shaped
<1> QED BY <1>3, <1>4 DEF GoodSet, Chained

(* The slot a probe stops at, if there is one to stop at: no slot to stop  *)
(* at lies in front of it.                                                 *)
LEMMA StopLands ==
  ASSUME NEW s, Shaped(s), NEW key \in Key,
         NEW stops \in SUBSET Slots(s.capacity), stops # {}
  PROVE  /\ Stop(s, key, stops) \in stops
         /\ Clear(stops, Start(s, key), Stop(s, key, stops), s.capacity)
<1>1. s.capacity \in Nat \ {0} /\ Start(s, key) \in Slots(s.capacity)
  BY StartInSet DEF Shaped
<1>2. PICK d \in Slots(s.capacity) :
        /\ Stop(s, key, stops) = Probe(Start(s, key), d, s.capacity)
        /\ Stop(s, key, stops) \in stops
        /\ \A e \in Slots(s.capacity) :
             e < d => Probe(Start(s, key), e, s.capacity) \notin stops
  BY <1>1, FirstInIsFirst DEF Stop
<1>3. \A c \in Slots(s.capacity) :
        Probe(Start(s, key), c, s.capacity) = Stop(s, key, stops) => c = d
  BY <1>1, <1>2, ProbeInjective
<1> QED BY <1>2, <1>3 DEF Clear

(* Filling the first slot a probe for the key stops at, or marking a slot, *)
(* leaves every probe path without a vacancy.                              *)
LEMMA WrittenGood ==
  ASSUME NEW s, GoodSet(s), NEW slot \in Slots(s.capacity), NEW entry \in SetEntry,
         entry.is_tombstone <=> entry.key = NULL,
         entry.key # NULL =>
           Clear(VacantSlots(s.container),
                 HashIndex(s.hash_fun, entry.key, s.capacity), slot, s.capacity)
  PROVE  GoodSet([s EXCEPT !.container[slot] = entry])
<1> DEFINE c == s.container
           r == [c EXCEPT ![slot] = entry]
           g == [s EXCEPT !.container[slot] = entry]
<1>1. /\ s \in [capacity : 1 .. SizeSpan - 1, hash_fun : HashFun,
                container : [Slots(s.capacity) -> SetEntry]]
      /\ c \in [Slots(s.capacity) -> SetEntry]
      /\ Tombstones(c) \cap KeySlots(c) = {}
      /\ Chained(c, s.capacity, s.hash_fun)
  BY DEF GoodSet, Shaped
<1>2. g = [s EXCEPT !.container = r]
  BY <1>1
<1>3. r \in [Slots(s.capacity) -> SetEntry]
  BY <1>1
<1>4. r[slot] = entry /\ \A i \in Slots(s.capacity) \ {slot} : r[i] = c[i]
  BY <1>1
<1> HIDE DEF r
<1>5. /\ g.container = r /\ g.capacity = s.capacity /\ g.hash_fun = s.hash_fun
      /\ g \in [capacity : 1 .. SizeSpan - 1, hash_fun : HashFun,
                container : [Slots(s.capacity) -> SetEntry]]
  BY <1>1, <1>2, <1>3
<1> HIDE DEF g
<1>6. Tombstones(r) \cap KeySlots(r) = {}
  BY <1>1, <1>3, <1>4 DEF Tombstones, KeySlots
<1>7. VacantSlots(r) \subseteq VacantSlots(c)
  BY <1>1, <1>3, <1>4 DEF VacantSlots
<1>8. Chained(r, s.capacity, s.hash_fun)
  <2> SUFFICES ASSUME NEW i \in KeySlots(r)
               PROVE  Clear(VacantSlots(c), HashIndex(s.hash_fun, r[i].key, s.capacity),
                            i, s.capacity)
    BY <1>7 DEF Chained, Clear
  <2>1. CASE i = slot
    BY <2>1, <1>4 DEF KeySlots
  <2>2. CASE i # slot
    <3>1. i \in KeySlots(c) /\ r[i] = c[i]
      BY <2>2, <1>1, <1>3, <1>4 DEF KeySlots
    <3> QED BY <3>1, <1>1 DEF Chained
  <2> QED BY <2>1, <2>2
<1>9. GoodSet(g)
  BY <1>5, <1>6, <1>8 DEF GoodSet, Shaped
<1> QED BY <1>9 DEF g

(* The sets of slots a probe may stop at are sets of slots.                *)
LEMMA StopsAreSlots ==
  ASSUME NEW s, Shaped(s), NEW key
  PROVE  /\ VacantSlots(s.container) \in SUBSET Slots(s.capacity)
         /\ Holding(s.container, key) \in SUBSET Slots(s.capacity)
         /\ LookupStops(s, key) \in SUBSET Slots(s.capacity)
         /\ InsertStops(s, key) \in SUBSET Slots(s.capacity)
BY DEF Shaped, LookupStops, InsertStops, VacantSlots, Holding, Tombstones

LEMMA InsertedGood ==
  ASSUME NEW s, GoodSet(s), NEW key \in Key, InsertStops(s, key) # {}
  PROVE  GoodSet(Inserted(s, key))
<1> DEFINE stops == InsertStops(s, key)
           slot == Stop(s, key, stops)
           entry == [is_tombstone |-> FALSE, key |-> key]
<1>1. Shaped(s)
  BY DEF GoodSet
<1>2. /\ stops \in SUBSET Slots(s.capacity)
      /\ VacantSlots(s.container) \subseteq stops
  BY <1>1, StopsAreSlots DEF InsertStops, LookupStops
<1>3. slot \in stops /\ Clear(stops, Start(s, key), slot, s.capacity)
  BY <1>1, <1>2, StopLands
<1>4. Clear(VacantSlots(s.container), Start(s, key), slot, s.capacity)
  BY <1>2, <1>3 DEF Clear
<1>5. entry \in SetEntry /\ entry.key # NULL
  BY HashSetAssumption DEF SetEntry
<1> HIDE DEF slot, stops
<1>6. GoodSet([s EXCEPT !.container[slot] = entry])
  BY <1>2, <1>3, <1>4, <1>5, WrittenGood DEF Start
<1> QED BY <1>6 DEF Inserted, slot, stops

(* A lookup finds exactly what is there.                                   *)
LEMMA FoundHeld ==
  ASSUME NEW s, GoodSet(s), NEW key \in Key
  PROVE  Found(s, key) <=> Holding(s.container, key) # {}
<1> DEFINE V == VacantSlots(s.container)
           K == Holding(s.container, key)
<1>1. /\ Shaped(s) /\ s.capacity \in Nat \ {0} /\ Start(s, key) \in Slots(s.capacity)
      /\ V \in SUBSET Slots(s.capacity) /\ K \in SUBSET Slots(s.capacity)
      /\ Chained(s.container, s.capacity, s.hash_fun)
  BY StartInSet, StopsAreSlots DEF GoodSet, Shaped
<1>2. ASSUME Found(s, key) PROVE K # {}
  BY <1>2 DEF Found
<1>3. ASSUME NEW i \in K PROVE Found(s, key)
  <2>1. i \in KeySlots(s.container) /\ s.container[i].key = key
    BY HashSetAssumption DEF Holding, KeySlots
  <2>2. Clear(V, Start(s, key), i, s.capacity)
    BY <1>1, <2>1 DEF Chained, Start
  <2>3. FirstIn(V \cup K, Start(s, key), s.capacity) \in K
    <3> HIDE DEF V, K
    <3> QED BY <1>1, <2>2, ChainFinds
  <2> QED BY <2>3 DEF Found, Stop, LookupStops
<1> QED BY <1>2, <1>3

LEMMA RemovedGood ==
  ASSUME NEW s, GoodSet(s), NEW key \in Key, Found(s, key)
  PROVE  GoodSet(Removed(s, Stop(s, key, LookupStops(s, key))))
<1> DEFINE slot == Stop(s, key, LookupStops(s, key))
           entry == [is_tombstone |-> TRUE, key |-> NULL]
<1>1. slot \in Slots(s.capacity)
  BY StopsAreSlots DEF Found, GoodSet
<1>2. entry \in SetEntry /\ entry.is_tombstone /\ entry.key = NULL
  BY DEF SetEntry
<1> HIDE DEF slot
<1>3. GoodSet([s EXCEPT !.container[slot] = entry])
  BY <1>1, <1>2, WrittenGood
<1> QED BY <1>3 DEF Removed, slot

-----------------------------------------------------------------------------
(* The specification.                                                      *)

Result == BOOLEAN \cup Key \cup {NULL, Unfinished, Undefined}

Inv ==
  /\ set = NULL \/ GoodSet(set)
  /\ ret.result \in Result

LEMMA InitInv == Init => Inv
BY DEF Init, Inv, Result

(* A call that does not return changes nothing.                            *)
LEMMA FailsInv ==
  ASSUME Inv, NEW call, NEW key, NEW stops, Fails(call, key, stops)
  PROVE  Inv'
BY DEF Fails, Returns, Inv, Result

LEMMA NextInv == Inv /\ [Next]_vars => Inv'
<1> SUFFICES ASSUME Inv, [Next]_vars PROVE Inv'
  OBVIOUS
<1>1. ASSUME NEW hash_fun \in HashFun, NEW min_capacity \in MinCapacity,
             SetCreate(hash_fun, min_capacity)
      PROVE  Inv'
  <2>1. ret'.result \in Result
    <3>1. \/ Returns("setCreate", NULL, FALSE) \/ Returns("setCreate", NULL, TRUE)
          \/ Returns("setCreate", NULL, Undefined)
      BY <1>1 DEF SetCreate
    <3>2. CASE Returns("setCreate", NULL, FALSE)
      BY <3>2 DEF Returns, Result
    <3>3. CASE Returns("setCreate", NULL, TRUE)
      BY <3>3 DEF Returns, Result
    <3>4. CASE Returns("setCreate", NULL, Undefined)
      BY <3>4 DEF Returns, Result
    <3> QED BY <3>1, <3>2, <3>3, <3>4
  <2>2. min_capacity \in Nat
    BY HashSetAssumption
  <2>3. set' = NULL \/ GoodSet(set')
    BY <1>1, <2>2, NewSetGood DEF SetCreate, Inv
  <2> QED BY <2>1, <2>3 DEF Inv
<1>2. CASE SetDelete
  BY <1>2 DEF SetDelete, Returns, Inv, Result
<1>3. ASSUME NEW key \in Key \cup {NULL}, SetInsert(key)
      PROVE  Inv'
  <2>1. CASE Rejected("setInsert", key, FALSE)
    BY <2>1 DEF Rejected, Returns, Inv, Result
  <2>2. CASE Fails("setInsert", key, InsertStops(set, key))
    BY <2>2, FailsInv
  <2>3. ASSUME set # NULL, key \in Key, InsertStops(set, key) # {},
               set' = Inserted(set, key), Returns("setInsert", key, TRUE)
        PROVE  Inv'
    BY <2>3, InsertedGood DEF Returns, Inv, Result
  <2> QED BY <1>3, <2>1, <2>2, <2>3 DEF SetInsert
<1>4. ASSUME NEW key \in Key \cup {NULL}, SetSearch(key)
      PROVE  Inv'
  <2>1. CASE Rejected("setSearch", key, FALSE)
    BY <2>1 DEF Rejected, Returns, Inv, Result
  <2>2. CASE Fails("setSearch", key, LookupStops(set, key))
    BY <2>2, FailsInv
  <2>3. ASSUME Returns("setSearch", key, Found(set, key)), UNCHANGED set
        PROVE  Inv'
    <3>1. Found(set, key) = TRUE \/ Found(set, key) = FALSE
      BY DEF Found
    <3>2. Returns("setSearch", key, TRUE) \/ Returns("setSearch", key, FALSE)
      BY <2>3, <3>1
    <3> QED BY <2>3, <3>2 DEF Returns, Inv, Result
  <2> QED BY <1>4, <2>1, <2>2, <2>3 DEF SetSearch
<1>5. ASSUME NEW key \in Key \cup {NULL}, SetPop(key)
      PROVE  Inv'
  <2>1. CASE Rejected("setPop", key, NULL)
    BY <2>1 DEF Rejected, Returns, Inv, Result
  <2>2. CASE Fails("setPop", key, LookupStops(set, key))
    BY <2>2, FailsInv
  <2>3. ASSUME Returns("setPop", key, NULL), UNCHANGED set
        PROVE  Inv'
    BY <2>3 DEF Returns, Inv, Result
  <2>4. ASSUME set # NULL, key \in Key, Found(set, key),
               set' = Removed(set, Stop(set, key, LookupStops(set, key))),
               Returns("setPop", key, key)
        PROVE  Inv'
    BY <2>4, RemovedGood DEF Returns, Inv, Result
  <2> QED BY <1>5, <2>1, <2>2, <2>3, <2>4 DEF SetPop
<1>6. CASE Stuck
  BY <1>6 DEF Stuck, vars, Inv
<1>7. CASE UNCHANGED vars
  BY <1>7 DEF vars, Inv
<1> QED BY <1>1, <1>2, <1>3, <1>4, <1>5, <1>6, <1>7 DEF Next

LEMMA Invariance == Spec => []Inv
BY InitInv, NextInv, PTL DEF Spec

(* Whatever the client calls, the struct keeps its shape and no slot is    *)
(* marked and occupied at once.                                            *)
THEOREM TypeCorrect == Spec => []TypeOK
<1>1. Inv => TypeOK
  BY DEF Inv, GoodSet, Shaped, TypeOK, Slots, Result
<1> QED BY Invariance, <1>1, PTL

(* No sequence of insertions and removals breaks the path to a stored key. *)
THEOREM NothingMissed == Spec => []ProbeChain
<1>1. Inv => ProbeChain
  BY DEF Inv, GoodSet, Chained, Clear, ProbeChain, Start, Slots
<1> QED BY Invariance, <1>1, PTL

(* A lookup that returns finds a key if and only if it is stored.          *)
THEOREM LookupsExact == Spec => []LookupExact
<1>1. Inv => LookupExact
  BY FoundHeld DEF Inv, LookupExact
<1> QED BY Invariance, <1>1, PTL

-----------------------------------------------------------------------------
(* The counts of the abstract set.                                         *)

(* Every slot is vacant, marked or holds a key.                            *)
LEMMA EverySlot ==
  ASSUME NEW s, Shaped(s)
  PROVE  s.capacity = Cardinality(VacantSlots(s.container))
                        + Cardinality(Tombstones(s.container))
                        + Cardinality(KeySlots(s.container))
<1> DEFINE V == VacantSlots(s.container)
           T == Tombstones(s.container)
           K == KeySlots(s.container)
           all == Slots(s.capacity)
<1>1. /\ s.capacity \in Nat \ {0} /\ V \in SUBSET all /\ T \in SUBSET all /\ K \in SUBSET all
      /\ V \cap T = {} /\ (V \cup T) \cap K = {} /\ (V \cup T) \cup K = all
  BY DEF Shaped, VacantSlots, Tombstones, KeySlots
<1> HIDE DEF V, T, K, all
<1>2. /\ IsFiniteSet(V) /\ IsFiniteSet(T) /\ IsFiniteSet(K)
      /\ Cardinality(V) \in Nat /\ Cardinality(T) \in Nat /\ Cardinality(K) \in Nat
      /\ Cardinality(all) = s.capacity
  BY <1>1, SlotsFinite DEF all
<1>3. Cardinality({}) = 0
  BY FS_EmptySet
<1>4. IsFiniteSet(V \cup T) /\ Cardinality(V \cup T) = Cardinality(V) + Cardinality(T)
  <2>1. /\ IsFiniteSet(V \cup T)
        /\ Cardinality(V \cup T) = Cardinality(V) + Cardinality(T) - Cardinality(V \cap T)
    BY <1>2, FS_Union
  <2>2. Cardinality(V \cap T) = 0
    BY <1>1, <1>3, Zenon
  <2> QED BY <1>2, <2>1, <2>2
<1>5. Cardinality((V \cup T) \cup K) = Cardinality(V \cup T) + Cardinality(K)
  <2>1. Cardinality((V \cup T) \cup K)
          = Cardinality(V \cup T) + Cardinality(K) - Cardinality((V \cup T) \cap K)
    BY <1>2, <1>4, FS_Union
  <2>2. Cardinality((V \cup T) \cap K) = 0
    BY <1>1, <1>3, Zenon
  <2> QED BY <1>2, <1>4, <2>1, <2>2
<1>6. s.capacity = Cardinality(V) + Cardinality(T) + Cardinality(K)
  BY <1>1, <1>2, <1>4, <1>5
<1> QED BY <1>6 DEF V, T, K

(* The places taken by the keys are the slots that hold one.               *)
LEMMA TakenSlots ==
  ASSUME NEW s, Shaped(s), NEW count,
         \A key \in Key : count[key] = Cardinality(Holding(s.container, key))
  PROVE  Cardinality(UNION {{key} \X (1 .. count[key]) : key \in Key})
           = Cardinality(KeySlots(s.container))
<1> DEFINE c == s.container
           K == KeySlots(c)
           H(key) == Holding(c, key)
           rank == [key \in Key |-> CHOOSE f : f \in Bijection(H(key), 1 .. count[key])]
           taken == UNION {{key} \X (1 .. count[key]) : key \in Key}
           F == [i \in K |-> <<c[i].key, rank[c[i].key][i]>>]
<1>1. /\ s.capacity \in Nat \ {0} /\ K \in SUBSET Slots(s.capacity)
      /\ \A key : H(key) \in SUBSET Slots(s.capacity)
      /\ \A i \in K : c[i].key \in Key /\ i \in H(c[i].key)
      /\ \A key \in Key : \A i \in H(key) : i \in K /\ c[i].key = key
  BY HashSetAssumption DEF Shaped, SetEntry, KeySlots, Tombstones, Holding
<1>2. \A key \in Key : rank[key] \in Bijection(H(key), 1 .. count[key])
  <2> SUFFICES ASSUME NEW key \in Key
               PROVE  rank[key] \in Bijection(H(key), 1 .. count[key])
    OBVIOUS
  <2>1. IsFiniteSet(H(key)) /\ count[key] = Cardinality(H(key)) /\ count[key] \in Nat
    BY <1>1, SlotsFinite
  <2>2. IsFiniteSet(1 .. count[key]) /\ Cardinality(1 .. count[key]) = count[key]
    BY <2>1, FS_Interval
  <2>3. ExistsBijection(H(key), 1 .. count[key])
    <3> HIDE DEF H
    <3> QED BY <2>1, <2>2, FS_SameCardinalityBij
  <2>4. \E f : f \in Bijection(H(key), 1 .. count[key])
    BY <2>3 DEF ExistsBijection
  <2> HIDE DEF H
  <2> QED BY <2>4
<1> HIDE DEF rank, H, K, c
<1>3. \A key \in Key :
        /\ \A i \in H(key) : rank[key][i] \in 1 .. count[key]
        /\ \A i, j \in H(key) : rank[key][i] = rank[key][j] => i = j
        /\ \A n \in 1 .. count[key] : \E i \in H(key) : rank[key][i] = n
  BY <1>2 DEF Bijection, Injection, Surjection, IsInjective
<1>4. F \in Bijection(K, taken)
  <2>1. \A i \in K : F[i] \in taken
    BY <1>1, <1>3
  <2>2. \A i, j \in K : F[i] = F[j] => i = j
    BY <1>1, <1>3
  <2>3. \A t \in taken : \E i \in K : F[i] = t
    <3> SUFFICES ASSUME NEW key \in Key, NEW n \in 1 .. count[key]
                 PROVE  \E i \in K : F[i] = <<key, n>>
      <4> HIDE DEF F
      <4> QED OBVIOUS
    <3>1. PICK i \in H(key) : rank[key][i] = n
      BY <1>3
    <3> QED BY <1>1, <3>1
  <2>4. F \in [K -> taken]
    <3>1. F = [i \in K |-> F[i]]
      OBVIOUS
    <3> HIDE DEF F, taken
    <3> QED BY <2>1, <3>1
  <2> HIDE DEF F, taken
  <2> QED BY <2>2, <2>3, <2>4 DEF Bijection, Injection, Surjection, IsInjective
<1>5. IsFiniteSet(K)
  BY <1>1, SlotsFinite
<1> HIDE DEF F, taken
<1>6. Cardinality(taken) = Cardinality(K)
  BY <1>4, <1>5, FS_Bijection DEF ExistsBijection
<1> QED BY <1>6 DEF taken, K, c

(* What the abstract set is when the client holds one.                     *)
LEMMA Abstraction ==
  ASSUME NEW s, Shaped(s), s # NULL
  PROVE  /\ Places(s) = s.capacity /\ Places(s) \in Nat \ {0}
         /\ Marks(s) = Cardinality(Tombstones(s.container)) /\ Marks(s) \in Nat
         /\ Counts(s) = [key \in Key |-> Cardinality(Holding(s.container, key))]
         /\ \A key \in Key : Counts(s)[key] = Cardinality(Holding(s.container, key))
         /\ \A key \in Key : Counts(s)[key] \in Nat
         /\ \A key \in Key : Counts(s)[key] = 0 <=> Holding(s.container, key) = {}
<1>1. s.capacity \in Nat \ {0} /\ Tombstones(s.container) \in SUBSET Slots(s.capacity)
  BY DEF Shaped, Tombstones
<1>2. Cardinality(Tombstones(s.container)) \in Nat
  BY <1>1, SlotsFinite
<1>3. \A key \in Key : /\ Cardinality(Holding(s.container, key)) \in Nat
                       /\ Cardinality(Holding(s.container, key)) = 0
                            <=> Holding(s.container, key) = {}
  BY <1>1, StopsAreSlots, SlotsFinite, FS_EmptySet
<1>4. Counts(s) = [key \in Key |-> Cardinality(Holding(s.container, key))]
  BY DEF Counts
<1>5. \A key \in Key : Counts(s)[key] = Cardinality(Holding(s.container, key))
  BY <1>4
<1> QED BY <1>1, <1>2, <1>3, <1>4, <1>5 DEF Places, Marks

LEMMA Unused ==
  ASSUME set # NULL, Shaped(set)
  PROVE  /\ VacantSlots(set.container) = {} <=> Counted!Lost
         /\ Counted!Taken = Places(set) <=>
              VacantSlots(set.container) = {} /\ Tombstones(set.container) = {}
<1> DEFINE v == Cardinality(VacantSlots(set.container))
           t == Cardinality(Tombstones(set.container))
           k == Cardinality(KeySlots(set.container))
<1>1. Counted!Taken = k /\ Marks(set) = t /\ Places(set) = set.capacity
  <2>1. \A key \in Key : Counts(set)[key] = Cardinality(Holding(set.container, key))
    BY Abstraction
  <2>2. Cardinality(UNION {{key} \X (1 .. Counts(set)[key]) : key \in Key}) = k
    BY <2>1, TakenSlots
  <2>3. \A S : Counted!Cardinality(S) = Cardinality(S)
    BY DEF Cardinality, Counted!Cardinality
  <2> QED BY <2>2, <2>3, Abstraction DEF Counted!Taken
<1>2. set.capacity = v + t + k
  BY EverySlot
<1>3. /\ v \in Nat /\ t \in Nat /\ k \in Nat
      /\ v = 0 <=> VacantSlots(set.container) = {}
      /\ t = 0 <=> Tombstones(set.container) = {}
  <2>1. /\ set.capacity \in Nat \ {0}
        /\ VacantSlots(set.container) \in SUBSET Slots(set.capacity)
        /\ Tombstones(set.container) \in SUBSET Slots(set.capacity)
        /\ KeySlots(set.container) \in SUBSET Slots(set.capacity)
    BY DEF Shaped, VacantSlots, Tombstones, KeySlots
  <2> QED BY <2>1, SlotsFinite, FS_EmptySet
<1> HIDE DEF v, t, k
<1> QED BY <1>1, <1>2, <1>3 DEF Counted!Lost

(* A slot that is written changes the count of the key it held, of the key *)
(* it is given, and the number of marks.                                   *)
Written(s, slot, entry) == [s EXCEPT !.container[slot] = entry]

LEMMA WrittenCounts ==
  ASSUME NEW s, Shaped(s), NEW slot \in Slots(s.capacity), NEW entry \in SetEntry
  PROVE  LET r == Written(s, slot, entry)
         IN  /\ r.capacity = s.capacity
             /\ \A key \in Key :
                  Holding(r.container, key) =
                    (Holding(s.container, key) \ {slot}) \cup
                      (IF entry.key = key /\ ~entry.is_tombstone THEN {slot} ELSE {})
             /\ Tombstones(r.container) =
                  (Tombstones(s.container) \ {slot})
                    \cup (IF entry.is_tombstone THEN {slot} ELSE {})
<1> DEFINE r == Written(s, slot, entry)
           c == [s.container EXCEPT ![slot] = entry]
<1>1. s.container \in [Slots(s.capacity) -> SetEntry]
  BY DEF Shaped
<1>2. c \in [Slots(s.capacity) -> SetEntry] /\ c[slot] = entry
      /\ \A i \in Slots(s.capacity) \ {slot} : c[i] = s.container[i]
  BY <1>1
<1>3. r.container = c /\ r.capacity = s.capacity
  BY DEF Shaped, Written
<1> HIDE DEF c, r
<1>4. DOMAIN c = Slots(s.capacity) /\ DOMAIN s.container = Slots(s.capacity)
  BY <1>1, <1>2
<1>5. Tombstones(c) = (Tombstones(s.container) \ {slot})
                        \cup (IF entry.is_tombstone THEN {slot} ELSE {})
  BY <1>2, <1>4 DEF Tombstones
<1>6. \A key \in Key :
        Holding(c, key) = (Holding(s.container, key) \ {slot})
          \cup (IF entry.key = key /\ ~entry.is_tombstone THEN {slot} ELSE {})
  BY <1>2, <1>4 DEF Holding
<1> QED BY <1>3, <1>5, <1>6 DEF r

(* An insertion finds the key, reuses a mark, or takes an unused slot for  *)
(* a key that no slot holds.                                               *)
LEMMA InsertedCounts ==
  ASSUME NEW s, s # NULL, GoodSet(s), NEW key \in Key, InsertStops(s, key) # {}
  PROVE  LET r == Inserted(s, key)
         IN  \/ r = s /\ Counts(s)[key] > 0
             \/ /\ r # NULL /\ Places(r) = Places(s)
                /\ Counts(r) = [Counts(s) EXCEPT ![key] = @ + 1]
                /\ \/ Marks(s) > 0 /\ Marks(r) = Marks(s) - 1
                   \/ /\ Counts(s)[key] = 0 /\ VacantSlots(s.container) # {}
                      /\ Marks(r) = Marks(s)
<1> DEFINE stops == InsertStops(s, key)
           slot == Stop(s, key, stops)
           entry == [is_tombstone |-> FALSE, key |-> key]
           r == Inserted(s, key)
           V == VacantSlots(s.container)
           T == Tombstones(s.container)
           H(k) == Holding(s.container, k)
<1>1. Shaped(s) /\ s.capacity \in Nat \ {0} /\ Chained(s.container, s.capacity, s.hash_fun)
  BY DEF GoodSet, Shaped
<1>2. /\ stops \in SUBSET Slots(s.capacity) /\ V \subseteq stops /\ H(key) \subseteq stops
      /\ stops = V \cup H(key) \cup T
  BY <1>1, StopsAreSlots DEF InsertStops, LookupStops
<1>3. slot \in stops /\ Clear(stops, Start(s, key), slot, s.capacity)
  BY <1>1, <1>2, StopLands
<1>4. entry \in SetEntry /\ entry.key = key /\ ~entry.is_tombstone
  BY DEF SetEntry
<1>5. CASE slot \in H(key)
  <2>1. r = s
    BY <1>5 DEF Inserted
  <2>2. Counts(s)[key] \in Nat /\ Counts(s)[key] # 0
    BY <1>1, <1>5, Abstraction
  <2> HIDE DEF r
  <2>3. r = s /\ Counts(s)[key] > 0
    BY <2>1, <2>2
  <2> QED BY <2>3 DEF r
<1>6. CASE slot \notin H(key)
  <2>1. r = Written(s, slot, entry)
    BY <1>6 DEF Inserted, Written
  <2>2. GoodSet(r)
    BY InsertedGood
  <2> HIDE DEF r, entry
  <2>3. slot \in Slots(s.capacity)
    BY <1>2, <1>3
  <2> HIDE DEF slot
  <2>4. /\ r.capacity = s.capacity
        /\ Tombstones(r.container) = T \ {slot}
        /\ \A k \in Key : Holding(r.container, k) =
                             (H(k) \ {slot}) \cup (IF k = key THEN {slot} ELSE {})
    <3>1. /\ r.capacity = s.capacity
          /\ Tombstones(r.container) =
               (T \ {slot}) \cup (IF entry.is_tombstone THEN {slot} ELSE {})
          /\ \A k \in Key : Holding(r.container, k) =
               (H(k) \ {slot})
                 \cup (IF entry.key = k /\ ~entry.is_tombstone THEN {slot} ELSE {})
      BY <1>1, <1>4, <2>1, <2>3, WrittenCounts
    <3> HIDE DEF T, H
    <3> QED BY <1>4, <3>1
  <2>5. \A k \in Key : slot \notin H(k)
    BY <1>2, <1>3, <1>6, HashSetAssumption DEF VacantSlots, Tombstones, Holding
  <2>6. /\ Holding(r.container, key) = H(key) \cup {slot}
        /\ \A k \in Key \ {key} : Holding(r.container, k) = H(k)
    BY <2>4, <2>5
  <2>7. r # NULL
    BY <2>2, NullIsNoSet DEF GoodSet
  <2>8. IsFiniteSet(H(key)) /\ IsFiniteSet(T)
    BY <1>1, StopsAreSlots, SlotsFinite DEF InsertStops, Shaped, Tombstones
  <2>9. Cardinality(Holding(r.container, key)) = Cardinality(H(key)) + 1
    BY <1>6, <2>6, <2>8, FS_AddElement
  <2>10. Counts(r) = [Counts(s) EXCEPT ![key] = @ + 1]
    <3>1. /\ Counts(r) = [k \in Key |-> Cardinality(Holding(r.container, k))]
          /\ Counts(s) = [k \in Key |-> Cardinality(H(k))]
      BY <1>1, <2>2, <2>7, Abstraction DEF GoodSet
    <3> HIDE DEF H
    <3> QED BY <2>6, <2>9, <3>1
  <2>11. /\ Places(r) = Places(s) /\ Marks(s) = Cardinality(T)
         /\ Marks(r) = Cardinality(T \ {slot}) /\ Marks(s) \in Nat /\ Marks(r) \in Nat
    BY <1>1, <2>2, <2>4, <2>7, Abstraction DEF GoodSet
  <2>12. CASE slot \in T
    <3>1. Marks(r) = Marks(s) - 1
      BY <2>8, <2>11, <2>12, FS_RemoveElement
    <3>2. Marks(s) > 0 /\ Marks(r) = Marks(s) - 1
      BY <2>11, <3>1
    <3> QED BY <2>7, <2>10, <2>11, <3>2 DEF r
  <2>13. CASE slot \notin T
    <3>1. slot \in V /\ T \ {slot} = T
      BY <1>2, <1>3, <1>6, <2>13 DEF slot
    <3>2. H(key) = {}
      <4> SUFFICES ASSUME NEW i \in H(key) PROVE FALSE
        OBVIOUS
      <4>1. i \in Slots(s.capacity) /\ i \in KeySlots(s.container) /\ s.container[i].key = key
        BY <1>1, HashSetAssumption DEF Shaped, Holding, KeySlots
      <4>2. Clear(V, Start(s, key), i, s.capacity)
        BY <1>1, <4>1 DEF Chained, Start
      <4>3. Start(s, key) \in Slots(s.capacity)
        BY <1>1, StartInSet
      <4>4. PICK d \in Slots(s.capacity) : Probe(Start(s, key), d, s.capacity) = i
        BY <1>1, <4>1, <4>3, ProbeOnto
      <4>5. PICK e \in Slots(s.capacity) : Probe(Start(s, key), e, s.capacity) = slot
        BY <1>1, <2>3, <4>3, ProbeOnto
      <4>6. ~(e < d)
        BY <3>1, <4>2, <4>4, <4>5 DEF Clear
      <4>7. ~(d < e)
        BY <1>2, <1>3, <4>4, <4>5 DEF Clear, slot
      <4>8. d # e
        BY <1>6, <4>4, <4>5
      <4> QED BY <4>6, <4>7, <4>8 DEF Slots
    <3>3. Counts(s)[key] = 0 /\ Marks(r) = Marks(s)
      BY <1>1, <2>11, <3>1, <3>2, Abstraction
    <3> QED BY <2>7, <2>10, <2>11, <3>1, <3>3 DEF r
  <2> QED BY <2>12, <2>13
<1> QED BY <1>5, <1>6

(* A removal turns a slot that holds the key into a mark.                  *)
LEMMA RemovedCounts ==
  ASSUME NEW s, s # NULL, GoodSet(s), NEW key \in Key, Found(s, key)
  PROVE  LET r == Removed(s, Stop(s, key, LookupStops(s, key)))
         IN  /\ r # NULL /\ Places(r) = Places(s) /\ Counts(s)[key] > 0
             /\ Counts(r) = [Counts(s) EXCEPT ![key] = @ - 1]
             /\ Marks(r) = Marks(s) + 1
<1> DEFINE slot == Stop(s, key, LookupStops(s, key))
           entry == [is_tombstone |-> TRUE, key |-> NULL]
           r == Removed(s, slot)
           T == Tombstones(s.container)
           H(k) == Holding(s.container, k)
<1>1. Shaped(s) /\ s.capacity \in Nat \ {0}
  BY DEF GoodSet, Shaped
<1>2. slot \in H(key)
  BY DEF Found
<1>3. entry \in SetEntry /\ entry.is_tombstone
  BY DEF SetEntry
<1>4. r = Written(s, slot, entry)
  BY DEF Removed, Written
<1>5. GoodSet(r)
  BY RemovedGood
<1> HIDE DEF r, entry, slot
<1>6. slot \in Slots(s.capacity)
  BY <1>1, <1>2, StopsAreSlots
<1>7. /\ r.capacity = s.capacity
      /\ Tombstones(r.container) = T \cup {slot}
      /\ \A k \in Key : Holding(r.container, k) = H(k) \ {slot}
  <2>1. /\ r.capacity = s.capacity
        /\ Tombstones(r.container) =
             (T \ {slot}) \cup (IF entry.is_tombstone THEN {slot} ELSE {})
        /\ \A k \in Key : Holding(r.container, k) =
             (H(k) \ {slot})
               \cup (IF entry.key = k /\ ~entry.is_tombstone THEN {slot} ELSE {})
    <3>1. entry \in SetEntry
      BY <1>3
    <3> QED BY <1>1, <1>4, <1>6, <3>1, WrittenCounts
  <2> HIDE DEF H
  <2>2. T \subseteq Slots(s.capacity) /\ (T \ {slot}) \cup {slot} = T \cup {slot}
    BY <1>1 DEF Shaped, Tombstones
  <2> HIDE DEF T
  <2> QED BY <1>3, <2>1, <2>2
<1>8. slot \notin T /\ \A k \in Key \ {key} : slot \notin H(k)
  BY <1>2 DEF Tombstones, Holding
<1>9. r # NULL
  BY <1>5, NullIsNoSet DEF GoodSet
<1>10. IsFiniteSet(H(key)) /\ IsFiniteSet(T)
  BY <1>1, StopsAreSlots, SlotsFinite DEF Shaped, Tombstones
<1>11. /\ Counts(r) = [k \in Key |-> Cardinality(Holding(r.container, k))]
       /\ Counts(s) = [k \in Key |-> Cardinality(H(k))]
       /\ Counts(s)[key] \in Nat /\ Counts(s)[key] # 0
       /\ Places(r) = Places(s) /\ Marks(s) = Cardinality(T)
       /\ Marks(r) = Cardinality(T \cup {slot})
  BY <1>1, <1>2, <1>5, <1>7, <1>9, Abstraction DEF GoodSet
<1>12. Marks(r) = Marks(s) + 1
  BY <1>8, <1>10, <1>11, FS_AddElement
<1>13. Cardinality(Holding(r.container, key)) = Cardinality(H(key)) - 1
  BY <1>2, <1>7, <1>10, FS_RemoveElement
<1>14. \A k \in Key \ {key} : Holding(r.container, k) = H(k)
  BY <1>7, <1>8
<1>15. Counts(r) = [Counts(s) EXCEPT ![key] = @ - 1]
  <2> HIDE DEF H
  <2> QED BY <1>11, <1>13, <1>14
<1>16. Counts(s)[key] > 0
  BY <1>11
<1> QED BY <1>9, <1>11, <1>12, <1>15, <1>16 DEF r, slot

-----------------------------------------------------------------------------
(* Each call takes a step of the abstract set.                             *)

LEMMA OpenSet ==
  ASSUME Inv, set # NULL
  PROVE  GoodSet(set) /\ Shaped(set) /\ Counted!Open
<1>1. GoodSet(set) /\ Shaped(set)
  BY DEF Inv, GoodSet
<1>2. Places(set) \in Nat \ {0}
  BY <1>1, Abstraction
<1> QED BY <1>1, <1>2 DEF Counted!Open

LEMMA ReadyIsReady == Ready <=> Counted!Ready
BY DEF Ready, Counted!Ready

LEMMA CreateStep ==
  ASSUME NEW hash_fun \in HashFun, NEW min_capacity \in MinCapacity,
         SetCreate(hash_fun, min_capacity)
  PROVE  Counted!Next
<1>1. /\ Places(NULL) = 0 /\ Counts(NULL) = [key \in Key |-> 0] /\ Marks(NULL) = 0
      /\ set = NULL
  BY DEF Places, Counts, Marks, SetCreate
<1>2. ~Counted!Open
  BY <1>1 DEF Counted!Open
<1>3. CASE /\ UNCHANGED set
           /\ \/ Returns("setCreate", NULL, FALSE)
              \/ ShiftUndefined(min_capacity) /\ Returns("setCreate", NULL, Undefined)
  <2>1. Places(set') = 0 /\ Counts(set') = [key \in Key |-> 0] /\ Marks(set') = 0
    BY <1>1, <1>3
  <2>2. (Places(set') > 0) = FALSE /\ Places(set') \in Nat
    BY <2>1
  <2>3. ShiftUndefined(min_capacity) => Overlarge
    BY DEF Overlarge
  <2>4. Counted!Create
    BY <1>2, <1>3, <2>1, <2>2, <2>3
       DEF Returns, Counted!Create, Counted!Empty, Counted!Returns
  <2> QED BY <2>4, ReadyIsReady DEF SetCreate, Counted!Next
<1>4. ASSUME NEW capacity \in Capacities(min_capacity), Allocatable(capacity),
             set' = NewSet(hash_fun, capacity), Returns("setCreate", NULL, TRUE)
      PROVE  Counted!Next
  <2>1. Shaped(set') /\ set' # NULL
    <3>1. min_capacity \in Nat
      BY HashSetAssumption
    <3> QED BY <1>4, <3>1, NewSetGood, NullIsNoSet DEF GoodSet
  <2>2. \A key \in Key : Holding(set'.container, key) = {}
    BY <1>4, HashSetAssumption DEF NewSet, Vacant, Holding
  <2>3. Tombstones(set'.container) = {}
    BY <1>4 DEF NewSet, Vacant, Tombstones
  <2>4. /\ Places(set') \in Nat \ {0} /\ Marks(set') = 0
        /\ Counts(set') = [key \in Key |-> Cardinality(Holding(set'.container, key))]
    BY <2>1, <2>3, Abstraction, FS_EmptySet
  <2>5. Counts(set') = [key \in Key |-> 0]
    BY <2>2, <2>4, FS_EmptySet
  <2>6. (Places(set') > 0) = TRUE /\ Places(set') \in Nat
    BY <2>4
  <2>7. Counted!Create
    BY <1>2, <1>4, <2>4, <2>5, <2>6
       DEF Returns, Counted!Create, Counted!Empty, Counted!Returns
  <2> QED BY <2>7, ReadyIsReady DEF SetCreate, Counted!Next
<1> QED BY <1>3, <1>4 DEF SetCreate

LEMMA DeleteStep ==
  ASSUME SetDelete
  PROVE  Counted!Next
<1>1. Places(NULL) = 0 /\ Counts(NULL) = [key \in Key |-> 0] /\ Marks(NULL) = 0
  BY DEF Places, Counts, Marks
<1>2. Counted!Delete
  BY <1>1 DEF SetDelete, Returns, Counted!Delete, Counted!Empty, Counted!Returns
<1> QED BY <1>2, ReadyIsReady DEF SetDelete, Counted!Next

(* A call that is rejected, is undefined or never returns: with no slot to *)
(* stop at, the key is absent.                                             *)
LEMMA IdleStep ==
  ASSUME Inv, NEW key \in Key \cup {NULL}, NEW call, NEW rejection, NEW stops,
         NEW endless \in BOOLEAN,
         LookupStops(set, key) \subseteq stops,
         set # NULL /\ key # NULL /\ stops = {} => endless,
         \/ Rejected(call, key, rejection)
         \/ set # NULL /\ key # NULL /\ Fails(call, key, stops)
  PROVE  Counted!Idle(call, key, rejection, endless)
<1>1. CASE Rejected(call, key, rejection)
  BY <1>1 DEF Rejected, Returns, Places, Counted!Idle, Counted!Open, Counted!Returns
<1>2. CASE set # NULL /\ key # NULL /\ Fails(call, key, stops)
  <2>1. UNCHANGED <<Places(set), Counts(set), Marks(set)>>
    BY <1>2 DEF Fails
  <2>2. CASE Returns(call, key, Undefined)
    BY <1>2, <2>1, <2>2, OpenSet DEF Returns, Counted!Idle, Counted!Returns
  <2>3. CASE stops = {} /\ Returns(call, key, Unfinished)
    <3>1. Holding(set.container, key) = {}
      BY <2>3 DEF LookupStops
    <3>2. Counts(set)[key] = 0
      BY <1>2, <3>1, OpenSet, Abstraction
    <3> QED BY <1>2, <2>1, <2>3, <3>2, OpenSet DEF Returns, Counted!Idle, Counted!Returns
  <2> QED BY <1>2, <2>2, <2>3 DEF Fails
<1> QED BY <1>1, <1>2

LEMMA InsertStep ==
  ASSUME Inv, NEW key \in Key \cup {NULL}, SetInsert(key)
  PROVE  Counted!Next
<1>1. set # NULL => /\ VacantSlots(set.container) = {} <=> Counted!Lost
                    /\ Counted!Taken = Places(set) <=>
                         VacantSlots(set.container) = {} /\ Tombstones(set.container) = {}
  BY OpenSet, Unused
<1>2. CASE \/ Rejected("setInsert", key, FALSE)
           \/ /\ set # NULL /\ key # NULL
              /\ Fails("setInsert", key, InsertStops(set, key))
  <2>1. set # NULL /\ key # NULL /\ InsertStops(set, key) = {} => Counted!Taken = Places(set)
    BY <1>1 DEF InsertStops, LookupStops
  <2>2. LookupStops(set, key) \subseteq InsertStops(set, key)
    BY DEF InsertStops
  <2>3. Counted!Idle("setInsert", key, FALSE, Counted!Taken = Places(set))
    BY <1>2, <2>1, <2>2, IdleStep
  <2> QED BY <2>3, ReadyIsReady DEF SetInsert, Counted!Next, Counted!Insert
<1>3. CASE /\ set # NULL /\ key # NULL /\ InsertStops(set, key) # {}
           /\ set' = Inserted(set, key)
           /\ Returns("setInsert", key, TRUE)
  <2>1. key \in Key /\ GoodSet(set)
    BY <1>3, OpenSet
  <2>2. \/ set' = set /\ Counts(set)[key] > 0
        \/ /\ Places(set') = Places(set)
           /\ Counts(set') = [Counts(set) EXCEPT ![key] = @ + 1]
           /\ \/ Marks(set) > 0 /\ Marks(set') = Marks(set) - 1
              \/ /\ Counts(set)[key] = 0 /\ ~Counted!Lost
                 /\ Marks(set') = Marks(set)
    BY <1>1, <1>3, <2>1, InsertedCounts
  <2>3. Counted!Insert(key)
    BY <1>3, <2>2, OpenSet DEF Counted!Insert, Counted!Returns, Returns
  <2> QED BY <2>1, <2>3, ReadyIsReady DEF SetInsert, Counted!Next
<1> QED BY <1>2, <1>3 DEF SetInsert

LEMMA SearchStep ==
  ASSUME Inv, NEW key \in Key \cup {NULL}, SetSearch(key)
  PROVE  Counted!Next
<1>1. set # NULL => (VacantSlots(set.container) = {} <=> Counted!Lost)
  BY OpenSet, Unused
<1>2. CASE \/ Rejected("setSearch", key, FALSE)
           \/ /\ set # NULL /\ key # NULL
              /\ Fails("setSearch", key, LookupStops(set, key))
  <2>1. set # NULL /\ key # NULL /\ LookupStops(set, key) = {} => Counted!Lost
    BY <1>1 DEF LookupStops
  <2>2. Counted!Lost \in BOOLEAN
    BY DEF Counted!Lost
  <2>3. Counted!Idle("setSearch", key, FALSE, Counted!Lost)
    BY <1>2, <2>1, <2>2, IdleStep
  <2> QED BY <2>3, ReadyIsReady DEF SetSearch, Counted!Next, Counted!Search
<1>3. CASE /\ set # NULL /\ key # NULL /\ LookupStops(set, key) # {}
           /\ Returns("setSearch", key, Found(set, key))
           /\ UNCHANGED set
  <2>1. key \in Key /\ GoodSet(set) /\ Shaped(set)
    BY <1>3, OpenSet
  <2>2. /\ Found(set, key) <=> Holding(set.container, key) # {}
        /\ Counts(set)[key] \in Nat
        /\ Counts(set)[key] = 0 <=> Holding(set.container, key) = {}
    BY <1>3, <2>1, FoundHeld, Abstraction
  <2>3. Counts(set)[key] > 0 \/ ~Counted!Lost
    BY <1>1, <1>3, <2>2 DEF LookupStops
  <2>4. Found(set, key) = (Counts(set)[key] > 0)
    <3>1. Found(set, key) \in BOOLEAN
      BY DEF Found
    <3> QED BY <2>2, <3>1
  <2>5. ret' = [call |-> "setSearch", key |-> key, result |-> Counts(set)[key] > 0]
    BY <1>3, <2>4 DEF Returns
  <2>6. Counted!Search(key)
    BY <1>3, <2>3, <2>5, OpenSet DEF Counted!Search, Counted!Returns
  <2> QED BY <2>1, <2>6, ReadyIsReady DEF SetSearch, Counted!Next
<1> QED BY <1>2, <1>3 DEF SetSearch

LEMMA PopStep ==
  ASSUME Inv, NEW key \in Key \cup {NULL}, SetPop(key)
  PROVE  Counted!Next
<1>1. set # NULL => (VacantSlots(set.container) = {} <=> Counted!Lost)
  BY OpenSet, Unused
<1>2. CASE \/ Rejected("setPop", key, NULL)
           \/ /\ set # NULL /\ key # NULL
              /\ Fails("setPop", key, LookupStops(set, key))
  <2>1. set # NULL /\ key # NULL /\ LookupStops(set, key) = {} => Counted!Lost
    BY <1>1 DEF LookupStops
  <2>2. Counted!Lost \in BOOLEAN
    BY DEF Counted!Lost
  <2>3. Counted!Idle("setPop", key, NULL, Counted!Lost)
    BY <1>2, <2>1, <2>2, IdleStep
  <2> QED BY <2>3, ReadyIsReady DEF SetPop, Counted!Next, Counted!Pop
<1>3. CASE /\ set # NULL /\ key # NULL /\ LookupStops(set, key) # {} /\ ~Found(set, key)
           /\ Returns("setPop", key, NULL)
           /\ UNCHANGED set
  <2>1. key \in Key /\ GoodSet(set) /\ Shaped(set)
    BY <1>3, OpenSet
  <2>2. Holding(set.container, key) = {} /\ Counts(set)[key] = 0
    BY <1>3, <2>1, FoundHeld, Abstraction
  <2>3. ~Counted!Lost
    BY <1>1, <1>3, <2>2 DEF LookupStops
  <2>4. Counted!Pop(key)
    BY <1>3, <2>2, <2>3, OpenSet DEF Counted!Pop, Counted!Returns, Returns
  <2> QED BY <2>1, <2>4, ReadyIsReady DEF SetPop, Counted!Next
<1>4. CASE /\ set # NULL /\ key # NULL /\ Found(set, key)
           /\ set' = Removed(set, Stop(set, key, LookupStops(set, key)))
           /\ Returns("setPop", key, key)
  <2>1. key \in Key /\ GoodSet(set)
    BY <1>4, OpenSet
  <2>2. /\ Places(set') = Places(set) /\ Counts(set)[key] > 0
        /\ Counts(set') = [Counts(set) EXCEPT ![key] = @ - 1]
        /\ Marks(set') = Marks(set) + 1
    BY <1>4, <2>1, RemovedCounts
  <2>3. Counted!Pop(key)
    BY <1>4, <2>2, OpenSet DEF Counted!Pop, Counted!Returns, Returns
  <2> QED BY <2>1, <2>3, ReadyIsReady DEF SetPop, Counted!Next
<1> QED BY <1>2, <1>3, <1>4 DEF SetPop

(* The set is a CountedSet: what a call answers, whether it may fail to    *)
(* return and what is left afterwards depend on how often each key is      *)
(* stored and on the number of marks alone, not on the hash function or    *)
(* the order of the calls.                                                 *)
THEOREM CountedSetImplemented == Spec => ImplementsCountedSet
<1>1. Init => Counted!Init
  BY DEF Init, Places, Counts, Marks, Counted!Init, Counted!Empty
<1>2. Inv /\ [Next]_vars => [Counted!Next]_(Counted!vars)
  <2> SUFFICES ASSUME Inv, [Next]_vars
               PROVE  Counted!Next \/ UNCHANGED Counted!vars
    OBVIOUS
  <2>1. CASE Stuck \/ UNCHANGED vars
    BY <2>1 DEF Stuck, vars, Counted!vars
  <2> QED BY <2>1, CreateStep, DeleteStep, InsertStep, SearchStep, PopStep DEF Next
<1> QED BY Invariance, <1>1, <1>2, PTL DEF Spec, ImplementsCountedSet, Counted!Spec

=============================================================================
