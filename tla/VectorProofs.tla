---------------------------- MODULE VectorProofs ----------------------------
(***************************************************************************)
(* Ownership, pointers and lists of Vector, for every pair of widths,      *)
(* element size and set of requests.  The invariant carries the shape of   *)
(* the structs and buffers along; one lemma per way a call may change the  *)
(* heap, and then one step per call.  After them the same for Tuple, whose *)
(* calls change the part of the heap that belongs to no vector.            *)
(***************************************************************************)
EXTENDS Tuple, CommonProofs

(* The capacities malloc or realloc has given a buffer for.               *)
Capacity == {capacity \in 1 .. SizeSpan - 1 : Allocatable(Bytes(capacity))}

VectorStruct == [capacity : Capacity, length : Nat, container : Buffer]

Memory == UNION {[0 .. n - 1 -> Datum \cup {Garbage}] : n \in 0 .. SizeSpan}

(* A buffer has the room its vector's capacity was translated to.          *)
Roomy == \A h \in Held :
  DOMAIN heap[vec[h].container] = 0 .. Room(vec[h].capacity) - 1

(* The live buffers that belong to no vector.  Another part of the program *)
(* may use them: no call on a vector touches them.                         *)
Foreign == {b \in Buffer : Live(b) /\ \A h \in Held : vec[h].container # b}

Undisturbed == Foreign' = Foreign /\ \A b \in Foreign : heap'[b] = heap[b]

Inv ==
  /\ vec \in [Handle -> VectorStruct \cup {NULL}]
  /\ heap \in [Buffer -> Memory \cup {NULL}]
  /\ ptr \in {NULL} \cup [buffer : Buffer, index : Nat]
  /\ Separate
  /\ Roomy

-----------------------------------------------------------------------------
(* Sizes.                                                                  *)

LEMMA SpanIsPositive == SizeSpan \in Nat \ {0}
BY WidthAssumption, Pow2Def DEF SizeSpan

LEMMA Quotient ==
  ASSUME NEW x \in Nat, NEW d \in Nat \ {0}
  PROVE  x \div d \in 0 .. x /\ (x \div d) * d <= x
OBVIOUS

LEMMA Multiple ==
  ASSUME NEW c \in Nat, NEW d \in Nat \ {0}
  PROVE  (c * d) \div d = c
OBVIOUS

LEMMA Product ==
  ASSUME NEW a \in Nat, NEW b \in Nat, a <= b, NEW d \in Nat
  PROVE  a * d <= b * d
OBVIOUS

LEMMA Twice ==
  ASSUME NEW a \in Nat, NEW d \in Nat
  PROVE  (2 * a) * d = 2 * (a * d)
OBVIOUS

(* The elements that have room are no more than the bytes asked for.       *)
LEMMA RoomBound ==
  ASSUME NEW capacity \in Nat
  PROVE  /\ Bytes(capacity) \in 0 .. SizeSpan - 1
         /\ Room(capacity) \in 0 .. SizeSpan
         /\ Room(capacity) * DATA_SIZE <= Bytes(capacity)
<1>1. DATA_SIZE \in Nat \ {0} /\ SizeSpan \in Nat \ {0}
  BY VectorAssumption, SpanIsPositive
<1>2. capacity * DATA_SIZE \in Nat
  BY <1>1
<1>3. Bytes(capacity) \in 0 .. SizeSpan - 1
  <2> DEFINE n == capacity * DATA_SIZE
  <2> HIDE DEF n
  <2> QED BY <1>1, <1>2 DEF Bytes, n
<1>4. /\ Bytes(capacity) \div DATA_SIZE \in 0 .. Bytes(capacity)
      /\ (Bytes(capacity) \div DATA_SIZE) * DATA_SIZE <= Bytes(capacity)
  BY <1>1, <1>3, Quotient
<1> QED BY <1>1, <1>3, <1>4 DEF Room

(* A capacity whose bytes do not wrap is the room there is.                *)
LEMMA RoomWhole ==
  ASSUME NEW capacity \in Nat, ~Wraps(capacity)
  PROVE  Room(capacity) = capacity /\ Bytes(capacity) = capacity * DATA_SIZE
<1> DEFINE n == capacity * DATA_SIZE
<1>1. DATA_SIZE \in Nat \ {0} /\ SizeSpan \in Nat \ {0}
  BY VectorAssumption, SpanIsPositive
<1>2. n \in Nat /\ n < SizeSpan
  BY <1>1 DEF Wraps
<1>3. Bytes(capacity) = n
  <2>1. n % SizeSpan = n
    <3> HIDE DEF n
    <3> QED BY <1>1, <1>2
  <2> QED BY <2>1 DEF Bytes
<1>4. n \div DATA_SIZE = capacity
  BY <1>1, Multiple
<1> QED BY <1>3, <1>4 DEF Room

LEMMA HalfSpan ==
  /\ Pow2[MAX_POW2 - 1] \in Nat \ {0}
  /\ SizeSpan = 2 * Pow2[MAX_POW2 - 1]
<1>1. MAX_POW2 \in 1 .. MAX_POW2 /\ MAX_POW2 - 1 \in 0 .. MAX_POW2
  BY WidthAssumption
<1> QED BY <1>1, Pow2Def DEF SizeSpan

(* Of one whose bytes wrap less than half has room: an allocation of half  *)
(* the address space fails.                                                *)
LEMMA RoomHalf ==
  ASSUME NEW capacity \in Capacity, Wraps(capacity)
  PROVE  2 * Room(capacity) < capacity
<1> DEFINE room == Room(capacity)
           half == Pow2[MAX_POW2 - 1]
           D == DATA_SIZE
<1>1. /\ D \in Nat \ {0} /\ capacity \in Nat /\ room \in Nat
      /\ room * D <= Bytes(capacity) /\ Bytes(capacity) \in Nat
      /\ Bytes(capacity) < half /\ half \in Nat
  BY VectorAssumption, RoomBound, HalfSpan, SpanIsPositive DEF Capacity, Allocatable
<1>2. capacity * D >= 2 * half
  BY HalfSpan DEF Wraps
<1> HIDE DEF room, half, D
<1> SUFFICES ASSUME capacity <= 2 * room PROVE FALSE
  BY <1>1 DEF room
<1>3. capacity * D <= (2 * room) * D
  BY <1>1, Product
<1>4. (2 * room) * D = 2 * (room * D)
  BY <1>1, Twice
<1>5. room * D \in Nat /\ capacity * D \in Nat
  BY <1>1
<1> QED BY <1>1, <1>2, <1>3, <1>4, <1>5

LEMMA RoomWithin ==
  ASSUME NEW capacity \in Capacity
  PROVE  capacity \in Nat \ {0} /\ Room(capacity) \in Nat /\ Room(capacity) <= capacity
<1>1. capacity \in Nat \ {0} /\ Room(capacity) \in Nat
  BY SpanIsPositive, RoomBound DEF Capacity
<1>2. CASE Wraps(capacity)
  BY <1>1, <1>2, RoomHalf
<1>3. CASE ~Wraps(capacity)
  BY <1>1, <1>3, RoomWhole
<1> QED BY <1>1, <1>2, <1>3

(* Growth makes no product wrap, and mends none that does.                 *)
LEMMA DoubledWraps ==
  ASSUME NEW capacity \in Capacity, Double(capacity) > capacity
  PROVE  /\ Double(capacity) \in 1 .. SizeSpan - 1
         /\ Wraps(Double(capacity)) <=> Wraps(capacity)
<1> DEFINE D == DATA_SIZE
           half == Pow2[MAX_POW2 - 1]
           n == capacity * D
<1>1. /\ D \in Nat \ {0} /\ capacity \in Nat /\ capacity < SizeSpan
      /\ half \in Nat /\ SizeSpan = 2 * half /\ SizeSpan \in Nat \ {0}
  BY VectorAssumption, HalfSpan, SpanIsPositive DEF Capacity
<1>2. Double(capacity) = 2 * capacity /\ 2 * capacity < SizeSpan
  <2>1. CASE 2 * capacity < SizeSpan
    <3>1. (2 * capacity) % SizeSpan = 2 * capacity
      BY <1>1, <2>1
    <3> QED BY <2>1, <3>1 DEF Double
  <2>2. CASE 2 * capacity >= SizeSpan
    <3>1. (2 * capacity) % SizeSpan = 2 * capacity - SizeSpan
      BY <1>1, <2>2
    <3> QED BY <1>1, <3>1 DEF Double
  <2> QED BY <1>1, <2>1, <2>2
<1>3. (2 * capacity) * D = 2 * n /\ n \in Nat
  BY <1>1, Twice
<1>4. ~Wraps(capacity) => n < half
  BY RoomWhole, <1>1 DEF Capacity, Allocatable
<1>5. Wraps(capacity) <=> n >= SizeSpan
  BY DEF Wraps
<1>6. Wraps(Double(capacity)) <=> 2 * n >= SizeSpan
  BY <1>2, <1>3 DEF Wraps
<1> HIDE DEF n, half, D
<1> QED BY <1>1, <1>2, <1>3, <1>4, <1>5, <1>6

(* A buffer allocated for a capacity is memory.                            *)
LEMMA MemoryOf ==
  ASSUME NEW capacity \in Nat, NEW m,
         m \in [0 .. Room(capacity) - 1 -> Datum \cup {Garbage}]
  PROVE  m \in Memory
BY RoomBound DEF Memory

LEMMA MemoryValues ==
  ASSUME NEW m \in Memory
  PROVE  \A i \in DOMAIN m : m[i] \in Datum \cup {Garbage}
BY DEF Memory

LEMMA NullIsNone ==
  /\ NULL \notin VectorStruct
  /\ NULL \notin Memory
<1>1. NULL \notin VectorStruct
  <2>1. VectorStruct \subseteq [capacity : Nat, length : Nat, container : Buffer]
    BY SpanIsPositive DEF VectorStruct, Capacity
  <2> QED BY <2>1, VectorAssumption
<1>2. NULL \notin Memory
  BY VectorAssumption DEF Memory
<1> QED BY <1>1, <1>2

-----------------------------------------------------------------------------
(* The three ways a call changes the heap.                                 *)

(* A vector gets a buffer that was free.                                   *)
LEMMA Acquire ==
  ASSUME Inv, ptr' \in {NULL} \cup [buffer : Buffer, index : Nat],
         NEW h \in Handle, vec[h] = NULL, NEW b \in Buffer, ~Live(b),
         NEW s \in VectorStruct, s.container = b,
         NEW m \in [0 .. Room(s.capacity) - 1 -> Datum \cup {Garbage}],
         vec' = [vec EXCEPT ![h] = s], heap' = [heap EXCEPT ![b] = m]
  PROVE  Inv' /\ Undisturbed
<1>1. m \in Memory /\ m # NULL /\ s # NULL
  <2>1. s.capacity \in Nat
    BY SpanIsPositive DEF VectorStruct, Capacity
  <2> QED BY <2>1, MemoryOf, NullIsNone
<1>2. /\ vec' \in [Handle -> VectorStruct \cup {NULL}]
      /\ heap' \in [Buffer -> Memory \cup {NULL}]
  BY <1>1 DEF Inv
<1>3. Held' = Held \cup {h}
  BY <1>1 DEF Inv, Held
<1>4. \A g \in Held : vec'[g] = vec[g] /\ vec[g].container # b
                      /\ vec[g].container \in Buffer
  BY NullIsNone DEF Inv, Held, Separate, VectorStruct
<1>5. vec'[h] = s /\ heap'[b] = m /\ \A c \in Buffer \ {b} : heap'[c] = heap[c]
  BY DEF Inv
<1>6. Separate'
  BY <1>1, <1>3, <1>4, <1>5 DEF Inv, Separate, Live
<1>7. Roomy'
  BY <1>3, <1>4, <1>5 DEF Inv, Roomy
<1>8. Undisturbed
  BY <1>1, <1>3, <1>4, <1>5 DEF Undisturbed, Foreign, Live
<1> QED BY <1>2, <1>6, <1>7, <1>8 DEF Inv

(* A vector and its buffer are freed together.                             *)
LEMMA Release ==
  ASSUME Inv, ptr' \in {NULL} \cup [buffer : Buffer, index : Nat],
         NEW h \in Handle, vec[h] # NULL,
         vec' = [vec EXCEPT ![h] = NULL],
         heap' = [heap EXCEPT ![vec[h].container] = NULL]
  PROVE  Inv' /\ Undisturbed
<1> DEFINE b == vec[h].container
<1>1. /\ vec' \in [Handle -> VectorStruct \cup {NULL}]
      /\ heap' \in [Buffer -> Memory \cup {NULL}]
  BY DEF Inv
<1>2. Held' = Held \ {h} /\ h \in Held
  BY DEF Inv, Held
<1>3. \A g \in Held \ {h} : vec'[g] = vec[g] /\ vec[g].container # b
                            /\ vec[g].container \in Buffer
  BY <1>2, NullIsNone DEF Inv, Held, Separate, VectorStruct
<1>4. heap'[b] = NULL /\ \A c \in Buffer \ {b} : heap'[c] = heap[c]
  BY NullIsNone DEF Inv, VectorStruct
<1>5. Separate'
  BY <1>2, <1>3, <1>4 DEF Inv, Separate, Live
<1>6. Roomy'
  BY <1>2, <1>3, <1>4 DEF Inv, Roomy
<1>7. Undisturbed
  BY <1>2, <1>3, <1>4 DEF Undisturbed, Foreign, Live
<1> QED BY <1>1, <1>5, <1>6, <1>7 DEF Inv

(* A vector keeps its buffer, or moves to a free one and leaves the old    *)
(* one free; its contents may change.                                      *)
Moved(h, b, m, new) ==
  /\ new \in [Buffer -> Memory \cup {NULL}]
  /\ new[b] = m
  /\ \A c \in Buffer \ {b} :
       new[c] = IF c = vec[h].container THEN NULL ELSE heap[c]

LEMMA Move ==
  ASSUME Inv, ptr' \in {NULL} \cup [buffer : Buffer, index : Nat],
         NEW h \in Handle, vec[h] # NULL, NEW b \in Buffer,
         ~Live(b) \/ b = vec[h].container,
         NEW s \in VectorStruct, s.container = b,
         NEW m \in [0 .. Room(s.capacity) - 1 -> Datum \cup {Garbage}],
         vec' = [vec EXCEPT ![h] = s], Moved(h, b, m, heap')
  PROVE  Inv' /\ Undisturbed
<1>1. m \in Memory /\ m # NULL /\ s # NULL
  <2>1. s.capacity \in Nat
    BY SpanIsPositive DEF VectorStruct, Capacity
  <2> QED BY <2>1, MemoryOf, NullIsNone
<1>2. /\ vec' \in [Handle -> VectorStruct \cup {NULL}]
      /\ heap' \in [Buffer -> Memory \cup {NULL}]
  BY <1>1 DEF Inv, Moved
<1>3. Held' = Held /\ h \in Held /\ vec'[h] = s
  BY <1>1 DEF Inv, Held
<1>4. \A g \in Held \ {h} :
        /\ vec'[g] = vec[g]
        /\ vec[g].container # b /\ vec[g].container # vec[h].container
        /\ vec[g].container \in Buffer
  BY <1>3, NullIsNone DEF Inv, Held, Separate, VectorStruct
<1>5. heap'[b] = m
  BY DEF Moved
<1>6. \A g \in Held \ {h} : heap'[vec[g].container] = heap[vec[g].container]
  BY <1>4 DEF Moved
<1>7. \A c \in Buffer \ {b} : heap'[c] # NULL =>
        heap[c] # NULL /\ c # vec[h].container
  BY DEF Moved
<1>8. Separate'
  <2>1. \A g \in Held' : Live(vec[g].container)'
    BY <1>1, <1>3, <1>4, <1>5, <1>6 DEF Inv, Separate, Live
  <2>2. \A g, f \in Held' : vec'[g].container = vec'[f].container => g = f
    BY <1>3, <1>4 DEF Inv, Separate
  <2> QED BY <2>1, <2>2 DEF Separate
<1>9. Roomy'
  BY <1>3, <1>4, <1>5, <1>6 DEF Inv, Roomy
<1>10. Undisturbed
  <2>1. vec[h].container \in Buffer /\ vec'[h].container = b
    BY <1>3 DEF Inv, VectorStruct
  <2>2. \A c \in Buffer \ {b} : c # vec[h].container => heap'[c] = heap[c]
    BY DEF Moved
  <2> QED BY <1>3, <1>4, <1>7, <2>1, <2>2 DEF Undisturbed, Foreign, Live
<1> QED BY <1>2, <1>8, <1>9, <1>10 DEF Inv

(* Calls that leave vectors and heap alone and point at an element.        *)
LEMMA SameInv ==
  ASSUME Inv, UNCHANGED <<vec, heap>>,
         ptr' \in {NULL} \cup [buffer : Buffer, index : Nat]
  PROVE  Inv' /\ Undisturbed
BY DEF Inv, Separate, Roomy, Held, Live, Undisturbed, Foreign

-----------------------------------------------------------------------------
(* Growth.                                                                 *)

(* What _vectorExpand leaves is the old struct and heap, or a larger       *)
(* buffer in the old place or a free one.                                  *)
LEMMA ExpandedSound ==
  ASSUME Inv, NEW h \in Handle, vec[h] # NULL, NEW grown \in Expanded(vec[h])
  PROVE  LET b == grown.struct.container
         IN  /\ grown.struct \in VectorStruct
             /\ grown.struct.length = vec[h].length
             /\ b \in Buffer
             /\ ~Live(b) \/ b = vec[h].container
             /\ grown.memory[b] \in [0 .. Room(grown.struct.capacity) - 1
                                       -> Datum \cup {Garbage}]
             /\ Moved(h, b, grown.memory[b], grown.memory)
             /\ \/ grown.struct = vec[h] /\ grown.memory = heap
                \/ /\ grown.struct.capacity = Double(vec[h].capacity)
                   /\ grown.struct.capacity > vec[h].capacity
                   /\ ExpansionDue(vec[h].capacity, vec[h].length)
<1> DEFINE v == vec[h]
           old == v.container
           capacity == Double(v.capacity)
           new == Reallocated(heap[old], capacity)
<1>1. v \in VectorStruct /\ old \in Buffer /\ h \in Held
  BY DEF Inv, VectorStruct, Held
<1>2. /\ heap[old] \in Memory /\ heap[old] # NULL
      /\ DOMAIN heap[old] = 0 .. Room(v.capacity) - 1
  BY <1>1 DEF Inv, Separate, Live, Roomy
<1>3. \A i \in DOMAIN heap[old] : heap[old][i] \in Datum \cup {Garbage}
  BY <1>2, MemoryValues
<1>4. capacity \in 0 .. SizeSpan - 1
  BY <1>1, SpanIsPositive DEF Double, VectorStruct, Capacity
<1>5. new \in [0 .. Room(capacity) - 1 -> Datum \cup {Garbage}]
  BY <1>3 DEF Reallocated, Blank
<1>6. CASE grown = [struct |-> v, memory |-> heap]
  <2>1. heap[old] = [i \in DOMAIN heap[old] |-> heap[old][i]]
    BY <1>2 DEF Memory
  <2>2. heap[old] \in [0 .. Room(v.capacity) - 1 -> Datum \cup {Garbage}]
    BY <1>2, <1>3, <2>1
  <2>3. Moved(h, old, heap[old], heap)
    BY DEF Moved, Inv
  <2> QED BY <1>1, <1>6, <2>2, <2>3
<1>7. CASE grown # [struct |-> v, memory |-> heap]
  <2>1. /\ capacity > v.capacity /\ ExpansionDue(v.capacity, v.length)
        /\ Allocatable(Bytes(capacity))
    BY <1>7 DEF Expanded
  <2>2. PICK b \in {c \in Buffer : ~Live(c)} \cup {old} :
          grown = [struct |-> [v EXCEPT !.capacity = capacity, !.container = b],
                   memory |-> [[heap EXCEPT ![old] = NULL] EXCEPT ![b] = new]]
    BY <1>7 DEF Expanded
  <2>3. b \in Buffer /\ (~Live(b) \/ b = old)
    BY <1>1, <2>2
  <2>4. /\ grown.struct = [capacity |-> capacity, length |-> v.length,
                           container |-> b]
        /\ capacity \in Capacity
    <3>1. grown.struct = [v EXCEPT !.capacity = capacity, !.container = b]
      BY <2>2
    <3>2. v \in VectorStruct
      BY <1>1
    <3>3. v.capacity \in 1 .. SizeSpan - 1 /\ SizeSpan \in Nat
      BY <3>2, SpanIsPositive DEF VectorStruct, Capacity
    <3>4. capacity \in Capacity
      <4> HIDE DEF capacity
      <4> QED BY <1>4, <2>1, <3>3 DEF Capacity
    <3>5. ASSUME NEW r \in VectorStruct, NEW c
          PROVE  [r EXCEPT !.capacity = c, !.container = b]
                   = [capacity |-> c, length |-> r.length, container |-> b]
      <4>1. PICK x, n, a : r = [capacity |-> x, length |-> n, container |-> a]
        BY DEF VectorStruct
      <4>2. [r EXCEPT !.capacity = c]
              = [capacity |-> c, length |-> n, container |-> a]
        BY <4>1
      <4>3. [[capacity |-> c, length |-> n, container |-> a]
                EXCEPT !.container = b]
              = [capacity |-> c, length |-> n, container |-> b]
        OBVIOUS
      <4> QED BY <4>1, <4>2, <4>3
    <3> HIDE DEF v, capacity
    <3> QED BY <3>1, <3>2, <3>4, <3>5
  <2>5. new \in Memory
    BY <1>4, <1>5, MemoryOf, SpanIsPositive
  <2>6. grown.memory[b] = new /\ Moved(h, b, new, grown.memory)
    <3> HIDE DEF new
    <3>1. heap \in [Buffer -> Memory \cup {NULL}]
      BY DEF Inv
    <3>2. grown.memory = [[heap EXCEPT ![old] = NULL] EXCEPT ![b] = new]
      BY <2>2
    <3> QED BY <1>1, <2>3, <2>5, <3>1, <3>2 DEF Moved
  <2>7. grown.struct \in VectorStruct
    BY <1>1, <2>3, <2>4 DEF VectorStruct
  <2> HIDE DEF new, capacity, old
  <2> QED BY <1>5, <2>1, <2>3, <2>4, <2>6, <2>7 DEF old, capacity, v
<1> QED BY <1>6, <1>7

LEMMA PrependedInv ==
  ASSUME Inv, NEW h \in Handle, vec[h] # NULL, NEW grown \in Expanded(vec[h]),
         NEW data \in Datum \cup {Garbage}, NEW at, Prepended(h, grown, data, at)
  PROVE  Inv' /\ Undisturbed
<1> DEFINE v == grown.struct
           b == v.container
<1>1. /\ v \in VectorStruct /\ b \in Buffer
      /\ ~Live(b) \/ b = vec[h].container
      /\ grown.memory[b] \in [0 .. Room(v.capacity) - 1 -> Datum \cup {Garbage}]
      /\ Moved(h, b, grown.memory[b], grown.memory)
  BY ExpandedSound
<1>2. ptr' \in {NULL} \cup [buffer : Buffer, index : Nat]
  BY DEF Inv, Prepended
<1>3. CASE vec' = [vec EXCEPT ![h] = v] /\ heap' = grown.memory
  <2>1. Moved(h, b, grown.memory[b], heap')
    BY <1>1, <1>3
  <2> HIDE DEF v
  <2> QED BY <1>1, <1>2, <1>3, <2>1, Move
<1>4. CASE /\ vec' = [vec EXCEPT ![h] = [v EXCEPT !.length = v.length + 1]]
           /\ heap' = [grown.memory EXCEPT ![b][v.length] = data]
  <2> DEFINE s == [v EXCEPT !.length = v.length + 1]
             m == [grown.memory[b] EXCEPT ![v.length] = data]
  <2>1. vec' = [vec EXCEPT ![h] = s] /\ heap' = [grown.memory EXCEPT ![b] = m]
    BY <1>4
  <2>2. s \in VectorStruct /\ s.container = b /\ s.capacity = v.capacity
    BY <1>1 DEF VectorStruct
  <2>3. m \in [0 .. Room(s.capacity) - 1 -> Datum \cup {Garbage}]
    BY <1>1, <2>2
  <2>4. m \in Memory
    <3>1. s.capacity \in Nat
      BY <2>2, SpanIsPositive DEF VectorStruct, Capacity
    <3> QED BY <2>3, <3>1, MemoryOf
  <2>5. Moved(h, b, m, heap')
    <3> HIDE DEF m, s
    <3> QED BY <1>1, <2>1, <2>4 DEF Moved
  <2> HIDE DEF m, s
  <2> QED BY <1>1, <1>2, <2>1, <2>2, <2>3, <2>5, Move
<1>5. CASE UNCHANGED <<vec, heap>>
  BY <1>2, <1>5, SameInv
<1> QED BY <1>3, <1>4, <1>5 DEF Prepended

LEMMA ReadsElement ==
  ASSUME NEW m \in [Buffer -> Memory \cup {NULL}],
         NEW p \in [buffer : Buffer, index : Nat]
  PROVE  Read(m, p) \subseteq Datum \cup {Garbage}
BY DEF Read, Points, Memory

-----------------------------------------------------------------------------
(* Every call keeps the invariant.                                         *)

LEMMA NewInv ==
  ASSUME Inv, NEW h \in Handle, vec[h] = NULL, NEW min_capacity \in Nat,
         NEW arr \in Seq(Datum), New(h, min_capacity, arr)
  PROVE  Inv' /\ Undisturbed
<1>1. PICK capacity \in Capacities(min_capacity), b \in Buffer :
        /\ ~Live(b)
        /\ Allocatable(Bytes(capacity)) /\ Len(arr) <= Room(capacity)
        /\ vec' = [vec EXCEPT ![h] = [capacity |-> capacity, length |-> Len(arr),
                                      container |-> b]]
        /\ heap' = [heap EXCEPT ![b] =
                      [i \in 0 .. Room(capacity) - 1 |->
                         IF i < Len(arr) THEN arr[i + 1] ELSE Garbage]]
  BY DEF New
<1> DEFINE s == [capacity |-> capacity, length |-> Len(arr), container |-> b]
           m == [i \in 0 .. Room(capacity) - 1 |->
                   IF i < Len(arr) THEN arr[i + 1] ELSE Garbage]
<1>2. s \in VectorStruct /\ s.container = b /\ s.capacity = capacity
  <2>1. capacity \in Capacity
    BY <1>1, CapacitiesInRange DEF Capacity
  <2> QED BY <2>1 DEF VectorStruct
<1>3. m \in [0 .. Room(s.capacity) - 1 -> Datum \cup {Garbage}]
  <2>1. \A i \in 0 .. Room(capacity) - 1 : i < Len(arr) => arr[i + 1] \in Datum
    <3>1. \A i \in Nat : i < Len(arr) => i + 1 \in 1 .. Len(arr)
      OBVIOUS
    <3>2. \A i \in 0 .. Room(capacity) - 1 : i \in Nat
      OBVIOUS
    <3>3. \A i \in 1 .. Len(arr) : arr[i] \in Datum
      OBVIOUS
    <3> QED BY <3>1, <3>2, <3>3
  <2> QED BY <1>2, <2>1
<1>4. ptr' \in {NULL} \cup [buffer : Buffer, index : Nat]
  BY DEF Inv, New
<1>5. ~Live(b) /\ vec' = [vec EXCEPT ![h] = s] /\ heap' = [heap EXCEPT ![b] = m]
  BY <1>1
<1> HIDE DEF s, m
<1> QED BY <1>2, <1>3, <1>4, <1>5, Acquire

(* The successful disjunct of VectorCopy, with the buffer it chose.         *)
Copied(h, source, b) ==
  /\ ~Live(b)
  /\ vec' = [vec EXCEPT ![h] = [vec[source] EXCEPT !.container = b]]
  /\ heap' = [heap EXCEPT ![b] =
       [i \in DOMAIN Blank(vec[source].capacity) |->
          IF i < vec[source].length
          THEN heap[vec[source].container][i] ELSE Garbage]]

LEMMA CopyInv ==
  ASSUME Inv, NEW h \in Handle, vec[h] = NULL,
         NEW source \in Handle, vec[source] # NULL, NEW b \in Buffer,
         Copied(h, source, b), UNCHANGED ptr
  PROVE  Inv' /\ Undisturbed
<1> DEFINE v == vec[source]
           s == [v EXCEPT !.container = b]
           m == [i \in DOMAIN Blank(v.capacity) |->
                   IF i < v.length THEN heap[v.container][i] ELSE Garbage]
<1>1. v \in VectorStruct /\ source \in Held
  BY DEF Inv, Held
<1>2. s \in VectorStruct /\ s.container = b /\ s.capacity = v.capacity
  BY <1>1 DEF VectorStruct
<1>3. /\ heap[v.container] \in Memory
      /\ DOMAIN heap[v.container] = 0 .. Room(v.capacity) - 1
  BY <1>1 DEF Inv, Separate, Live, Roomy, VectorStruct
<1>4. m \in [0 .. Room(v.capacity) - 1 -> Datum \cup {Garbage}]
  <2>1. \A i \in 0 .. Room(v.capacity) - 1 :
          heap[v.container][i] \in Datum \cup {Garbage}
    <3> HIDE DEF m, s, v
    <3> QED BY <1>3, MemoryValues
  <2>2. DOMAIN Blank(v.capacity) = 0 .. Room(v.capacity) - 1
    BY DEF Blank
  <2> HIDE DEF v
  <2> QED BY <2>1, <2>2
<1>5. ptr' \in {NULL} \cup [buffer : Buffer, index : Nat]
  BY DEF Inv
<1>6. ~Live(b) /\ vec' = [vec EXCEPT ![h] = s] /\ heap' = [heap EXCEPT ![b] = m]
  BY DEF Copied
<1>7. m \in [0 .. Room(s.capacity) - 1 -> Datum \cup {Garbage}]
  <2> HIDE DEF m, s
  <2> QED BY <1>2, <1>4
<1>8. s \in VectorStruct /\ s.container = b
  BY <1>2
<1> HIDE DEF s, m
<1> QED BY <1>5, <1>6, <1>7, <1>8, Acquire

LEMMA UpdateInv ==
  ASSUME Inv, NEW h \in Handle, vec[h] # NULL, NEW data \in Datum,
         NEW index \in Nat,
         heap' = [heap EXCEPT ![vec[h].container][index] = data],
         ptr' = Pointer(h, index), UNCHANGED vec
  PROVE  Inv' /\ Undisturbed
<1> DEFINE b == vec[h].container
           m == [heap[b] EXCEPT ![index] = data]
<1>1. vec[h] \in VectorStruct /\ b \in Buffer /\ h \in Held
  BY DEF Inv, Held, VectorStruct
<1>2. heap[b] \in Memory /\ DOMAIN heap[b] = 0 .. Room(vec[h].capacity) - 1
  BY <1>1 DEF Inv, Separate, Live, Roomy
<1>3. m \in [0 .. Room(vec[h].capacity) - 1 -> Datum \cup {Garbage}]
  BY <1>2 DEF Memory
<1>4. m \in Memory
  <2>1. vec[h].capacity \in Nat
    BY <1>1, SpanIsPositive DEF VectorStruct, Capacity
  <2> QED BY <1>3, <2>1, MemoryOf
<1>5. heap' = [heap EXCEPT ![b] = m]
  OBVIOUS
<1>6. Moved(h, b, m, heap')
  <2> HIDE DEF m
  <2> QED BY <1>1, <1>4, <1>5 DEF Moved, Inv
<1>7. vec' = [vec EXCEPT ![h] = vec[h]]
  BY DEF Inv
<1>8. ptr' \in {NULL} \cup [buffer : Buffer, index : Nat]
  BY <1>1 DEF Pointer
<1> HIDE DEF m
<1> QED BY <1>1, <1>3, <1>6, <1>7, <1>8, Move

LEMMA PointerOk ==
  ASSUME Inv, NEW h \in Handle, vec[h] # NULL, NEW index \in Nat
  PROVE  Pointer(h, index) \in [buffer : Buffer, index : Nat]
BY DEF Inv, Pointer, VectorStruct

LEMMA NextInv == Inv /\ [Next]_vars => Inv' /\ Undisturbed
<1> SUFFICES ASSUME Inv, [Next]_vars PROVE Inv' /\ Undisturbed
  OBVIOUS
<1>0. ASSUME UNCHANGED <<vec, heap, ptr>> PROVE Inv' /\ Undisturbed
  BY <1>0, SameInv DEF Inv
<1>1. CASE \E h \in Handle, min_capacity \in MinCapacity :
             VectorCreate(h, min_capacity)
  <2>1. PICK h \in Handle, min_capacity \in MinCapacity :
          VectorCreate(h, min_capacity)
    BY <1>1
  <2>2. min_capacity \in Nat /\ <<>> \in Seq(Datum)
    BY VectorAssumption
  <2> QED BY <1>0, <2>1, <2>2, NewInv DEF VectorCreate, Refuse, Fault
<1>2. CASE \E h \in Handle, arr \in Arrays : VectorFromArray(h, arr)
  <2>1. PICK h \in Handle, arr \in Arrays : VectorFromArray(h, arr)
    BY <1>2
  <2>2. arr \in Seq(Datum) /\ <<>> \in Seq(Datum) /\ Len(arr) \in Nat
    BY VectorAssumption
  <2> QED BY <1>0, <2>1, <2>2, NewInv DEF VectorFromArray, Refuse, Fault
<1>3. CASE \E h \in Handle, values \in Arrays : VectorFromValues(h, values)
  <2>1. PICK h \in Handle, values \in Arrays : VectorFromValues(h, values)
    BY <1>3
  <2>2. values \in Seq(Datum) /\ Len(values) \in Nat
    BY VectorAssumption
  <2> QED BY <1>0, <2>1, <2>2, NewInv DEF VectorFromValues, Fault
<1>4. CASE \E h, source \in Handle : VectorCopy(h, source)
  <2>1. PICK h \in Handle, source \in Handle : VectorCopy(h, source)
    BY <1>4
  <2>2. CASE UNCHANGED <<vec, heap, ptr>>
    BY <1>0, <2>2
  <2>3. CASE ~UNCHANGED <<vec, heap, ptr>>
    <3>1. /\ vec[h] = NULL /\ vec[source] # NULL
          /\ UNCHANGED ptr
      BY <2>1, <2>3 DEF VectorCopy, Fault, Refuse
    <3>2. PICK b \in Buffer : Copied(h, source, b)
      BY <2>1, <2>3 DEF VectorCopy, Fault, Refuse, Copied
    <3> QED BY <3>1, <3>2, CopyInv
  <2> QED BY <2>2, <2>3
<1>5. CASE \E h \in Handle : VectorDelete(h)
  <2>1. PICK h \in Handle : VectorDelete(h)
    BY <1>5
  <2>2. CASE vec[h] = NULL
    BY <1>0, <2>1, <2>2 DEF VectorDelete, Refuse
  <2>3. CASE vec[h] # NULL
    BY <2>1, <2>3, Release DEF VectorDelete, Refuse, Inv
  <2> QED BY <2>2, <2>3
<1>6. CASE \E h \in Handle, index \in Index : VectorGetAt(h, index)
  <2>1. PICK h \in Handle, index \in Index : VectorGetAt(h, index)
    BY <1>6
  <2>2. index \in Nat
    BY VectorAssumption
  <2>3. ptr' \in {NULL} \cup [buffer : Buffer, index : Nat]
    BY <2>1, <2>2, PointerOk DEF VectorGetAt, CheckIndex
  <2>4. UNCHANGED <<vec, heap>>
    BY <2>1 DEF VectorGetAt
  <2> QED BY <2>3, <2>4, SameInv
<1>7. CASE \E h \in Handle : VectorToArr(h)
  <2>1. PICK h \in Handle : VectorToArr(h)
    BY <1>7
  <2>2. CASE vec[h] = NULL
    BY <1>0, <2>1, <2>2 DEF VectorToArr, Fault
  <2>3. CASE vec[h] # NULL
    <3>1. ptr' = Pointer(h, 0) /\ UNCHANGED <<vec, heap>>
      BY <2>1, <2>3 DEF VectorToArr
    <3> QED BY <2>3, <3>1, PointerOk, SameInv
  <2> QED BY <2>2, <2>3
<1>8. CASE \E h \in Handle, data \in Datum : VectorPrepend(h, data)
  <2>1. PICK h \in Handle, data \in Datum : VectorPrepend(h, data)
    BY <1>8
  <2>2. CASE vec[h] = NULL
    BY <1>0, <2>1, <2>2 DEF VectorPrepend, Fault
  <2>3. CASE vec[h] # NULL
    BY <2>1, <2>3, PrependedInv DEF VectorPrepend
  <2> QED BY <2>2, <2>3
<1>9. CASE \E h \in Handle : VectorPrependElement(h)
  <2>1. PICK h \in Handle : VectorPrependElement(h)
    BY <1>9
  <2>2. vec[h] # NULL /\ ptr \in [buffer : Buffer, index : Nat]
    BY <2>1 DEF VectorPrependElement, Inv
  <2>3. CASE UNCHANGED <<vec, heap, ptr>>
    BY <1>0, <2>3
  <2>4. CASE ~UNCHANGED <<vec, heap, ptr>>
    <3>1. PICK source \in Handle, grown \in Expanded(vec[h]) :
            \E data \in Read(grown.memory, ptr) :
              Prepended(h, grown, data, <<h, source, ptr.index>>)
      BY <2>1, <2>4 DEF VectorPrependElement
    <3>2. PICK data \in Read(grown.memory, ptr) :
            Prepended(h, grown, data, <<h, source, ptr.index>>)
      BY <3>1
    <3>3. grown.memory \in [Buffer -> Memory \cup {NULL}]
      BY <2>2, ExpandedSound DEF Moved
    <3>4. data \in Datum \cup {Garbage}
      BY <2>2, <3>2, <3>3, ReadsElement
    <3> QED BY <2>2, <3>2, <3>4, PrependedInv
  <2> QED BY <2>3, <2>4
<1>10. CASE \E h \in Handle, data \in Datum, index \in Index :
              VectorUpdate(h, data, index)
  <2>1. PICK h \in Handle, data \in Datum, index \in Index :
          VectorUpdate(h, data, index)
    BY <1>10
  <2>2. index \in Nat
    BY VectorAssumption
  <2>3. CASE ~CheckIndex(h, index)
    BY <2>1, <2>3, SameInv DEF VectorUpdate
  <2>4. CASE CheckIndex(h, index)
    BY <2>1, <2>2, <2>4, UpdateInv DEF VectorUpdate, CheckIndex
  <2> QED BY <2>3, <2>4
<1>11. CASE Stopped \/ UNCHANGED vars
  BY <1>0, <1>11 DEF Stopped, vars
<1> QED
  BY <1>1, <1>2, <1>3, <1>4, <1>5, <1>6, <1>7, <1>8, <1>9, <1>10, <1>11 DEF Next

LEMMA InitInv == Init => Inv /\ Foreign = {}
BY NullIsNone DEF Init, Inv, Separate, Roomy, Held, Live, Foreign

LEMMA Invariance == Spec => [](Inv /\ Foreign = {})
<1>1. Inv /\ Foreign = {} /\ [Next]_vars => (Inv /\ Foreign = {})'
  BY NextInv DEF Undisturbed
<1> QED BY InitInv, <1>1, PTL DEF Spec

-----------------------------------------------------------------------------
(* Theorems.                                                               *)

(* No sequence of creations, copies, growths and deletions leaks a buffer, *)
(* frees one twice or makes two vectors share one, whichever allocations   *)
(* fail, whether realloc moves the buffer, and whatever overflows.         *)
THEOREM Ownership == Spec => []OwnBuffers
<1>1. Inv /\ Foreign = {} => OwnBuffers
  BY DEF Inv, OwnBuffers, Foreign
<1> QED BY Invariance, <1>1, PTL

(* A vector keeps its capacity and with it its buffer, or it doubles.      *)
LEMMA SameBuffer ==
  ASSUME Inv, [Next]_vars, NEW h \in Handle, vec[h] # NULL, vec'[h] # NULL
  PROVE  \/ vec'[h].capacity = vec[h].capacity /\ vec'[h].container = vec[h].container
         \/ vec'[h].capacity = Double(vec[h].capacity) /\ vec'[h].capacity > vec[h].capacity
<1> DEFINE Goal ==
      \/ vec'[h].capacity = vec[h].capacity /\ vec'[h].container = vec[h].container
      \/ vec'[h].capacity = Double(vec[h].capacity) /\ vec'[h].capacity > vec[h].capacity
<1>0. CASE UNCHANGED vec
  BY <1>0
<1>1. ASSUME NEW g \in Handle, vec[g] = NULL, NEW s, vec' = [vec EXCEPT ![g] = s]
      PROVE  Goal
  BY <1>1 DEF Inv
<1>2. ASSUME NEW g \in Handle, vec[g] # NULL, NEW grown \in Expanded(vec[g]),
             NEW data, NEW at, Prepended(g, grown, data, at)
      PROVE  Goal
  <2> DEFINE v == grown.struct
  <2>1. /\ v \in VectorStruct
        /\ \/ v = vec[g]
           \/ v.capacity = Double(vec[g].capacity) /\ v.capacity > vec[g].capacity
    BY <1>2, ExpandedSound
  <2>2. \/ vec' = [vec EXCEPT ![g] = v]
        \/ vec' = [vec EXCEPT ![g] = [v EXCEPT !.length = v.length + 1]]
        \/ vec' = vec
    BY <1>2 DEF Prepended
  <2>3. g # h => vec'[h] = vec[h]
    BY <2>2 DEF Inv
  <2>4. g = h =>
          \/ vec' = vec
          \/ vec'[h].capacity = v.capacity /\ vec'[h].container = v.container
    <3>1. /\ [v EXCEPT !.length = v.length + 1].capacity = v.capacity
          /\ [v EXCEPT !.length = v.length + 1].container = v.container
      BY <2>1 DEF VectorStruct
    <3> HIDE DEF v
    <3> QED BY <2>2, <3>1 DEF Inv
  <2> HIDE DEF v
  <2> QED BY <2>1, <2>3, <2>4
<1> HIDE DEF Goal
<1>3. CASE \E g \in Handle, min_capacity \in MinCapacity :
             VectorCreate(g, min_capacity)
  BY <1>0, <1>1, <1>3 DEF VectorCreate, Refuse, Fault, New, Goal
<1>4. CASE \E g \in Handle, arr \in Arrays : VectorFromArray(g, arr)
  BY <1>0, <1>1, <1>4 DEF VectorFromArray, Refuse, Fault, New, Goal
<1>5. CASE \E g \in Handle, values \in Arrays : VectorFromValues(g, values)
  BY <1>0, <1>1, <1>5 DEF VectorFromValues, Fault, New, Goal
<1>6. CASE \E g, source \in Handle : VectorCopy(g, source)
  <2>1. PICK g, source \in Handle : VectorCopy(g, source)
    BY <1>6
  <2>2. vec[g] = NULL
    BY <2>1 DEF VectorCopy
  <2>3. UNCHANGED vec \/ \E s : vec' = [vec EXCEPT ![g] = s]
    BY <2>1 DEF VectorCopy, Fault, Refuse
  <2> QED BY <1>0, <1>1, <2>2, <2>3 DEF Goal
<1>7. CASE \E g \in Handle : VectorDelete(g)
  BY <1>0, <1>7 DEF VectorDelete, Refuse, Inv, Goal
<1>8. CASE \E g \in Handle, data \in Datum : VectorPrepend(g, data)
  BY <1>0, <1>2, <1>8 DEF VectorPrepend, Fault, Goal
<1>9. CASE \E g \in Handle : VectorPrependElement(g)
  BY <1>0, <1>2, <1>9 DEF VectorPrependElement, Goal
<1>10. CASE \E g \in Handle, index \in Index :
              \/ VectorGetAt(g, index)
              \/ \E data \in Datum : VectorUpdate(g, data, index)
  BY <1>0, <1>10 DEF VectorGetAt, VectorUpdate, Goal
<1>11. CASE \E g \in Handle : VectorToArr(g)
  BY <1>0, <1>11 DEF VectorToArr, Fault, Goal
<1>12. CASE Stopped \/ UNCHANGED vars
  BY <1>0, <1>12 DEF Stopped, vars, Goal
<1> QED
  BY <1>3, <1>4, <1>5, <1>6, <1>7, <1>8, <1>9, <1>10, <1>11, <1>12 DEF Next

(* A pointer is good until its vector is deleted or visibly grows, also    *)
(* when other vectors grow, move or take over freed buffers.               *)
THEOREM PointersStable == Spec => PointerStable
<1> DEFINE Stable ==
      \A h \in Handle :
        /\ ptr # NULL /\ ptr' = ptr
        /\ Into(ptr, vec[h])
        /\ vec'[h] # NULL /\ vec'[h].capacity = vec[h].capacity
        => Into(ptr, vec'[h])
<1>1. ASSUME Inv, [Next]_vars PROVE Stable
  <2> SUFFICES ASSUME NEW h \in Handle, Into(ptr, vec[h]), ptr' = ptr,
                      vec'[h] # NULL, vec'[h].capacity = vec[h].capacity
               PROVE  Into(ptr, vec'[h])
    OBVIOUS
  <2>1. vec[h] # NULL /\ vec[h].capacity \in Nat
    BY <1>1, SpanIsPositive DEF Into, Inv, VectorStruct, Capacity
  <2>2. vec'[h].container = vec[h].container
    BY <1>1, <2>1, SameBuffer
  <2> QED BY <2>2 DEF Into
<1>2. Spec => [][Stable]_vars
  BY Invariance, <1>1, PTL DEF Spec
<1> QED BY <1>2 DEF PointerStable

(* A vector whose capacity is backed is one whose bytes do not wrap.       *)
LEMMA BackedIs ==
  ASSUME Inv, NEW h \in Handle, vec[h] # NULL
  PROVE  Backed(h) <=> ~Wraps(vec[h].capacity)
<1> DEFINE c == vec[h].capacity
<1>1. c \in Capacity /\ DOMAIN heap[vec[h].container] = 0 .. Room(c) - 1
  BY DEF Inv, Roomy, Held, VectorStruct
<1>2. c \in Nat \ {0} /\ Room(c) \in Nat
  BY <1>1, RoomWithin
<1>3. Wraps(c) => Room(c) < c
  BY <1>1, <1>2, RoomHalf
<1>4. ~Wraps(c) => Room(c) = c
  BY <1>2, RoomWhole
<1>5. Backed(h) <=> 0 .. Room(c) - 1 = 0 .. c - 1
  BY <1>1 DEF Backed
<1> HIDE DEF c
<1>6. 0 .. Room(c) - 1 = 0 .. c - 1 <=> Room(c) = c
  BY <1>2
<1>7. Wraps(c) => ~(Room(c) = c)
  BY <1>2, <1>3
<1> QED BY <1>4, <1>5, <1>6, <1>7 DEF c

(* The capacity is the number of elements the buffer can take, and stays   *)
(* so, for every vector but those whose creation has already wrapped.      *)
THEOREM Backing == Spec => CapacityBacked
<1> DEFINE Kept ==
      \A h \in Handle :
        /\ vec'[h] # NULL
        /\ IF vec[h] = NULL THEN ~Wraps(vec'[h].capacity) ELSE Backed(h)
        => Backed(h)'
<1>1. ASSUME Inv, Inv', [Next]_vars PROVE Kept
  <2> SUFFICES ASSUME NEW h \in Handle, vec'[h] # NULL,
                      IF vec[h] = NULL THEN ~Wraps(vec'[h].capacity) ELSE Backed(h)
               PROVE  Backed(h)'
    OBVIOUS
  <2>1. Backed(h)' <=> ~Wraps(vec'[h].capacity)
    <3>1. ASSUME Inv, vec[h] # NULL PROVE Backed(h) <=> ~Wraps(vec[h].capacity)
      BY <3>1, BackedIs
    <3>2. Inv /\ vec[h] # NULL => (Backed(h) <=> ~Wraps(vec[h].capacity))
      BY <3>1
    <3>3. (Inv /\ vec[h] # NULL => (Backed(h) <=> ~Wraps(vec[h].capacity)))'
      BY BackedIs, PTL
    <3> QED BY <1>1, <3>3 DEF Wraps
  <2>2. CASE vec[h] = NULL
    BY <2>1, <2>2
  <2>3. CASE vec[h] # NULL
    <3>1. ~Wraps(vec[h].capacity) /\ vec[h].capacity \in Capacity
      BY <1>1, <2>3, BackedIs DEF Inv, VectorStruct
    <3>2. \/ vec'[h].capacity = vec[h].capacity
          \/ /\ vec'[h].capacity = Double(vec[h].capacity)
             /\ Double(vec[h].capacity) > vec[h].capacity
      BY <1>1, <2>3, SameBuffer
    <3> QED BY <2>1, <3>1, <3>2, DoubledWraps
  <2> QED BY <2>2, <2>3
<1>2. Spec => [][Kept]_vars
  BY Invariance, <1>1, PTL DEF Spec
<1> QED BY <1>2 DEF CapacityBacked

-----------------------------------------------------------------------------
(* How many elements a vector counts.                                      *)

(* No more than there is room for.                                         *)
Bounded == \A h \in Held : vec[h].length <= Room(vec[h].capacity)

(* A vector that is due to grow has all the room its capacity promises,    *)
(* and so will the one it grows into: realloc never gets a product that    *)
(* wrapped, least of all a zero, for which it may free the buffer.         *)
LEMMA GrowthIsProper ==
  ASSUME Inv, Bounded, NEW h \in Handle, vec[h] # NULL,
         ExpansionDue(vec[h].capacity, vec[h].length),
         Double(vec[h].capacity) > vec[h].capacity
  PROVE  ~Wraps(vec[h].capacity) /\ ~Wraps(Double(vec[h].capacity))
<1> DEFINE c == vec[h].capacity
           n == vec[h].length
<1>1. c \in Capacity /\ n \in Nat /\ n <= Room(c)
  BY DEF Inv, Bounded, Held, VectorStruct
<1>2. 85 * c <= 100 * n
  BY DEF ExpansionDue
<1>3. c \in Nat \ {0} /\ Room(c) \in Nat
  BY <1>1, RoomWithin
<1>4. ~Wraps(c)
  <2> HIDE DEF c, n
  <2> QED BY <1>1, <1>2, <1>3, RoomHalf
<1> QED BY <1>1, <1>4, DoubledWraps

(* What _vectorExpand leaves has room for the elements.                    *)
LEMMA ExpandedBounded ==
  ASSUME Inv, Bounded, NEW h \in Handle, vec[h] # NULL, NEW grown \in Expanded(vec[h])
  PROVE  /\ vec[h].length \in Nat
         /\ vec[h].length <= Room(vec[h].capacity)
         /\ Room(vec[h].capacity) <= Room(grown.struct.capacity)
         /\ Room(vec[h].capacity) \in Nat /\ Room(grown.struct.capacity) \in Nat
         /\ Wraps(grown.struct.capacity) <=> Wraps(vec[h].capacity)
<1> DEFINE c == vec[h].capacity
           d == grown.struct.capacity
<1>1. c \in Capacity /\ vec[h].length \in Nat /\ vec[h].length <= Room(c)
  BY DEF Inv, Bounded, Held, VectorStruct
<1>2. d \in Capacity
  BY ExpandedSound DEF VectorStruct
<1>3. c \in Nat /\ d \in Nat /\ Room(c) \in Nat /\ Room(d) \in Nat
  BY <1>1, <1>2, RoomWithin
<1>4. CASE grown.struct = vec[h]
  BY <1>1, <1>3, <1>4
<1>5. CASE grown.struct # vec[h]
  <2>1. d = Double(c) /\ d > c /\ ExpansionDue(c, vec[h].length)
    BY <1>5, ExpandedSound
  <2>2. ~Wraps(c) /\ ~Wraps(d)
    BY <2>1, GrowthIsProper
  <2>3. Room(c) = c /\ Room(d) = d
    BY <1>3, <2>2, RoomWhole
  <2> HIDE DEF c, d
  <2> QED BY <1>1, <1>3, <2>1, <2>2, <2>3 DEF c, d
<1> QED BY <1>4, <1>5

LEMMA BoundedStep ==
  ASSUME Inv, Bounded, [Next]_vars
  PROVE  Bounded'
<1>0. CASE UNCHANGED vec
  BY <1>0 DEF Bounded, Held
<1>1. ASSUME NEW g \in Handle, NEW s, vec' = [vec EXCEPT ![g] = s],
             s = NULL \/ s.length <= Room(s.capacity)
      PROVE  Bounded'
  BY <1>1 DEF Inv, Bounded, Held
<1>2. ASSUME NEW g \in Handle, NEW min_capacity, NEW arr, New(g, min_capacity, arr)
      PROVE  Bounded'
  BY <1>1, <1>2 DEF New
<1>3. ASSUME NEW g \in Handle, vec[g] # NULL, NEW grown \in Expanded(vec[g]),
             NEW data, NEW at, Prepended(g, grown, data, at)
      PROVE  Bounded'
  <2> DEFINE v == grown.struct
             s == [v EXCEPT !.length = v.length + 1]
             room == Room(v.capacity)
  <2>1. /\ v \in VectorStruct /\ v.length = vec[g].length
        /\ grown.memory[v.container] \in [0 .. room - 1 -> Datum \cup {Garbage}]
    BY <1>3, ExpandedSound
  <2>2. v.length \in Nat /\ v.length <= room /\ room \in Nat
    <3>1. /\ vec[g].length \in Nat /\ vec[g].length <= Room(vec[g].capacity)
          /\ Room(vec[g].capacity) <= room
          /\ Room(vec[g].capacity) \in Nat /\ room \in Nat
      BY <1>3, ExpandedBounded
    <3> HIDE DEF v, room
    <3> QED BY <2>1, <3>1
  <2>3. s.length = v.length + 1 /\ s.capacity = v.capacity
    BY <2>1 DEF VectorStruct
  <2>4. \/ vec' = [vec EXCEPT ![g] = v]
        \/ /\ v.length \in DOMAIN grown.memory[v.container]
           /\ vec' = [vec EXCEPT ![g] = s]
        \/ UNCHANGED vec
    BY <1>3 DEF Prepended
  <2>5. v.length \in DOMAIN grown.memory[v.container] => s.length <= Room(s.capacity)
    <3>1. v.length \in 0 .. room - 1 => v.length + 1 <= room
      <4> HIDE DEF v, room
      <4> QED BY <2>2
    <3> HIDE DEF s
    <3> QED BY <2>1, <2>3, <3>1
  <2>6. v.length <= Room(v.capacity)
    BY <2>2
  <2> HIDE DEF v, s, room
  <2> QED BY <1>0, <1>1, <2>4, <2>5, <2>6
<1>4. CASE \E g \in Handle, min_capacity \in MinCapacity :
             VectorCreate(g, min_capacity)
  BY <1>0, <1>2, <1>4 DEF VectorCreate, Refuse, Fault
<1>5. CASE \E g \in Handle, arr \in Arrays :
             VectorFromArray(g, arr) \/ VectorFromValues(g, arr)
  BY <1>0, <1>2, <1>5 DEF VectorFromArray, VectorFromValues, Refuse, Fault
<1>6. CASE \E g, source \in Handle : VectorCopy(g, source)
  <2>1. PICK g, source \in Handle : VectorCopy(g, source)
    BY <1>6
  <2>2. CASE UNCHANGED vec
    BY <1>0, <2>2
  <2>3. CASE ~UNCHANGED vec
    <3>1. vec[source] # NULL
      BY <2>1, <2>3 DEF VectorCopy, Fault, Refuse
    <3>2. PICK b : vec' = [vec EXCEPT ![g] = [vec[source] EXCEPT !.container = b]]
      BY <2>1, <2>3 DEF VectorCopy, Fault, Refuse
    <3>3. /\ vec[source] \in VectorStruct
          /\ vec[source].length <= Room(vec[source].capacity)
      BY <3>1 DEF Inv, Bounded, Held
    <3>4. LET s == [vec[source] EXCEPT !.container = b]
          IN  s.length = vec[source].length /\ s.capacity = vec[source].capacity
      BY <3>3 DEF VectorStruct
    <3> QED BY <1>1, <3>2, <3>3, <3>4
  <2> QED BY <2>2, <2>3
<1>7. CASE \E g \in Handle : VectorDelete(g)
  BY <1>0, <1>1, <1>7 DEF VectorDelete, Refuse
<1>8. CASE \E g \in Handle, data \in Datum : VectorPrepend(g, data)
  BY <1>0, <1>3, <1>8 DEF VectorPrepend, Fault
<1>9. CASE \E g \in Handle : VectorPrependElement(g)
  BY <1>0, <1>3, <1>9 DEF VectorPrependElement
<1>10. CASE \E g \in Handle, index \in Index :
              VectorGetAt(g, index) \/ \E data \in Datum : VectorUpdate(g, data, index)
  BY <1>0, <1>10 DEF VectorGetAt, VectorUpdate
<1>11. CASE \E g \in Handle : VectorToArr(g)
  BY <1>0, <1>11 DEF VectorToArr, Fault
<1>12. CASE Stopped \/ UNCHANGED vars
  BY <1>0, <1>12 DEF Stopped, vars
<1> QED
  BY <1>4, <1>5, <1>6, <1>7, <1>8, <1>9, <1>10, <1>11, <1>12 DEF Next

-----------------------------------------------------------------------------
(* The vectors implement ValueLists: each call changes at most the list of *)
(* the vector it is given, and to what ValueLists says.                    *)

Abs == [h \in Handle |-> Elements(h)]

(* What was put into a vector is a value: no element is left to chance.    *)
AllLists == \A h \in Handle : Abs[h] \in Seq(Datum) \cup {NULL}

(* What a call may return.                                                 *)
Results == BOOLEAN \cup Datum \cup {NULL, Undefined}

BoundedInv == Inv /\ Bounded /\ AllLists /\ ret.result \in Results

(* The elements of an open vector are a list, and they are in its buffer.  *)
LEMMA ElementsAre ==
  ASSUME BoundedInv, NEW h \in Handle, vec[h] # NULL
  PROVE  /\ vec[h].length \in Nat
         /\ DOMAIN heap[vec[h].container] = 0 .. Room(vec[h].capacity) - 1
         /\ Room(vec[h].capacity) \in Nat
         /\ vec[h].length <= Room(vec[h].capacity)
         /\ vec[h].length < SizeSpan
         /\ \A i \in 1 .. vec[h].length : i - 1 \in DOMAIN heap[vec[h].container]
         /\ Elements(h) = [i \in 1 .. vec[h].length |-> heap[vec[h].container][i - 1]]
         /\ Elements(h) \in Seq(Datum) /\ Len(Elements(h)) = vec[h].length
         /\ Elements(h) # NULL
<1> DEFINE v == vec[h]
           m == heap[v.container]
           list == [i \in 1 .. v.length |-> m[i - 1]]
           Value == Datum \cup {Garbage}
           room == Room(v.capacity)
<1>1. v \in VectorStruct /\ h \in Held
  BY DEF BoundedInv, Inv, Held
<1>2. /\ v.length \in Nat /\ v.capacity \in Capacity
      /\ v.capacity \in 1 .. SizeSpan - 1 /\ SizeSpan \in Nat
  BY <1>1, SpanIsPositive DEF VectorStruct, Capacity
<1>3. v.length <= room /\ room \in Nat /\ room <= v.capacity
  BY <1>1, <1>2, RoomWithin DEF BoundedInv, Bounded
<1>4. m \in Memory /\ DOMAIN m = 0 .. room - 1
  BY <1>1, <1>2 DEF BoundedInv, Inv, Separate, Live, Roomy, VectorStruct
<1>5. v.length < SizeSpan /\ \A i \in 1 .. v.length : i - 1 \in 0 .. room - 1
  <2> HIDE DEF v, room
  <2> QED BY <1>2, <1>3
<1>6. \A i \in 1 .. v.length : m[i - 1] \in Value
  <2> HIDE DEF m, room
  <2> QED BY <1>4, <1>5, MemoryValues
<1>7. list \in [1 .. v.length -> Value]
  BY <1>6
<1>8. Len(list) = v.length
  <2> HIDE DEF m, v
  <2> QED BY <1>2
<1>9. list # NULL
  <2>1. v.length \in 0 .. SizeSpan
    <3> HIDE DEF v
    <3> QED BY <1>2, <1>5
  <2>2. NULL \notin [1 .. 1 + v.length - 1 -> Value]
    BY <2>1, VectorAssumption
  <2>3. 1 + v.length - 1 = v.length
    BY <1>2
  <2> QED BY <1>7, <2>2, <2>3
<1>10. Elements(h) = list
  BY DEF Elements
<1>11. list \in Seq(Datum)
  <2>1. Abs[h] = list
    BY <1>10 DEF Abs
  <2> HIDE DEF list
  <2> QED BY <1>9, <2>1 DEF BoundedInv, AllLists
<1> QED BY <1>2, <1>3, <1>4, <1>5, <1>8, <1>9, <1>10, <1>11

(* A call that leaves the buffers of the other vectors alone.              *)
LEMMA OnlyOne ==
  ASSUME Inv, NEW h \in Handle, NEW s, vec' = [vec EXCEPT ![h] = s],
         \A g \in Held \ {h} : heap'[vec[g].container] = heap[vec[g].container]
  PROVE  Abs' = [Abs EXCEPT ![h] = Elements(h)']
<1>1. ASSUME NEW g \in Handle \ {h} PROVE Elements(g)' = Elements(g)
  <2>1. vec'[g] = vec[g]
    BY DEF Inv
  <2>2. CASE vec[g] = NULL
    BY <2>1, <2>2 DEF Elements
  <2>3. CASE vec[g] # NULL
    BY <2>1, <2>3 DEF Elements, Held
  <2> QED BY <2>2, <2>3
<1> QED BY <1>1 DEF Abs

LEMMA NoneChanges ==
  ASSUME UNCHANGED <<vec, heap>>
  PROVE  Abs' = Abs /\ Short' = Short
BY DEF Abs, Elements, Short

(* A handle is short of room when the product of its capacity wraps.       *)
LEMMA ShortOf ==
  ASSUME Inv, NEW h \in Handle, NEW s, vec' = [vec EXCEPT ![h] = s]
  PROVE  Short' = [Short EXCEPT ![h] = s # NULL /\ Wraps(s.capacity)]
<1>1. Short'[h] = (s # NULL /\ Wraps(s.capacity))
  BY DEF Short, Inv, Wraps
<1>2. ASSUME NEW g \in Handle, g # h PROVE Short'[g] = Short[g]
  BY <1>2 DEF Short, Inv, Wraps
<1>3. DOMAIN Short = Handle /\ DOMAIN Short' = Handle
  BY DEF Short
<1>4. Short' = [g \in Handle |-> Short'[g]]
  BY DEF Short
<1>5. [Short EXCEPT ![h] = s # NULL /\ Wraps(s.capacity)]
        = [g \in Handle |-> IF g = h THEN s # NULL /\ Wraps(s.capacity) ELSE Short[g]]
  BY <1>3
<1> QED BY <1>1, <1>2, <1>4, <1>5

LEMMA ShortKept ==
  ASSUME Inv, NEW h \in Handle, vec[h] # NULL, NEW s \in VectorStruct,
         Wraps(s.capacity) <=> Wraps(vec[h].capacity),
         vec' = [vec EXCEPT ![h] = s]
  PROVE  Short' = Short
<1>1. s # NULL
  BY NullIsNone
<1>2. ASSUME NEW g \in Handle PROVE Short'[g] <=> Short[g]
  BY <1>1 DEF Short, Inv, Wraps
<1>3. \A g \in Handle : Short'[g] \in BOOLEAN /\ Short[g] \in BOOLEAN
  BY DEF Short
<1>4. \A g \in Handle : Short'[g] = Short[g]
  BY <1>2, <1>3, Zenon
<1> QED BY <1>4 DEF Short

(* The list of a vector that has been created from arr.                    *)
LEMMA NewList ==
  ASSUME BoundedInv, NEW h \in Handle, vec[h] = NULL,
         NEW min_capacity \in Nat, NEW arr \in Seq(Datum),
         New(h, min_capacity, arr)
  PROVE  Abs' = [Abs EXCEPT ![h] = arr]
<1>1. PICK capacity \in Capacities(min_capacity), b \in Buffer :
        /\ ~Live(b)
        /\ Allocatable(Bytes(capacity)) /\ Len(arr) <= Room(capacity)
        /\ Allocatable(Bytes(capacity)) /\ Len(arr) <= Room(capacity)
        /\ vec' = [vec EXCEPT ![h] = [capacity |-> capacity, length |-> Len(arr),
                                      container |-> b]]
        /\ heap' = [heap EXCEPT ![b] =
                      [i \in 0 .. Room(capacity) - 1 |->
                         IF i < Len(arr) THEN arr[i + 1] ELSE Garbage]]
  BY DEF New
<1> DEFINE s == [capacity |-> capacity, length |-> Len(arr), container |-> b]
           m == [i \in 0 .. Room(capacity) - 1 |->
                   IF i < Len(arr) THEN arr[i + 1] ELSE Garbage]
<1>2. capacity \in Capacity
  BY <1>1, CapacitiesInRange DEF Capacity
<1>3. Len(arr) \in Nat /\ Len(arr) <= Room(capacity) /\ Room(capacity) \in Nat
  BY <1>1, <1>2, RoomWithin
<1>4. \A i \in 1 .. Len(arr) : m[i - 1] = arr[i]
  BY <1>2, <1>3
<1>5. s # NULL
  <2>1. s \in VectorStruct
    BY <1>2, <1>3 DEF VectorStruct
  <2> QED BY <2>1, NullIsNone
<1>6. /\ vec' = [vec EXCEPT ![h] = s] /\ vec'[h] = s
      /\ heap' = [heap EXCEPT ![b] = m] /\ heap'[b] = m
  BY <1>1 DEF BoundedInv, Inv
<1>7. Elements(h)' = [i \in 1 .. Len(arr) |-> m[i - 1]]
  <2>1. vec'[h] # NULL /\ vec'[h].length = Len(arr) /\ vec'[h].container = b
    BY <1>5, <1>6
  <2>2. Elements(h)' = [i \in 1 .. vec'[h].length |-> heap'[vec'[h].container][i - 1]]
    BY <2>1 DEF Elements
  <2>3. heap'[vec'[h].container] = m
    BY <1>6, <2>1
  <2> HIDE DEF m
  <2> QED BY <2>1, <2>2, <2>3
<1>8. Elements(h)' = arr
  <2>1. arr = [i \in 1 .. Len(arr) |-> arr[i]]
    OBVIOUS
  <2> HIDE DEF m
  <2> QED BY <1>4, <1>7, <2>1
<1>9. \A g \in Held \ {h} : heap'[vec[g].container] = heap[vec[g].container]
  <2>1. \A g \in Held : vec[g].container # b
    BY <1>1 DEF BoundedInv, Inv, Separate
  <2> HIDE DEF m
  <2> QED BY <1>6, <2>1 DEF BoundedInv, Inv
<1> HIDE DEF s, m
<1> QED BY <1>6, <1>8, <1>9, OnlyOne DEF BoundedInv

LEMMA CopiedList ==
  ASSUME BoundedInv, NEW h \in Handle, vec[h] = NULL,
         NEW source \in Handle, vec[source] # NULL,
         NEW b \in Buffer, Copied(h, source, b)
  PROVE  Abs' = [Abs EXCEPT ![h] = Elements(source)]
<1> DEFINE v == vec[source]
           s == [v EXCEPT !.container = b]
           m == [i \in DOMAIN Blank(v.capacity) |->
                   IF i < v.length THEN heap[v.container][i] ELSE Garbage]
<1>1. /\ v.length \in Nat /\ v.length <= Room(v.capacity)
      /\ Room(v.capacity) \in Nat
      /\ Elements(source) = [i \in 1 .. v.length |-> heap[v.container][i - 1]]
  BY ElementsAre
<1>2. DOMAIN Blank(v.capacity) = 0 .. Room(v.capacity) - 1
  BY DEF Blank
<1>3. \A i \in 1 .. v.length : m[i - 1] = heap[v.container][i - 1]
  <2> DEFINE room == Room(v.capacity)
  <2>1. \A i \in 1 .. v.length : i - 1 \in 0 .. room - 1 /\ i - 1 < v.length
    <3>1. v.length \in Nat /\ v.length <= room /\ room \in Nat
      BY <1>1
    <3> HIDE DEF v, room
    <3> QED BY <3>1
  <2> HIDE DEF v
  <2> QED BY <1>2, <2>1
<1>4. s.length = v.length /\ s.container = b /\ s # NULL
  <2>1. v \in VectorStruct
    BY DEF BoundedInv, Inv
  <2>2. s \in VectorStruct
    BY <2>1 DEF VectorStruct
  <2> HIDE DEF s
  <2> QED BY <2>1, <2>2, NullIsNone DEF VectorStruct, s
<1>5. /\ vec' = [vec EXCEPT ![h] = s] /\ heap' = [heap EXCEPT ![b] = m]
      /\ vec'[h] = s /\ heap'[b] = m
  BY DEF Copied, BoundedInv, Inv
<1>6. Elements(h)' = [i \in 1 .. v.length |-> m[i - 1]]
  <2>1. Elements(h)' = [i \in 1 .. vec'[h].length |-> heap'[vec'[h].container][i - 1]]
    <3> HIDE DEF s, m
    <3> QED BY <1>4, <1>5 DEF Elements
  <2> HIDE DEF s, m
  <2> QED BY <1>4, <1>5, <2>1
<1>7. Elements(h)' = Elements(source)
  <2> HIDE DEF m, v
  <2> QED BY <1>1, <1>3, <1>6
<1>8. \A g \in Held \ {h} : heap'[vec[g].container] = heap[vec[g].container]
  <2>1. \A g \in Held : vec[g].container # b
    BY DEF Copied, BoundedInv, Inv, Separate
  <2> HIDE DEF m
  <2> QED BY <1>5, <2>1 DEF BoundedInv, Inv
<1> HIDE DEF s, m
<1> QED BY <1>5, <1>7, <1>8, OnlyOne DEF BoundedInv

LEMMA DeletedList ==
  ASSUME BoundedInv, NEW h \in Handle, vec[h] # NULL,
         vec' = [vec EXCEPT ![h] = NULL],
         heap' = [heap EXCEPT ![vec[h].container] = NULL]
  PROVE  Abs' = [Abs EXCEPT ![h] = NULL]
<1>1. Elements(h)' = NULL
  BY DEF Elements, BoundedInv, Inv
<1>2. \A g \in Held \ {h} : heap'[vec[g].container] = heap[vec[g].container]
  <2>1. \A g \in Held \ {h} : vec[g].container # vec[h].container
    BY DEF BoundedInv, Inv, Separate, Held
  <2> QED BY <2>1 DEF BoundedInv, Inv
<1> QED BY <1>1, <1>2, OnlyOne DEF BoundedInv

LEMMA UpdatedList ==
  ASSUME BoundedInv, NEW h \in Handle, vec[h] # NULL, NEW data,
         NEW index \in Nat, index < vec[h].length,
         heap' = [heap EXCEPT ![vec[h].container][index] = data], UNCHANGED vec
  PROVE  Abs' = [Abs EXCEPT ![h] = [Elements(h) EXCEPT ![index + 1] = data]]
<1> DEFINE v == vec[h]
           b == v.container
<1>1. /\ v.length \in Nat
      /\ \A i \in 1 .. v.length : i - 1 \in DOMAIN heap[b]
      /\ Elements(h) = [i \in 1 .. v.length |-> heap[b][i - 1]]
  BY ElementsAre
<1>2. b \in Buffer /\ heap[b] \in Memory
  BY DEF BoundedInv, Inv, Separate, Live, Held, VectorStruct
<1>3. \A i \in 1 .. v.length :
        /\ i - 1 \in DOMAIN heap[b]
        /\ i - 1 = index <=> i = index + 1
  <2> HIDE DEF v, b
  <2> QED BY <1>1
<1>4. heap'[b] = [heap[b] EXCEPT ![index] = data]
  BY <1>2 DEF BoundedInv, Inv
<1>5. Elements(h)' = [i \in 1 .. v.length |-> heap'[b][i - 1]]
  BY DEF Elements
<1>6. Elements(h)' = [Elements(h) EXCEPT ![index + 1] = data]
  <2>1. \A i \in 1 .. v.length :
          heap'[b][i - 1] = IF i = index + 1 THEN data ELSE heap[b][i - 1]
    BY <1>3, <1>4
  <2> DEFINE list == Elements(h)
             n == v.length
  <2>2. list = [i \in 1 .. n |-> heap[b][i - 1]]
    BY <1>1
  <2>3. [list EXCEPT ![index + 1] = data]
          = [i \in 1 .. n |-> IF i = index + 1 THEN data ELSE heap[b][i - 1]]
    <3> HIDE DEF list, b, n
    <3> QED BY <2>2
  <2>4. Elements(h)' = [i \in 1 .. n |-> heap'[b][i - 1]]
    BY <1>5
  <2>5. Elements(h)' = [list EXCEPT ![index + 1] = data]
    <3> HIDE DEF list, b, n
    <3> QED BY <2>1, <2>3, <2>4 DEF n
  <2> QED BY <2>5
<1>7. \A g \in Held \ {h} : heap'[vec[g].container] = heap[vec[g].container]
  <2>1. \A g \in Held \ {h} : vec[g].container # vec[h].container
    BY DEF BoundedInv, Inv, Separate, Held
  <2> QED BY <2>1 DEF BoundedInv, Inv
<1>8. vec' = [vec EXCEPT ![h] = vec[h]]
  BY DEF BoundedInv, Inv
<1> QED BY <1>6, <1>7, <1>8, OnlyOne DEF BoundedInv

(* Growth keeps the elements.                                              *)
LEMMA ExpandedKeeps ==
  ASSUME BoundedInv, NEW h \in Handle, vec[h] # NULL, NEW grown \in Expanded(vec[h])
  PROVE  \A i \in 0 .. vec[h].length - 1 :
           grown.memory[grown.struct.container][i] = heap[vec[h].container][i]
<1> DEFINE v == vec[h]
           old == v.container
           capacity == Double(v.capacity)
           new == Reallocated(heap[old], capacity)
<1>1. /\ v.length \in Nat
      /\ DOMAIN heap[old] = 0 .. Room(v.capacity) - 1
      /\ v.length <= Room(v.capacity) /\ Room(v.capacity) \in Nat
  BY ElementsAre
<1>2. CASE grown = [struct |-> v, memory |-> heap]
  BY <1>2
<1>3. CASE grown # [struct |-> v, memory |-> heap]
  <2>2. PICK b \in {c \in Buffer : ~Live(c)} \cup {old} :
          grown = [struct |-> [v EXCEPT !.capacity = capacity, !.container = b],
                   memory |-> [[heap EXCEPT ![old] = NULL] EXCEPT ![b] = new]]
    BY <1>3 DEF Expanded
  <2>3. b \in Buffer
    BY <2>2 DEF BoundedInv, Inv, VectorStruct
  <2>4. grown.struct.container = b
    <3>1. v \in VectorStruct
      BY DEF BoundedInv, Inv
    <3>2. grown.struct = [v EXCEPT !.capacity = capacity, !.container = b]
      BY <2>2
    <3>3. "container" \in DOMAIN [v EXCEPT !.capacity = capacity]
      BY <3>1 DEF VectorStruct
    <3> HIDE DEF v, capacity
    <3> QED BY <3>2, <3>3
  <2>5. grown.memory[b] = new
    <3> HIDE DEF new, old, v
    <3> QED BY <2>2, <2>3 DEF BoundedInv, Inv
  <2>6. grown.struct.capacity = capacity
    <3>1. v \in VectorStruct
      BY DEF BoundedInv, Inv
    <3>2. grown.struct = [v EXCEPT !.capacity = capacity, !.container = b]
      BY <2>2
    <3>3. [v EXCEPT !.capacity = capacity].capacity = capacity
      BY <3>1 DEF VectorStruct
    <3> HIDE DEF v, capacity
    <3> QED BY <3>1, <3>2, <3>3 DEF VectorStruct
  <2>7. Room(v.capacity) <= Room(capacity) /\ Room(capacity) \in Nat
    BY <2>6, ExpandedBounded DEF BoundedInv
  <2>8. \A i \in 0 .. v.length - 1 :
          i \in DOMAIN heap[old] /\ i \in DOMAIN Blank(capacity)
    <3>1. DOMAIN Blank(capacity) = 0 .. Room(capacity) - 1
      BY DEF Blank
    <3> HIDE DEF capacity, v, old
    <3> QED BY <1>1, <2>7, <3>1
  <2>9. \A i \in 0 .. v.length - 1 : new[i] = heap[old][i]
    <3> HIDE DEF capacity, v, old
    <3> QED BY <2>8 DEF Reallocated
  <2> HIDE DEF new
  <2> QED BY <2>4, <2>5, <2>9
<1> QED BY <1>2, <1>3

LEMMA PrependedList ==
  ASSUME BoundedInv, NEW h \in Handle, vec[h] # NULL, NEW grown \in Expanded(vec[h]),
         NEW data, NEW at, Prepended(h, grown, data, at)
  PROVE  /\ Short' = Short
         /\ \/ Abs' = Abs /\ Adds(at, FALSE)
            \/ /\ Abs' = [Abs EXCEPT ![h] = Append(Elements(h), data)]
               /\ Adds(at, TRUE)
            \/ Abs' = Abs /\ Adds(at, Undefined) /\ Wraps(vec[h].capacity)
<1> DEFINE v == grown.struct
           b == v.container
           m == grown.memory
           n == vec[h].length
<1>1. /\ n \in Nat
      /\ Elements(h) = [i \in 1 .. n |-> heap[vec[h].container][i - 1]]
      /\ Elements(h) \in Seq(Datum) /\ Len(Elements(h)) = n
  BY ElementsAre
<1>2. /\ v \in VectorStruct /\ v.length = n /\ b \in Buffer
      /\ ~Live(b) \/ b = vec[h].container
      /\ m[b] \in [0 .. Room(v.capacity) - 1 -> Datum \cup {Garbage}]
      /\ Moved(h, b, m[b], m)
      /\ Wraps(v.capacity) <=> Wraps(vec[h].capacity)
  BY ExpandedSound, ExpandedBounded DEF BoundedInv
<1>3. \A i \in 1 .. n : m[b][i - 1] = heap[vec[h].container][i - 1]
  <2>1. \A i \in 1 .. n : i - 1 \in 0 .. n - 1
    <3> HIDE DEF n
    <3> QED BY <1>1
  <2> QED BY <2>1, ExpandedKeeps
<1>4. \A g \in Held \ {h} :
        /\ vec[g].container \in Buffer
        /\ vec[g].container # b /\ vec[g].container # vec[h].container
  <2>1. \A g \in Held \ {h} :
          /\ vec[g].container \in Buffer /\ Live(vec[g].container)
          /\ vec[g].container # vec[h].container
    BY DEF BoundedInv, Inv, Separate, Held, VectorStruct
  <2> HIDE DEF b
  <2> QED BY <1>2, <2>1
<1>5. \A g \in Held \ {h} : m[vec[g].container] = heap[vec[g].container]
  <2> HIDE DEF m, b
  <2> QED BY <1>2, <1>4 DEF Moved
<1>6. v # NULL
  BY <1>2, NullIsNone
<1>7. CASE ~Fits(v)
  <2>1. /\ vec' = [vec EXCEPT ![h] = v] /\ vec'[h] = v /\ heap' = m
        /\ Adds(at, FALSE)
    BY <1>7 DEF Prepended, BoundedInv, Inv
  <2>2. Elements(h)' = [i \in 1 .. n |-> m[b][i - 1]]
    <3>1. Elements(h)' = [i \in 1 .. vec'[h].length |-> heap'[vec'[h].container][i - 1]]
      BY <1>6, <2>1 DEF Elements
    <3> HIDE DEF v, m, n
    <3> QED BY <1>2, <2>1, <3>1
  <2>3. Elements(h)' = Elements(h)
    <3> HIDE DEF v, m, n, b
    <3> QED BY <1>1, <1>3, <2>2
  <2>4. Abs' = [Abs EXCEPT ![h] = Elements(h)']
    <3> HIDE DEF v, m
    <3> QED BY <1>5, <2>1, OnlyOne DEF BoundedInv
  <2>5. Abs' = Abs
    BY <2>3, <2>4 DEF Abs
  <2>6. Short' = Short
    <3> HIDE DEF v
    <3> QED BY <1>2, <2>1, ShortKept DEF BoundedInv
  <2> QED BY <2>1, <2>5, <2>6
<1>8. CASE Fits(v) /\ v.length \in DOMAIN m[b]
  <2> DEFINE s == [v EXCEPT !.length = v.length + 1]
             mb == [m[b] EXCEPT ![v.length] = data]
  <2>1. /\ vec' = [vec EXCEPT ![h] = s] /\ vec'[h] = s
        /\ heap' = [m EXCEPT ![b] = mb]
        /\ Adds(at, TRUE)
    BY <1>8 DEF Prepended, BoundedInv, Inv
  <2>2. /\ s.length = n + 1 /\ s.container = b /\ s # NULL
        /\ s \in VectorStruct /\ s.capacity = v.capacity
    <3>1. s \in VectorStruct
      BY <1>2 DEF VectorStruct
    <3>2. s.length = n + 1 /\ s.container = b /\ s.capacity = v.capacity
      BY <1>2 DEF VectorStruct
    <3> HIDE DEF s
    <3> QED BY <3>1, <3>2, NullIsNone
  <2>3. heap'[b] = mb /\ \A c \in Buffer \ {b} : heap'[c] = m[c]
    <3>1. m \in [Buffer -> Memory \cup {NULL}]
      BY <1>2 DEF Moved
    <3> HIDE DEF mb, m, b
    <3> QED BY <1>2, <2>1, <3>1
  <2>4. Elements(h)' = [i \in 1 .. n + 1 |-> mb[i - 1]]
    <3>1. Elements(h)' = [i \in 1 .. vec'[h].length |-> heap'[vec'[h].container][i - 1]]
      <4> HIDE DEF s
      <4> QED BY <2>1, <2>2 DEF Elements
    <3> HIDE DEF s, mb, b, n
    <3> QED BY <2>1, <2>2, <2>3, <3>1
  <2>5. \A i \in 1 .. n + 1 : i - 1 \in DOMAIN m[b]
    <3> DEFINE room == Room(v.capacity)
    <3>1. DOMAIN m[b] = 0 .. room - 1 /\ room \in Nat
      <4>1. v.capacity \in Nat
        BY <1>2, SpanIsPositive DEF VectorStruct, Capacity
      <4> HIDE DEF v, m, b
      <4> QED BY <1>2, <4>1, RoomBound
    <3>2. n \in 0 .. room - 1
      BY <1>2, <1>8, <3>1
    <3> HIDE DEF v, n, m, room
    <3> QED BY <1>1, <3>1, <3>2
  <2>6. \A i \in 1 .. n + 1 :
          mb[i - 1] = IF i = n + 1 THEN data ELSE Elements(h)[i]
    <3>1. \A i \in 1 .. n + 1 : mb[i - 1] = IF i - 1 = n THEN data ELSE m[b][i - 1]
      BY <1>2, <2>5
    <3>2. \A i \in 1 .. n + 1 : i - 1 = n <=> i = n + 1
      <4> HIDE DEF n
      <4> QED BY <1>1
    <3>3. \A i \in 1 .. n + 1 : i # n + 1 => i \in 1 .. n
      <4> HIDE DEF n
      <4> QED BY <1>1
    <3>4. \A i \in 1 .. n : Elements(h)[i] = m[b][i - 1]
      BY <1>1, <1>3
    <3> HIDE DEF mb, m, b, n
    <3> QED BY <3>1, <3>2, <3>3, <3>4
  <2>7. Append(Elements(h), data)
          = [i \in 1 .. n + 1 |-> IF i = n + 1 THEN data ELSE Elements(h)[i]]
    <3> HIDE DEF n
    <3> QED BY <1>1
  <2>8. Elements(h)' = Append(Elements(h), data)
    <3> HIDE DEF mb, n
    <3> QED BY <2>4, <2>6, <2>7
  <2>9. \A g \in Held \ {h} : heap'[vec[g].container] = heap[vec[g].container]
    <3> HIDE DEF mb, m, b
    <3> QED BY <1>4, <1>5, <2>3
  <2>10. Abs' = [Abs EXCEPT ![h] = Elements(h)']
    <3> HIDE DEF s
    <3> QED BY <2>1, <2>9, OnlyOne DEF BoundedInv
  <2>11. Short' = Short
    <3> HIDE DEF s
    <3> QED BY <1>2, <2>1, <2>2, ShortKept DEF BoundedInv
  <2> QED BY <2>1, <2>8, <2>10, <2>11
<1>9. CASE Fits(v) /\ v.length \notin DOMAIN m[b]
  <2>1. Adds(at, Undefined) /\ Abs' = Abs /\ Short' = Short
    BY <1>9, NoneChanges DEF Prepended
  <2>2. Wraps(v.capacity)
    <3> DEFINE c == v.capacity
    <3>1. c \in Nat /\ n + 1 <= c
      BY <1>2, <1>9, SpanIsPositive DEF VectorStruct, Capacity, Fits
    <3>2. ~(n \in 0 .. Room(c) - 1)
      BY <1>2, <1>9
    <3>3. ~Wraps(c) => Room(c) = c
      BY <3>1, RoomWhole
    <3> HIDE DEF n, c
    <3>4. Wraps(c)
      BY <1>1, <3>1, <3>2, <3>3
    <3> QED BY <3>4 DEF c
  <2> QED BY <1>2, <2>1, <2>2
<1> QED BY <1>7, <1>8, <1>9

(* What vectorPrepend reads through a pointer to an element: the element   *)
(* itself, unless it is one of the vector that has grown.                  *)
LEMMA ReadsValue ==
  ASSUME BoundedInv, NEW h \in Handle, vec[h] # NULL, NEW grown \in Expanded(vec[h]),
         NEW source \in Handle, ptr # NULL, ElementOf(ptr, vec[source])
  PROVE  /\ vec[source] # NULL /\ ptr.index \in Nat /\ ptr.index < vec[source].length
         /\ Elements(source)[ptr.index + 1] = heap[ptr.buffer][ptr.index]
         /\ Read(grown.memory, ptr) \subseteq Datum
         /\ source # h \/ grown.struct = vec[h] =>
              /\ Points(grown.memory, ptr)
              /\ Read(grown.memory, ptr) = {heap[ptr.buffer][ptr.index]}
<1> DEFINE element == heap[ptr.buffer][ptr.index]
           b == grown.struct.container
           m == grown.memory
<1>1. /\ ptr \in [buffer : Buffer, index : Nat] /\ vec[source] # NULL
      /\ ptr.buffer = vec[source].container /\ ptr.index < vec[source].length
      /\ source \in Held /\ h \in Held
  BY DEF BoundedInv, Inv, ElementOf, Held
<1>2. /\ vec[source].length \in Nat /\ ptr.index \in Nat
      /\ \A i \in 1 .. vec[source].length : i - 1 \in DOMAIN heap[ptr.buffer]
      /\ Elements(source) = [i \in 1 .. vec[source].length |-> heap[ptr.buffer][i - 1]]
      /\ Elements(source) \in Seq(Datum)
      /\ Len(Elements(source)) = vec[source].length
  BY <1>1, ElementsAre
<1>3. ptr.index + 1 \in 1 .. vec[source].length /\ (ptr.index + 1) - 1 = ptr.index
  BY <1>1, <1>2
<1>4. /\ Elements(source)[ptr.index + 1] = element
      /\ ptr.index \in DOMAIN heap[ptr.buffer] /\ heap[ptr.buffer] # NULL
      /\ element \in Datum
  <2>1. Elements(source)[ptr.index + 1] = element /\ ptr.index \in DOMAIN heap[ptr.buffer]
    BY <1>2, <1>3
  <2>2. Elements(source)[ptr.index + 1] \in Datum
    BY <1>2, <1>3
  <2>3. heap[ptr.buffer] # NULL
    BY <1>1 DEF BoundedInv, Inv, Separate, Live
  <2> QED BY <2>1, <2>2, <2>3
<1>5. ASSUME m[ptr.buffer] = heap[ptr.buffer]
      PROVE  Points(m, ptr) /\ Read(m, ptr) = {element}
  BY <1>4, <1>5 DEF Points, Read
<1>6. /\ b \in Buffer /\ (~Live(b) \/ b = vec[h].container)
      /\ Moved(h, b, m[b], m)
      /\ (grown.struct = vec[h] /\ m = heap) \/ grown.struct.capacity > vec[h].capacity
  BY ExpandedSound DEF BoundedInv
<1>7. CASE grown.struct = vec[h]
  <2>1. m = heap
    <3>1. vec[h].capacity \in Nat
      BY SpanIsPositive DEF BoundedInv, Inv, VectorStruct, Capacity
    <3> QED BY <1>6, <1>7, <3>1
  <2> QED BY <1>1, <1>2, <1>4, <1>5, <2>1
<1>8. CASE source # h
  <2>1. ptr.buffer # vec[h].container
    BY <1>1, <1>8 DEF BoundedInv, Inv, Separate
  <2>2. ptr.buffer # b /\ ptr.buffer \in Buffer
    BY <1>1, <1>4, <1>6, <2>1 DEF Live
  <2>3. m[ptr.buffer] = heap[ptr.buffer]
    <3> HIDE DEF b, m
    <3> QED BY <1>6, <2>1, <2>2 DEF Moved
  <2> QED BY <1>1, <1>2, <1>4, <1>5, <2>3
<1>9. CASE source = h /\ grown.struct # vec[h]
  <2>1. Read(m, ptr) \subseteq Datum
    <3>1. CASE b = ptr.buffer
      <4>1. \A i \in 0 .. vec[h].length - 1 : m[b][i] = heap[vec[h].container][i]
        BY ExpandedKeeps
      <4>2. ptr.index \in 0 .. vec[h].length - 1
        BY <1>1, <1>2, <1>9
      <4>3. m[b][ptr.index] = element
        BY <1>1, <1>9, <4>1, <4>2
      <4> HIDE DEF element, m, b
      <4> QED BY <1>4, <3>1, <4>3 DEF Read
    <3>2. CASE b # ptr.buffer
      <4>1. m[ptr.buffer] = NULL
        <5> HIDE DEF b, m
        <5> QED BY <1>1, <1>6, <1>9, <3>2 DEF Moved
      <4> QED BY <4>1 DEF Read, Points
    <3> QED BY <3>1, <3>2
  <2> QED BY <1>1, <1>2, <1>4, <1>9, <2>1
<1> QED BY <1>7, <1>8, <1>9

-----------------------------------------------------------------------------
(* Requests a creator has no good capacity for.                            *)

LEMMA ExponentIs ==
  ASSUME NEW n \in Nat \ {0}, NEW pow \in Exponents(n)
  PROVE  /\ pow \in 1 .. MAX_POW2 - 1 /\ n \in 1 .. SizeSpan - 1
         /\ n < Pow2[pow] /\ 2 * Pow2[pow] <= SizeSpan
         /\ Pow2[pow] \in Nat
<1>1. PICK log \in Log2(n) : pow = log + 1
  BY DEF Exponents
<1>2. log \in Nat /\ (log + 1 < MAX_POW2 => n < Pow2[log + 1])
  BY Log2Exceeds
<1>3. pow < MAX_POW2 /\ MAX_POW2 \in Nat
  BY WidthAssumption DEF Exponents
<1>4. pow \in 1 .. MAX_POW2 - 1 /\ n < Pow2[pow]
  BY <1>1, <1>2, <1>3
<1>5. /\ Pow2[pow] \in Nat /\ Pow2[pow + 1] \in Nat /\ SizeSpan \in Nat
      /\ Pow2[pow + 1] = 2 * Pow2[(pow + 1) - 1] /\ (pow + 1) - 1 = pow
  <2>1. pow \in 0 .. MAX_POW2 /\ pow + 1 \in 1 .. MAX_POW2 /\ pow + 1 \in 0 .. MAX_POW2
    BY <1>3, <1>4
  <2> QED BY <2>1, Pow2Def, SpanIsPositive
<1>6. Pow2[pow + 1] <= SizeSpan
  <2>1. CASE pow + 1 = MAX_POW2
    BY <1>5, <2>1 DEF SizeSpan
  <2>2. CASE pow + 1 < MAX_POW2
    <3>1. pow + 1 \in 0 .. MAX_POW2 /\ MAX_POW2 \in 0 .. MAX_POW2
      BY <1>3, <1>4
    <3>2. Pow2[pow + 1] < Pow2[MAX_POW2]
      BY <2>2, <3>1, Pow2Increasing
    <3> QED BY <1>5, <3>2 DEF SizeSpan
  <2> QED BY <1>3, <1>4, <2>1, <2>2
<1>7. 2 * Pow2[pow] <= SizeSpan
  BY <1>5, <1>6
<1> QED BY <1>4, <1>5, <1>7

(* A buffer whose bytes wrap was asked for by too large a request.         *)
LEMMA WrapsUnsafe ==
  ASSUME NEW n \in Nat \ {0}, NEW capacity \in Capacities(n),
         Allocatable(Bytes(capacity)), Wraps(capacity)
  PROVE  n \in Unsafe
<1>1. PICK pow \in Exponents(n) : capacity = IntShift(pow)
  BY DEF Capacities
<1>2. n \in 1 .. SizeSpan - 1
  BY <1>1, ExponentIs
<1> QED BY <1>2 DEF Unsafe

(* So was one that cannot take the elements.                               *)
LEMMA OverrunsUnsafe ==
  ASSUME NEW n \in Nat, NEW arr \in Seq(Datum), Len(arr) <= n, Overruns(n, arr)
  PROVE  n \in Unsafe
<1>1. n \in Nat \ {0}
  BY DEF Overruns
<1>2. CASE ShiftUndefined(n)
  <2>1. PICK pow \in Exponents(n) : pow >= INT_BITS
    BY <1>2 DEF ShiftUndefined
  <2>2. n \in 1 .. SizeSpan - 1
    BY <1>1, <2>1, ExponentIs
  <2> QED BY <1>2, <2>2 DEF Unsafe
<1>3. CASE ~ShiftUndefined(n)
  <2>1. PICK capacity \in Capacities(n) :
          Allocatable(Bytes(capacity)) /\ Len(arr) > Room(capacity)
    BY <1>3 DEF Overruns
  <2>2. PICK pow \in Exponents(n) : capacity = IntShift(pow)
    BY DEF Capacities
  <2>3. /\ pow \in 1 .. MAX_POW2 - 1 /\ n < Pow2[pow]
        /\ 2 * Pow2[pow] <= SizeSpan /\ Pow2[pow] \in Nat
    BY <1>1, <2>2, ExponentIs
  <2>4. pow < INT_BITS /\ INT_BITS \in Nat
    BY <1>3, <2>2, <2>3, WidthAssumption DEF ShiftUndefined
  <2>5. pow % INT_BITS = pow
    BY <2>3, <2>4
  <2>6. capacity \in Nat /\ n < capacity
    BY <2>2, <2>3, <2>5, SpanIsPositive DEF IntShift
  <2>7. ~Wraps(capacity) => Room(capacity) = capacity
    BY <2>6, RoomWhole
  <2>8. Wraps(capacity)
    <3> DEFINE room == Room(capacity)
    <3>1. Len(arr) \in Nat /\ Len(arr) > room
      BY <2>1
    <3> HIDE DEF room
    <3> QED BY <2>6, <2>7, <3>1 DEF room
  <2> QED BY <1>1, <2>1, <2>8, WrapsUnsafe
<1> QED BY <1>2, <1>3

(* A new vector is short of room only if it was asked for with too much.   *)
LEMMA NewShort ==
  ASSUME BoundedInv, NEW h \in Handle, vec[h] = NULL,
         NEW n \in Nat, NEW list \in Seq(Datum), New(h, n, list)
  PROVE  \/ Short' = [Short EXCEPT ![h] = FALSE]
         \/ n \in Unsafe /\ Short' = [Short EXCEPT ![h] = TRUE]
<1>1. PICK capacity \in Capacities(n), c \in Buffer :
        /\ Allocatable(Bytes(capacity))
        /\ vec' = [vec EXCEPT ![h] = [capacity |-> capacity, length |-> Len(list),
                                      container |-> c]]
  BY DEF New
<1> DEFINE s == [capacity |-> capacity, length |-> Len(list), container |-> c]
<1>2. n \in Nat \ {0}
  BY DEF New
<1>3. s # NULL /\ s.capacity = capacity
  <2>1. capacity \in Capacity /\ Len(list) \in Nat
    BY <1>1, CapacitiesInRange DEF Capacity
  <2>2. s \in VectorStruct
    BY <2>1 DEF VectorStruct
  <2> QED BY <2>2, NullIsNone
<1>4. Short' = [Short EXCEPT ![h] = s # NULL /\ Wraps(s.capacity)]
  <2> HIDE DEF s
  <2> QED BY <1>1, ShortOf DEF BoundedInv, s
<1>5. CASE Wraps(capacity)
  <2>1. n \in Unsafe
    BY <1>1, <1>2, <1>5, WrapsUnsafe
  <2>2. (s # NULL /\ Wraps(s.capacity)) = TRUE
    <3> HIDE DEF s
    <3> QED BY <1>3, <1>5
  <2> HIDE DEF s
  <2> QED BY <1>4, <2>1, <2>2
<1>6. CASE ~Wraps(capacity)
  <2>1. (s # NULL /\ Wraps(s.capacity)) = FALSE
    <3> HIDE DEF s
    <3> QED BY <1>3, <1>6
  <2> HIDE DEF s
  <2> QED BY <1>4, <2>1
<1> QED BY <1>5, <1>6

-----------------------------------------------------------------------------
(* Call by call, the abstract step.                                        *)

LEMMA OpenIs ==
  ASSUME BoundedInv, NEW h \in Handle
  PROVE  /\ Abs[h] = Elements(h)
         /\ Lists!Open(h) <=> vec[h] # NULL
<1>1. Abs[h] = Elements(h)
  BY DEF Abs
<1>2. Elements(h) # NULL <=> vec[h] # NULL
  BY ElementsAre DEF Elements
<1> QED BY <1>1, <1>2 DEF Lists!Open, Abs

LEMMA WithinIs ==
  ASSUME BoundedInv, NEW h \in Handle, NEW index \in Nat
  PROVE  Lists!Within(h, index) <=> CheckIndex(h, index)
<1>1. CASE vec[h] = NULL
  BY <1>1, OpenIs DEF Lists!Within, CheckIndex
<1>2. CASE vec[h] # NULL
  <2>1. Len(Abs[h]) = vec[h].length
    BY <1>2, OpenIs, ElementsAre
  <2> QED BY <1>2, <2>1, OpenIs DEF Lists!Within, CheckIndex, Abs
<1> QED BY <1>1, <1>2

(* What a creator is asked for, and what then follows for its list.        *)
LEMMA NewStep ==
  ASSUME BoundedInv, NEW h \in Handle, vec[h] = NULL,
         NEW n \in MinCapacity \cup {Len(arr) : arr \in Arrays},
         NEW list \in {<<>>} \cup Arrays, Len(list) <= n, New(h, n, list)
  PROVE  Lists!Becomes(h, list) /\ Lists!MayBeShort(h, Overlarge)
<1>1. n \in Nat /\ list \in Seq(Datum)
  <2>1. \A arr \in Arrays : Len(arr) \in Nat /\ arr \in Seq(Datum)
    BY VectorAssumption
  <2>2. <<>> \in Seq(Datum) /\ MinCapacity \subseteq Nat
    BY VectorAssumption
  <2> QED BY <2>1, <2>2
<1>2. Lists!Becomes(h, list)
  BY <1>1, NewList DEF Lists!Becomes, Abs
<1>3. CASE Short' = [Short EXCEPT ![h] = FALSE]
  BY <1>2, <1>3 DEF Lists!MayBeShort
<1>4. CASE n \in Unsafe /\ Short' = [Short EXCEPT ![h] = TRUE]
  <2> DEFINE Requests == MinCapacity \cup {Len(arr) : arr \in Arrays}
  <2>1. n \in Requests
    OBVIOUS
  <2>2. (Requests \cap Unsafe # {}) = TRUE
    <3> HIDE DEF Requests
    <3> QED BY <1>4, <2>1
  <2>3. Overlarge = TRUE
    <3>1. Overlarge = (Requests \cap Unsafe # {})
      BY DEF Overlarge
    <3> HIDE DEF Requests
    <3> QED BY <2>2, <3>1
  <2> QED BY <1>2, <1>4, <2>3 DEF Lists!MayBeShort
<1> QED BY <1>1, <1>3, <1>4, NewShort

LEMMA CreateStep ==
  ASSUME BoundedInv, NEW h \in Handle,
         \/ \E min_capacity \in MinCapacity : VectorCreate(h, min_capacity)
         \/ \E arr \in Arrays :
              VectorFromArray(h, arr) \/ VectorFromValues(h, arr)
  PROVE  Lists!Create(h)
<1> DEFINE Requests == MinCapacity \cup {Len(arr) : arr \in Arrays}
<1>1. ~Lists!Open(h) /\ vec[h] = NULL
  BY OpenIs DEF VectorCreate, VectorFromArray, VectorFromValues
<1>2. /\ Requests \subseteq Nat /\ Arrays \subseteq Seq(Datum)
      /\ <<>> \in Seq(Datum) /\ \A n \in Nat : Len(<<>>) <= n
      /\ \A arr \in Arrays : Len(arr) \in Nat /\ Len(arr) <= Len(arr)
  BY VectorAssumption
<1>3. ASSUME NEW call \in {"vectorCreate", "vectorFromArray"},
             \/ Refuse(call, FALSE)
             \/ /\ Fault(call)
                /\ \E n \in Requests, list \in {<<>>} \cup Arrays :
                     Len(list) <= n /\ Overruns(n, list)
      PROVE  Lists!Create(h)
  <2>1. Abs' = Abs /\ Short' = Short
    BY <1>3, NoneChanges DEF Refuse, Fault
  <2>2. Fault(call) /\ ~Refuse(call, FALSE) => Overlarge
    <3>1. SUFFICES ASSUME NEW n \in Requests, NEW list \in {<<>>} \cup Arrays,
                          Len(list) <= n, Overruns(n, list)
                   PROVE  Overlarge
      BY <1>3
    <3>2. n \in Unsafe
      BY <1>2, <3>1, OverrunsUnsafe
    <3> QED BY <3>2 DEF Overlarge
  <2> HIDE DEF Requests
  <2> QED BY <1>1, <1>3, <2>1, <2>2
        DEF Refuse, Fault, Returns, Lists!Create, Lists!Returns, Abs
<1>4. ASSUME NEW call \in {"vectorCreate", "vectorFromArray"}, Returns(call, TRUE),
             NEW n \in Requests, Len(<<>>) <= n, New(h, n, <<>>)
      PROVE  Lists!Create(h)
  <2>1. Lists!Becomes(h, <<>>) /\ Lists!MayBeShort(h, Overlarge)
    BY <1>1, <1>4, NewStep
  <2> QED BY <1>1, <1>4, <2>1 DEF Returns, Lists!Create, Lists!Returns
<1>5. ASSUME NEW call \in {"vectorFromArray", "vectorFromValues"}, Returns(call, TRUE),
             NEW arr \in Arrays, New(h, Len(arr), arr)
      PROVE  Lists!Create(h)
  <2>1. Lists!Becomes(h, arr) /\ Lists!MayBeShort(h, Overlarge)
    BY <1>1, <1>2, <1>5, NewStep
  <2> QED BY <1>1, <1>5, <2>1 DEF Returns, Lists!Create, Lists!Returns
<1>6. ASSUME NEW min_capacity \in MinCapacity, VectorCreate(h, min_capacity)
      PROVE  Lists!Create(h)
  <2>1. min_capacity \in Requests /\ Len(<<>>) <= min_capacity
    BY <1>2
  <2> QED BY <1>3, <1>4, <1>6, <2>1 DEF VectorCreate
<1>7. ASSUME NEW arr \in Arrays, VectorFromArray(h, arr)
      PROVE  Lists!Create(h)
  <2>1. Len(arr) \in Requests /\ Len(<<>>) <= Len(arr) /\ Len(arr) <= Len(arr)
    BY <1>2
  <2>2. CASE Refuse("vectorFromArray", FALSE)
    BY <1>3, <2>2
  <2>3. CASE Overruns(Len(arr), arr) /\ Fault("vectorFromArray")
    BY <1>3, <2>1, <2>3
  <2>4. CASE New(h, Len(arr), <<>>) /\ Returns("vectorFromArray", TRUE)
    BY <1>4, <2>1, <2>4
  <2>5. CASE New(h, Len(arr), arr) /\ Returns("vectorFromArray", TRUE)
    BY <1>5, <2>5
  <2> QED BY <1>7, <2>2, <2>3, <2>4, <2>5 DEF VectorFromArray
<1>8. ASSUME NEW arr \in Arrays, VectorFromValues(h, arr)
      PROVE  Lists!Create(h)
  <2>1. CASE Fault("vectorFromValues")
    <3>1. Abs' = Abs /\ Short' = Short
      BY <2>1, NoneChanges DEF Fault
    <3> QED BY <1>1, <2>1, <3>1 DEF Fault, Returns, Lists!Create, Lists!Returns, Abs
  <2>2. CASE New(h, Len(arr), arr) /\ Returns("vectorFromValues", TRUE)
    BY <1>5, <2>2
  <2> QED BY <1>8, <2>1, <2>2 DEF VectorFromValues
<1> QED BY <1>6, <1>7, <1>8

LEMMA CopyStep ==
  ASSUME BoundedInv, NEW h \in Handle, NEW source \in Handle, VectorCopy(h, source)
  PROVE  Lists!Copy(h, source)
<1>1. /\ ~Lists!Open(h) /\ vec[h] = NULL
      /\ Lists!Open(source) <=> vec[source] # NULL
      /\ Abs[source] = Elements(source)
  BY OpenIs DEF VectorCopy
<1>2. CASE vec[source] = NULL /\ Fault("vectorCopy")
  BY <1>1, <1>2, NoneChanges DEF Fault, Returns, Lists!Copy, Lists!Returns, Abs
<1>3. CASE vec[source] # NULL /\ Refuse("vectorCopy", FALSE)
  BY <1>1, <1>3, NoneChanges DEF Refuse, Returns, Lists!Copy, Lists!Returns, Abs
<1>4. CASE /\ vec[source] # NULL
           /\ \E b \in Buffer : Copied(h, source, b)
           /\ Returns("vectorCopy", TRUE)
  <2>1. Abs' = [Abs EXCEPT ![h] = Abs[source]]
    BY <1>1, <1>4, CopiedList
  <2>2. PICK b \in Buffer : vec' = [vec EXCEPT ![h] = [vec[source] EXCEPT !.container = b]]
    BY <1>4 DEF Copied
  <2> DEFINE s == [vec[source] EXCEPT !.container = b]
  <2>3. s # NULL /\ s.capacity = vec[source].capacity
    <3>1. vec[source] \in VectorStruct
      BY <1>4 DEF BoundedInv, Inv
    <3>2. s \in VectorStruct
      BY <3>1 DEF VectorStruct
    <3>3. s.capacity = vec[source].capacity
      BY <3>1 DEF VectorStruct
    <3> HIDE DEF s
    <3> QED BY <3>2, <3>3, NullIsNone
  <2>4. Short' = [Short EXCEPT ![h] = s # NULL /\ Wraps(s.capacity)]
    <3> HIDE DEF s
    <3> QED BY <2>2, ShortOf DEF BoundedInv, s
  <2>5. Short[source] = (s # NULL /\ Wraps(s.capacity))
    <3> HIDE DEF s
    <3> QED BY <1>4, <2>3 DEF Short
  <2>6. Short' = [Short EXCEPT ![h] = Short[source]]
    <3> HIDE DEF s
    <3> QED BY <2>4, <2>5
  <2> QED BY <1>1, <1>4, <2>1, <2>6
        DEF Returns, Lists!Copy, Lists!Returns, Lists!Becomes, Abs
<1> QED BY <1>2, <1>3, <1>4 DEF VectorCopy, Copied

LEMMA GetAtStep ==
  ASSUME BoundedInv, NEW h \in Handle, NEW index \in Index, VectorGetAt(h, index)
  PROVE  Lists!GetAt(h, index)
<1>1. index \in Nat
  BY VectorAssumption
<1>2. Abs' = Abs /\ Short' = Short
  BY NoneChanges DEF VectorGetAt
<1>3. CASE ~CheckIndex(h, index)
  <2>1. ~Lists!Within(h, index)
    BY <1>1, <1>3, WithinIs
  <2> QED BY <1>2, <1>3, <2>1
        DEF VectorGetAt, ReturnsAt, Lists!GetAt, Lists!ReturnsAt, Abs
<1>4. CASE CheckIndex(h, index)
  <2> DEFINE b == vec[h].container
             n == vec[h].length
  <2>1. Lists!Within(h, index)
    BY <1>1, <1>4, WithinIs
  <2>2. /\ n \in Nat /\ \A i \in 1 .. n : i - 1 \in DOMAIN heap[b]
        /\ Elements(h) = [i \in 1 .. n |-> heap[b][i - 1]]
    BY <1>4, ElementsAre DEF CheckIndex
  <2>3. index < n /\ heap[b] # NULL
    BY <1>4 DEF CheckIndex, BoundedInv, Inv, Separate, Live, Held
  <2>4. /\ index \in DOMAIN heap[b] /\ index + 1 \in 1 .. n
        /\ (index + 1) - 1 = index
    <3>1. index + 1 \in 1 .. n /\ (index + 1) - 1 = index
      <4> HIDE DEF n
      <4> QED BY <1>1, <2>2, <2>3
    <3> HIDE DEF n, b
    <3>2. (index + 1) - 1 \in DOMAIN heap[b]
      BY <2>2, <3>1
    <3> QED BY <3>1, <3>2
  <2>5. Abs[h][index + 1] = heap[b][index]
    <3>1. Abs[h] = Elements(h)
      BY DEF Abs
    <3> HIDE DEF n, b
    <3> QED BY <2>2, <2>4, <3>1
  <2>6. Read(heap, Pointer(h, index)) = {heap[b][index]}
    BY <2>3, <2>4 DEF Read, Points, Pointer
  <2>7. ReturnsAt("vectorGetAt", h, index, heap[b][index])
    <3>1. ptr' = Pointer(h, index)
      BY <1>4 DEF VectorGetAt
    <3>2. \E data \in Read(heap, ptr') : ReturnsAt("vectorGetAt", h, index, data)
      BY <1>4 DEF VectorGetAt
    <3> HIDE DEF b
    <3> QED BY <2>6, <3>1, <3>2
  <2> HIDE DEF b
  <2> QED BY <1>2, <2>1, <2>5, <2>7
        DEF ReturnsAt, Lists!GetAt, Lists!ReturnsAt, Abs
<1> QED BY <1>3, <1>4

LEMMA ExtendStep ==
  ASSUME BoundedInv, NEW h \in Handle, vec[h] # NULL, NEW grown \in Expanded(vec[h]),
         NEW data, NEW at, Prepended(h, grown, data, at)
  PROVE  Lists!Extend(h, data, at)
<1>1. Lists!Open(h) /\ Abs[h] = Elements(h)
  BY OpenIs
<1>2. /\ Short' = Short
      /\ \/ Abs' = Abs /\ Adds(at, FALSE)
         \/ /\ Abs' = [Abs EXCEPT ![h] = Append(Abs[h], data)]
            /\ Adds(at, TRUE)
         \/ Abs' = Abs /\ Adds(at, Undefined) /\ Wraps(vec[h].capacity)
  BY <1>1, PrependedList
<1>3. Wraps(vec[h].capacity) => Short[h]
  BY DEF Short
<1> QED BY <1>1, <1>2, <1>3 DEF Adds, Lists!Extend, Lists!Adds, Lists!Becomes, Abs

LEMMA PrependElementStep ==
  ASSUME BoundedInv, NEW h \in Handle, VectorPrependElement(h)
  PROVE  \E source \in Handle :
           /\ Lists!Open(source)
           /\ \E i \in DOMAIN Abs[source] : Lists!PrependElement(h, source, i - 1)
<1>1. vec[h] # NULL /\ ptr # NULL
  BY DEF VectorPrependElement
<1>2. PICK source \in Handle, grown \in Expanded(vec[h]) :
        /\ ElementOf(ptr, vec[source])
        /\ \/ \E data \in Read(grown.memory, ptr) :
                Prepended(h, grown, data, <<h, source, ptr.index>>)
           \/ /\ ~Points(grown.memory, ptr)
              /\ Adds(<<h, source, ptr.index>>, Undefined)
              /\ UNCHANGED <<vec, heap, ptr>>
  BY DEF VectorPrependElement
<1> DEFINE index == ptr.index
           at == <<h, source, index>>
           element == heap[ptr.buffer][index]
<1>3. /\ vec[source] # NULL /\ index \in Nat /\ index < vec[source].length
      /\ Elements(source)[index + 1] = element
      /\ Read(grown.memory, ptr) \subseteq Datum
      /\ source # h => /\ Points(grown.memory, ptr)
                       /\ Read(grown.memory, ptr) = {element}
  BY <1>1, <1>2, ReadsValue
<1>4. Lists!Open(source) /\ Abs[source] = Elements(source)
  BY <1>3, OpenIs
<1>5. Lists!Within(source, index)
  BY <1>3, WithinIs DEF CheckIndex
<1>6. Lists!PrependElement(h, source, index)
  <2>1. CASE \E data \in Read(grown.memory, ptr) : Prepended(h, grown, data, at)
    <3>1. PICK data \in Read(grown.memory, ptr) : Prepended(h, grown, data, at)
      BY <2>1
    <3>2. data \in Datum /\ (source # h => data = Abs[source][index + 1])
      BY <1>3, <1>4, <3>1
    <3>3. Lists!Extend(h, data, at)
      BY <1>1, <1>2, <3>1, ExtendStep
    <3> QED BY <1>5, <3>2, <3>3 DEF Lists!PrependElement, Abs
  <2>2. CASE ~Points(grown.memory, ptr) /\ Adds(at, Undefined) /\ UNCHANGED <<vec, heap>>
    <3>1. source = h /\ Abs' = Abs /\ Short' = Short
      BY <1>3, <2>2, NoneChanges
    <3> QED BY <1>5, <2>2, <3>1 DEF Adds, Lists!PrependElement, Lists!Adds, Abs
  <2> QED BY <1>2, <2>1, <2>2
<1>7. index + 1 \in DOMAIN Abs[source] /\ (index + 1) - 1 = index
  <2>1. DOMAIN Elements(source) = 1 .. vec[source].length /\ vec[source].length \in Nat
    BY <1>3, ElementsAre
  <2> HIDE DEF index
  <2> QED BY <1>3, <1>4, <2>1
<1> HIDE DEF index
<1>8. \E i \in DOMAIN Abs[source] : Lists!PrependElement(h, source, i - 1)
  BY <1>6, <1>7, Zenon
<1> QED BY <1>4, <1>8

LEMMA UpdateStep ==
  ASSUME BoundedInv, NEW h \in Handle, NEW data \in Datum, NEW index \in Index,
         VectorUpdate(h, data, index)
  PROVE  Lists!Update(h, data, index)
<1>1. index \in Nat
  BY VectorAssumption
<1>2. CASE ~CheckIndex(h, index)
  <2>1. ~Lists!Within(h, index)
    BY <1>1, <1>2, WithinIs
  <2>2. Abs' = Abs /\ Short' = Short /\ ReturnsAt("vectorUpdate", h, index, NULL)
    BY <1>2, NoneChanges DEF VectorUpdate
  <2> QED BY <2>1, <2>2 DEF ReturnsAt, Lists!Update, Lists!ReturnsAt, Abs
<1>3. CASE CheckIndex(h, index)
  <2>1. Lists!Within(h, index)
    BY <1>1, <1>3, WithinIs
  <2>2. ReturnsAt("vectorUpdate", h, index, data)
    BY <1>3 DEF VectorUpdate
  <2>3. Abs' = [Abs EXCEPT ![h] = [Abs[h] EXCEPT ![index + 1] = data]]
    <3>1. Abs' = [Abs EXCEPT ![h] = [Elements(h) EXCEPT ![index + 1] = data]]
      BY <1>1, <1>3, UpdatedList DEF VectorUpdate, CheckIndex
    <3> QED BY <3>1, OpenIs
  <2>4. Short' = Short
    BY <1>3 DEF Short, VectorUpdate
  <2> QED BY <2>1, <2>2, <2>3, <2>4
        DEF ReturnsAt, Lists!Update, Lists!ReturnsAt, Lists!Becomes, Abs
<1> QED BY <1>2, <1>3

LEMMA AbstractStep ==
  ASSUME BoundedInv, [Next]_vars
  PROVE  [Lists!Next]_(Lists!vars)
<1>0. CASE Stopped \/ UNCHANGED vars
  <2>1. UNCHANGED vars
    BY <1>0 DEF Stopped
  <2>2. Abs' = Abs /\ Short' = Short /\ ret' = ret
    BY <2>1, NoneChanges DEF vars
  <2> QED BY <2>2 DEF Lists!vars, Abs
<1>1. Ready => Lists!Ready
  BY DEF Ready, Lists!Ready
<1>2. ASSUME NEW h \in Handle,
             \/ \E min_capacity \in MinCapacity : VectorCreate(h, min_capacity)
             \/ \E arr \in Arrays :
                  VectorFromArray(h, arr) \/ VectorFromValues(h, arr)
      PROVE  Lists!Next
  <2>1. Lists!Ready
    BY <1>1, <1>2 DEF VectorCreate, VectorFromArray, VectorFromValues
  <2>2. Lists!Create(h)
    BY <1>2, CreateStep
  <2> QED BY <2>1, <2>2 DEF Lists!Next
<1>3. ASSUME NEW h \in Handle, NEW source \in Handle, VectorCopy(h, source)
      PROVE  Lists!Next
  BY <1>1, <1>3, CopyStep DEF VectorCopy, Lists!Next
<1>4. ASSUME NEW h \in Handle, VectorDelete(h) PROVE Lists!Next
  <2>1. Lists!Delete(h)
    <3>1. CASE vec[h] = NULL
      <4>1. Abs' = Abs /\ Returns("vectorDelete", NULL)
        BY <1>4, <3>1, NoneChanges DEF VectorDelete, Refuse
      <4>2. Abs' = [Abs EXCEPT ![h] = NULL] /\ Short' = [Short EXCEPT ![h] = FALSE]
        BY <1>4, <3>1, NoneChanges DEF VectorDelete, Refuse, Abs, Elements, Short
      <4> QED BY <4>1, <4>2 DEF Returns, Lists!Delete, Lists!Becomes, Lists!Returns, Abs
    <3>2. CASE vec[h] # NULL
      <4>1. Abs' = [Abs EXCEPT ![h] = NULL] /\ Returns("vectorDelete", NULL)
        BY <1>4, <3>2, DeletedList DEF VectorDelete, Refuse
      <4>2. Short' = [Short EXCEPT ![h] = NULL # NULL /\ Wraps(NULL.capacity)]
        BY <1>4, <3>2, ShortOf DEF VectorDelete, Refuse, BoundedInv
      <4>3. Short' = [Short EXCEPT ![h] = FALSE]
        BY <4>2
      <4> QED BY <4>1, <4>3 DEF Returns, Lists!Delete, Lists!Becomes, Lists!Returns, Abs
    <3> QED BY <3>1, <3>2
  <2> QED BY <1>1, <1>4, <2>1 DEF VectorDelete, Lists!Next
<1>5. ASSUME NEW h \in Handle, NEW index \in Index, VectorGetAt(h, index)
      PROVE  Lists!Next
  BY <1>1, <1>5, GetAtStep DEF VectorGetAt, Lists!Next
<1>6. ASSUME NEW h \in Handle, VectorToArr(h) PROVE Lists!Next
  <2>1. Abs' = Abs /\ Short' = Short
    BY <1>6, NoneChanges DEF VectorToArr, Fault
  <2>2. Lists!ToArr(h)
    BY <1>6, <2>1, OpenIs
      DEF VectorToArr, Fault, Returns, Lists!ToArr, Lists!Returns, Abs
  <2> QED BY <1>1, <1>6, <2>2 DEF VectorToArr, Lists!Next
<1>7. ASSUME NEW h \in Handle, NEW data \in Datum, VectorPrepend(h, data)
      PROVE  Lists!Next
  <2>1. Lists!Prepend(h, data)
    <3>1. CASE vec[h] = NULL
      <4>1. /\ Abs' = Abs /\ Short' = Short
            /\ Returns("vectorPrepend", Undefined) /\ ~Lists!Open(h)
        BY <1>7, <3>1, NoneChanges, OpenIs DEF VectorPrepend, Fault
      <4> QED BY <4>1 DEF Returns, Lists!Prepend, Lists!Returns, Abs
    <3>2. CASE vec[h] # NULL
      BY <1>7, <3>2, ExtendStep DEF VectorPrepend, Lists!Prepend
    <3> QED BY <3>1, <3>2
  <2> QED BY <1>1, <1>7, <2>1 DEF VectorPrepend, Lists!Next
<1>8. ASSUME NEW h \in Handle, VectorPrependElement(h) PROVE Lists!Next
  <2>1. Lists!Ready
    BY <1>1, <1>8 DEF VectorPrependElement
  <2>2. PICK source \in Handle :
          /\ Lists!Open(source)
          /\ \E i \in DOMAIN Abs[source] : Lists!PrependElement(h, source, i - 1)
    BY <1>8, PrependElementStep
  <2> QED BY <2>1, <2>2 DEF Lists!Next, Abs
<1>9. ASSUME NEW h \in Handle, NEW data \in Datum, NEW index \in Index,
             VectorUpdate(h, data, index)
      PROVE  Lists!Next
  BY <1>1, <1>9, UpdateStep DEF VectorUpdate, Lists!Next
<1> QED
  BY <1>0, <1>2, <1>3, <1>4, <1>5, <1>6, <1>7, <1>8, <1>9 DEF Next

(* Overwriting an element of a sequence.                                   *)
LEMMA SequenceExcept ==
  ASSUME NEW S, NEW s \in Seq(S), NEW i, NEW d \in S
  PROVE  [s EXCEPT ![i] = d] \in Seq(S)
<1> DEFINE n == Len(s)
           t == [j \in 1 .. n |-> IF j = i THEN d ELSE s[j]]
<1>1. n \in Nat /\ DOMAIN s = 1 .. n /\ \A j \in 1 .. n : s[j] \in S
  OBVIOUS
<1>2. [s EXCEPT ![i] = d] = t
  BY <1>1
<1>3. \A j \in 1 .. n : (IF j = i THEN d ELSE s[j]) \in S
  BY <1>1
<1>4. t \in Seq(S)
  <2> HIDE DEF n
  <2> QED BY <1>1, <1>3
<1> QED BY <1>2, <1>4

(* What ValueLists may do keeps its lists lists of values, and what its    *)
(* calls return is a value, a truth or nothing.                            *)
LEMMA ListsStayLists ==
  ASSUME AllLists, ret.result \in Results, [Lists!Next]_(Lists!vars)
  PROVE  AllLists' /\ ret'.result \in Results
<1> DEFINE Goal == AllLists' /\ ret'.result \in Results
<1>1. ASSUME Abs' = Abs PROVE AllLists'
  BY <1>1 DEF AllLists
<1>2. ASSUME NEW h \in Handle, NEW list \in Seq(Datum) \cup {NULL},
             Lists!Becomes(h, list)
      PROVE  AllLists'
  <2>1. Abs' = [Abs EXCEPT ![h] = list]
    BY <1>2 DEF Lists!Becomes, Abs
  <2>2. DOMAIN Abs = Handle
    BY DEF Abs
  <2>3. \A g \in Handle : Abs'[g] = IF g = h THEN list ELSE Abs[g]
    <3> HIDE DEF Abs
    <3> QED BY <2>1, <2>2
  <2> QED BY <2>3 DEF AllLists
<1>3. <<>> \in Seq(Datum) /\ Arrays \subseteq Seq(Datum) /\ Index \subseteq Nat
  BY VectorAssumption
<1>4. /\ TRUE \in Results /\ FALSE \in Results /\ NULL \in Results
      /\ Undefined \in Results /\ Datum \subseteq Results
  BY DEF Results
<1>5. ASSUME NEW call, NEW result \in Results,
             \/ Lists!Returns(call, result) \/ Lists!Adds(call, result)
             \/ \E h, index : Lists!ReturnsAt(call, h, index, result)
      PROVE  ret'.result \in Results
  BY <1>5 DEF Lists!Returns, Lists!Adds, Lists!ReturnsAt
<1>6. ASSUME NEW h \in Handle, NEW data \in Datum, NEW at, Lists!Extend(h, data, at)
      PROVE  Goal
  <2>1. Append(Abs[h], data) \in Seq(Datum)
    BY <1>6 DEF Lists!Extend, Lists!Open, Abs, AllLists
  <2> QED BY <1>1, <1>2, <1>4, <1>5, <1>6, <2>1 DEF Lists!Extend, Abs
<1>7. CASE \E h \in Handle : Lists!Create(h)
  <2>1. PICK h \in Handle : Lists!Create(h)
    BY <1>7
  <2>2. AllLists'
    BY <1>1, <1>2, <1>3, <2>1 DEF Lists!Create, Abs
  <2>3. ret'.result \in Results
    BY <1>4, <1>5, <2>1 DEF Lists!Create
  <2> QED BY <2>2, <2>3
<1>8. CASE \E h, source \in Handle : Lists!Copy(h, source)
  <2>1. PICK h \in Handle, source \in Handle : Lists!Copy(h, source)
    BY <1>8
  <2>2. Abs[source] \in Seq(Datum) \cup {NULL}
    BY DEF AllLists
  <2>3. AllLists'
    BY <1>1, <1>2, <2>1, <2>2 DEF Lists!Copy, Abs
  <2>4. ret'.result \in Results
    BY <1>4, <1>5, <2>1 DEF Lists!Copy
  <2> QED BY <2>3, <2>4
<1>9. CASE \E h \in Handle : Lists!Delete(h)
  BY <1>2, <1>4, <1>5, <1>9 DEF Lists!Delete
<1>10. CASE \E h \in Handle : Lists!ToArr(h)
  BY <1>1, <1>4, <1>5, <1>10 DEF Lists!ToArr, Abs
<1>11. CASE \E h \in Handle, index \in Index : Lists!GetAt(h, index)
  <2>1. PICK h \in Handle, index \in Index : Lists!GetAt(h, index)
    BY <1>11
  <2>2. Lists!Within(h, index) => Abs[h][index + 1] \in Datum
    <3>1. SUFFICES ASSUME Abs[h] \in Seq(Datum), index < Len(Abs[h])
                   PROVE  Abs[h][index + 1] \in Datum
      BY DEF Lists!Within, Lists!Open, Abs, AllLists
    <3>2. index + 1 \in 1 .. Len(Abs[h])
      BY <1>3, <3>1
    <3> QED BY <3>1, <3>2
  <2>3. ret'.result \in Results
    BY <1>4, <1>5, <2>1, <2>2 DEF Lists!GetAt, Abs
  <2> QED BY <1>1, <2>1, <2>3 DEF Lists!GetAt, Abs
<1>12. CASE \E h \in Handle, data \in Datum : Lists!Prepend(h, data)
  <2>1. PICK h \in Handle, data \in Datum : Lists!Prepend(h, data)
    BY <1>12
  <2>2. CASE Lists!Extend(h, data, <<h, data>>)
    BY <1>6, <2>2
  <2>3. CASE ~Lists!Extend(h, data, <<h, data>>)
    BY <1>1, <1>4, <1>5, <2>1, <2>3 DEF Lists!Prepend, Abs
  <2> QED BY <2>2, <2>3
<1>13. CASE \E h, source \in Handle : \E index : Lists!PrependElement(h, source, index)
  <2>1. PICK h \in Handle, source \in Handle :
          \E index : Lists!PrependElement(h, source, index)
    BY <1>13
  <2>0. PICK index : Lists!PrependElement(h, source, index)
    BY <2>1
  <2>2. CASE \E data \in Datum : Lists!Extend(h, data, <<h, source, index>>)
    BY <1>6, <2>2
  <2>3. CASE /\ Lists!Adds(<<h, source, index>>, Undefined)
             /\ UNCHANGED [g \in Handle |-> Elements(g)]
    BY <1>1, <1>4, <1>5, <2>3 DEF Abs
  <2> QED BY <2>0, <2>2, <2>3 DEF Lists!PrependElement
<1>14. CASE \E h \in Handle, index \in Index, data \in Datum :
              Lists!Update(h, data, index)
  <2>1. PICK h \in Handle, index \in Index, data \in Datum : Lists!Update(h, data, index)
    BY <1>14
  <2>2. CASE ~Lists!Within(h, index)
    BY <1>1, <1>4, <1>5, <2>1, <2>2 DEF Lists!Update, Abs
  <2>3. CASE Lists!Within(h, index)
    <3>1. Abs[h] \in Seq(Datum)
      BY <2>3 DEF Lists!Within, Lists!Open, Abs, AllLists
    <3>2. [Abs[h] EXCEPT ![index + 1] = data] \in Seq(Datum)
      BY <3>1, SequenceExcept
    <3> QED BY <1>2, <1>4, <1>5, <2>1, <2>3, <3>2 DEF Lists!Update, Abs
  <2> QED BY <2>2, <2>3
<1>15. CASE UNCHANGED Lists!vars
  BY <1>1, <1>15 DEF Lists!vars, Abs
<1> HIDE DEF Goal
<1>16. CASE Lists!Next
  BY <1>7, <1>8, <1>9, <1>10, <1>11, <1>12, <1>13, <1>14, <1>16 DEF Lists!Next, Goal
<1> QED BY <1>15, <1>16 DEF Goal

-----------------------------------------------------------------------------
(* Every call keeps the lists, whatever wraps.                             *)

LEMMA BoundedNext ==
  ASSUME BoundedInv, [Next]_vars
  PROVE  BoundedInv'
<1>1. Inv' /\ Bounded'
  BY NextInv, BoundedStep DEF BoundedInv
<1>2. AllLists' /\ ret'.result \in Results
  BY AbstractStep, ListsStayLists DEF BoundedInv
<1> QED BY <1>1, <1>2 DEF BoundedInv

LEMMA BoundedInvariance == Spec => []BoundedInv
<1>1. Init => BoundedInv
  <2>1. Init => AllLists
    BY DEF Init, AllLists, Abs, Elements
  <2> QED BY <2>1, InitInv DEF BoundedInv, Init, Bounded, Held, Results
<1>2. BoundedInv /\ [Next]_vars => BoundedInv'
  BY BoundedNext
<1> QED BY <1>1, <1>2, PTL DEF Spec

(* A vector never counts more elements than its capacity, and no call      *)
(* hands out an element nobody has written, whatever grows, fails to grow  *)
(* or overflows.                                                           *)
THEOREM TypeCorrect == Spec => []TypeOK
<1>1. BoundedInv => TypeOK
  <2> SUFFICES ASSUME BoundedInv PROVE TypeOK
    OBVIOUS
  <2>1. ASSUME NEW h \in Held
        PROVE  /\ vec[h] \in [capacity : Nat \ {0}, length : Nat, container : Buffer]
               /\ vec[h].length <= vec[h].capacity
    <3> DEFINE c == vec[h].capacity
               n == vec[h].length
               room == Room(c)
    <3>1. vec[h] \in VectorStruct /\ c \in Capacity /\ n \in Nat
      BY DEF BoundedInv, Inv, Held, VectorStruct
    <3>2. c \in Nat \ {0} /\ room \in Nat /\ room <= c
      BY <3>1, RoomWithin
    <3>3. n <= room
      BY DEF BoundedInv, Bounded
    <3>4. n <= c
      <4> HIDE DEF c, n, room
      <4> QED BY <3>1, <3>2, <3>3
    <3> QED BY <3>1, <3>2, <3>4 DEF VectorStruct
  <2>2. ASSUME NEW b \in Buffer, Live(b)
        PROVE  heap[b] \in [DOMAIN heap[b] -> Datum \cup {Garbage}]
    <3>1. heap[b] \in Memory
      BY <2>2 DEF BoundedInv, Inv, Live
    <3> QED BY <3>1 DEF Memory
  <2> QED BY <2>1, <2>2 DEF TypeOK, BoundedInv, Inv, Results
<1> QED BY BoundedInvariance, <1>1, PTL

(* Where the element that is added comes from.                             *)
LEMMA KeptStep ==
  ASSUME BoundedInv,
         NEW h \in Handle, VectorPrependElement(h), ret'.result = TRUE,
         vec'[h].capacity = vec[h].capacity \/ ~ElementOf(ptr, vec[h])
  PROVE  heap'[vec'[h].container][vec[h].length] = heap[ptr.buffer][ptr.index]
<1> DEFINE element == heap[ptr.buffer][ptr.index]
<1>1. vec[h] # NULL /\ vec[h] \in VectorStruct /\ ptr # NULL
  BY DEF VectorPrependElement, BoundedInv, Inv
<1>2. ASSUME NEW at PROVE ~Adds(at, Undefined) /\ ~Adds(at, FALSE)
  <2>1. Adds(at, Undefined) => ret'.result = Undefined
    BY DEF Adds
  <2>2. ret'.result \in BOOLEAN /\ ret'.result # FALSE
    OBVIOUS
  <2>3. Undefined \notin BOOLEAN
    BY VectorAssumption
  <2>4. ~Adds(at, Undefined)
    BY <2>1, <2>2, <2>3, Zenon
  <2>5. Adds(at, FALSE) => ret'.result = FALSE
    BY DEF Adds
  <2> QED BY <2>2, <2>4, <2>5
<1>3. PICK source \in Handle, grown \in Expanded(vec[h]) :
        /\ ElementOf(ptr, vec[source])
        /\ \E data \in Read(grown.memory, ptr) :
             Prepended(h, grown, data, <<h, source, ptr.index>>)
  BY <1>2 DEF VectorPrependElement
<1>4. PICK data \in Read(grown.memory, ptr) :
        Prepended(h, grown, data, <<h, source, ptr.index>>)
  BY <1>3
<1> DEFINE v == grown.struct
           b == v.container
           m == grown.memory
<1>5. /\ v \in VectorStruct /\ v.length = vec[h].length /\ b \in Buffer
      /\ Moved(h, b, m[b], m)
      /\ v = vec[h] \/ v.capacity > vec[h].capacity
  BY <1>1, ExpandedSound DEF BoundedInv
<1>6. /\ v.length \in DOMAIN m[b]
      /\ vec' = [vec EXCEPT ![h] = [v EXCEPT !.length = v.length + 1]]
      /\ heap' = [m EXCEPT ![b][v.length] = data]
  <2> HIDE DEF v, b, m
  <2> QED BY <1>2, <1>4 DEF Prepended, v, b, m
<1>7. vec'[h].capacity = v.capacity /\ vec'[h].container = b
  <2>1. /\ [v EXCEPT !.length = v.length + 1].capacity = v.capacity
        /\ [v EXCEPT !.length = v.length + 1].container = v.container
    BY <1>5 DEF VectorStruct
  <2> HIDE DEF v
  <2> QED BY <1>6, <2>1 DEF BoundedInv, Inv
<1>8. heap'[b][v.length] = data
  <2>1. m \in [Buffer -> Memory \cup {NULL}]
    BY <1>5 DEF Moved
  <2> HIDE DEF v, b, m
  <2> QED BY <1>5, <1>6, <2>1
<1>9. source # h \/ v = vec[h]
  <2>1. vec[h].capacity \in Nat
    BY <1>1, SpanIsPositive DEF VectorStruct, Capacity
  <2>2. v # vec[h] => vec'[h].capacity # vec[h].capacity
    <3> HIDE DEF v
    <3> QED BY <1>5, <1>7, <2>1
  <2> HIDE DEF v
  <2> QED BY <1>3, <2>2
<1>10. data = element
  <2>1. Read(m, ptr) = {element}
    BY <1>1, <1>3, <1>9, ReadsValue
  <2> QED BY <1>4, <2>1
<1> QED BY <1>5, <1>7, <1>8, <1>10

(* An element passed back to vectorPrepend is added as it is, unless its   *)
(* own vector grows in that call.                                          *)
THEOREM ElementsKept ==
  Spec => ElementKept
<1> DEFINE Kept ==
      \A h \in Handle :
        /\ VectorPrependElement(h) /\ ret'.result = TRUE
        /\ vec'[h].capacity = vec[h].capacity \/ ~ElementOf(ptr, vec[h])
        => heap'[vec'[h].container][vec[h].length] = heap[ptr.buffer][ptr.index]
<1>1. BoundedInv /\ [Next]_vars => Kept
  BY KeptStep
<1>2. Spec => [][Kept]_vars
  BY BoundedInvariance, <1>1, PTL DEF Spec
<1> QED BY <1>2 DEF ElementKept

(* What a client sees of the vectors, through growth, moves and failures,  *)
(* is what it would see of independent lists of values.                    *)
THEOREM VectorsAreLists ==
  Spec => ImplementsLists
<1>1. Init => Lists!Init
  BY DEF Init, Lists!Init, Elements, Short
<1>2. BoundedInv /\ [Next]_vars => [Lists!Next]_(Lists!vars)
  BY AbstractStep
<1>3. Spec => Lists!Spec
  BY BoundedInvariance, <1>1, <1>2, PTL DEF Spec, Lists!Spec
<1> QED BY <1>3 DEF ImplementsLists

-----------------------------------------------------------------------------
(* The tuple on the heap of the vectors.  What a step of Vector does is    *)
(* known by now: it leaves alone the buffers no vector owns, of which the  *)
(* tuple has the only one.                                                 *)

TupleStruct ==
  [data_size : {0, DATA_SIZE}, length : 0 .. SizeSpan - 1, container : Buffer]

TupleBlock ==
  tuple # NULL =>
    /\ tuple \in TupleStruct
    /\ tuple.data_size = 0 <=> tuple.length = 0
    /\ heap[tuple.container] \in [0 .. tuple.length - 1 -> Datum]

OnlyTuple == Foreign = IF tuple = NULL THEN {} ELSE {tuple.container}

TupleInv == BoundedInv /\ TupleBlock /\ OnlyTuple

-----------------------------------------------------------------------------

(* The values of a tuple are a list as long as the tuple.                  *)
LEMMA TupleValues ==
  ASSUME TupleBlock, tuple # NULL
  PROVE  /\ tuple.length \in Nat /\ tuple.length < SizeSpan
         /\ Values(tuple) = [i \in 1 .. tuple.length |-> heap[tuple.container][i - 1]]
         /\ Values(tuple) \in Seq(Datum)
         /\ Len(Values(tuple)) = tuple.length
         /\ Values(tuple) # NULL
<1> DEFINE n == tuple.length
           m == heap[tuple.container]
           list == [i \in 1 .. n |-> m[i - 1]]
<1>1. n \in 0 .. SizeSpan - 1 /\ SizeSpan \in Nat \ {0}
  BY SpanIsPositive DEF TupleBlock, TupleStruct
<1>2. m \in [0 .. n - 1 -> Datum]
  BY DEF TupleBlock
<1>3. list = Values(tuple)
  BY DEF Values
<1> HIDE DEF n, m
<1>4. \A i \in 1 .. n : i - 1 \in 0 .. n - 1
  BY <1>1
<1>5. \A i \in 1 .. n : m[i - 1] \in Datum
  BY <1>2, <1>4
<1>6. list \in Seq(Datum) /\ Len(list) = n
  BY <1>1, <1>5
<1>7. list # NULL
  <2>1. n \in 0 .. SizeSpan /\ 1 + n - 1 = n
    BY <1>1
  <2>2. list \in [1 .. n -> Datum \cup {Garbage}]
    BY <1>5
  <2>3. NULL \notin [1 .. 1 + n - 1 -> Datum \cup {Garbage}]
    BY <2>1, VectorAssumption
  <2> HIDE DEF list
  <2> QED BY <2>1, <2>2, <2>3
<1> HIDE DEF list
<1> QED BY <1>1, <1>3, <1>6, <1>7 DEF n, m, list

(* A call on a vector.                                                     *)
LEMMA VectorCall ==
  ASSUME TupleInv,
         [Next]_vars, UNCHANGED tuple
  PROVE  TupleInv' /\ (tuple # NULL => Values(tuple)' = Values(tuple))
<1>1. BoundedInv' /\ Undisturbed
  BY NextInv, BoundedNext DEF TupleInv, BoundedInv
<1>3. tuple # NULL => heap'[tuple.container] = heap[tuple.container]
  BY <1>1 DEF TupleInv, OnlyTuple, Undisturbed
<1>4. TupleBlock'
  BY <1>3 DEF TupleInv, TupleBlock
<1>5. OnlyTuple'
  BY <1>1 DEF TupleInv, OnlyTuple, Undisturbed
<1> QED BY <1>1, <1>3, <1>4, <1>5 DEF TupleInv, Values

-----------------------------------------------------------------------------
(* The calls on the tuple.                                                 *)

(* One that changes neither heap nor structs.                              *)
LEMMA Unaltered ==
  ASSUME TupleInv, UNCHANGED <<vec, heap, tuple>>, ret'.result \in Results,
         ptr' \in {NULL} \cup [buffer : Buffer, index : Nat]
  PROVE  /\ TupleInv' /\ Abs' = Abs /\ Short' = Short
         /\ tuple # NULL => Values(tuple)' = Values(tuple)
<1>1. Inv' /\ Undisturbed /\ Abs' = Abs /\ Short' = Short
  BY SameInv, NoneChanges DEF TupleInv, BoundedInv
<1>2. BoundedInv'
  BY <1>1 DEF TupleInv, BoundedInv, Bounded, Held, AllLists
<1>3. TupleBlock' /\ OnlyTuple'
  BY <1>1 DEF TupleInv, TupleBlock, OnlyTuple, Undisturbed
<1> QED BY <1>1, <1>2, <1>3 DEF TupleInv, Values

(* A block that belongs to no vector is allocated or freed.                *)
LEMMA OutsideVectors ==
  ASSUME BoundedInv, NEW b \in Buffer, \A h \in Held : vec[h].container # b,
         NEW m \in Memory \cup {NULL}, heap' = [heap EXCEPT ![b] = m],
         UNCHANGED <<vec, ptr>>, ret'.result \in Results
  PROVE  /\ BoundedInv' /\ Abs' = Abs /\ Short' = Short
         /\ heap'[b] = m
         /\ Foreign' = IF m = NULL THEN Foreign \ {b} ELSE Foreign \cup {b}
<1>1. /\ heap' \in [Buffer -> Memory \cup {NULL}] /\ heap'[b] = m
      /\ \A c \in Buffer \ {b} : heap'[c] = heap[c]
  BY DEF BoundedInv, Inv
<1>2. Held' = Held
  BY DEF Held
<1>3. \A h \in Held : /\ vec[h].container \in Buffer \ {b}
                      /\ heap'[vec[h].container] = heap[vec[h].container]
  BY <1>1 DEF BoundedInv, Inv, Held, VectorStruct
<1>4. Separate' /\ Roomy'
  BY <1>2, <1>3 DEF BoundedInv, Inv, Separate, Roomy, Live
<1>5. Short' = Short
  BY DEF Short
<1>6. ASSUME NEW h \in Handle PROVE Elements(h)' = Elements(h)
  <2>1. CASE vec[h] = NULL
    BY <2>1 DEF Elements
  <2>2. CASE vec[h] # NULL
    <3>1. heap'[vec[h].container] = heap[vec[h].container]
      BY <1>3, <2>2 DEF Held
    <3> QED BY <2>2, <3>1 DEF Elements
  <2> QED BY <2>1, <2>2
<1>7. Abs' = Abs
  BY <1>6 DEF Abs
<1>8. Foreign' = IF m = NULL THEN Foreign \ {b} ELSE Foreign \cup {b}
  BY <1>1, <1>2 DEF Foreign, Live
<1>9. BoundedInv'
  BY <1>1, <1>2, <1>4, <1>7 DEF BoundedInv, Inv, Bounded, AllLists
<1> QED BY <1>1, <1>5, <1>7, <1>8, <1>9

LEMMA NewTupleStep ==
  ASSUME TupleInv, tuple = NULL, NEW values \in Seq(Datum), Len(values) < SizeSpan,
         NEW data_size \in {0, DATA_SIZE}, NewTuple(data_size, values),
         UNCHANGED ptr, ret'.result \in Results
  PROVE  /\ TupleInv' /\ Abs' = Abs /\ Short' = Short
         /\ tuple' # NULL
         /\ Values(tuple)' = IF data_size = 0 THEN <<>> ELSE values
<1> DEFINE length == IF data_size = 0 THEN 0 ELSE Len(values)
           size == IF length = 0 THEN 0 ELSE data_size
           m == [i \in 0 .. length - 1 |-> values[i + 1]]
<1>1. PICK b \in Buffer :
        /\ ~Live(b)
        /\ tuple' = [data_size |-> size, length |-> length, container |-> b]
        /\ heap' = [heap EXCEPT ![b] = m]
        /\ UNCHANGED vec
  BY DEF NewTuple
<1>2. /\ Len(values) \in Nat /\ SizeSpan \in Nat \ {0}
      /\ DATA_SIZE \in Nat \ {0}
  BY SpanIsPositive, VectorAssumption
<1>3. length \in 0 .. SizeSpan - 1 /\ length \in 0 .. Len(values)
  BY <1>2
<1>4. size \in {0, DATA_SIZE} /\ (size = 0 <=> length = 0)
  BY <1>2
<1>5. m \in [0 .. length - 1 -> Datum]
  <2>1. \A i \in 0 .. length - 1 : i + 1 \in 1 .. Len(values)
    <3> HIDE DEF length
    <3> QED BY <1>2, <1>3
  <2> HIDE DEF length
  <2> QED BY <2>1
<1>6. /\ tuple' \in TupleStruct /\ tuple' # NULL
      /\ tuple'.length = length /\ tuple'.data_size = size /\ tuple'.container = b
  <2>1. tuple' \in TupleStruct
    <3> HIDE DEF length, size
    <3> QED BY <1>1, <1>3, <1>4 DEF TupleStruct
  <2>2. tuple' \in [data_size : {0, DATA_SIZE}, length : Nat, container : Buffer]
    BY <1>2, <2>1 DEF TupleStruct
  <2> HIDE DEF length, size
  <2> QED BY <1>1, <2>1, <2>2, TupleAssumption
<1>7. m \in Memory /\ m # NULL
  <2>1. length \in 0 .. SizeSpan
    <3> HIDE DEF length
    <3> QED BY <1>2, <1>3
  <2>2. m \in [0 .. length - 1 -> Datum \cup {Garbage}]
    <3> HIDE DEF length, m
    <3> QED BY <1>5
  <2> HIDE DEF m, length
  <2> QED BY <2>1, <2>2, NullIsNone DEF Memory
<1>8. \A h \in Held : vec[h].container # b
  BY <1>1 DEF TupleInv, BoundedInv, Inv, Separate
<1>9. /\ BoundedInv' /\ Abs' = Abs /\ Short' = Short /\ heap'[b] = m
      /\ Foreign' = Foreign \cup {b}
  <2> HIDE DEF m
  <2> QED BY <1>1, <1>7, <1>8, OutsideVectors DEF TupleInv
<1> HIDE DEF m, length, size
<1>11. TupleBlock'
  BY <1>4, <1>5, <1>6, <1>9 DEF TupleBlock
<1>12. OnlyTuple'
  BY <1>6, <1>9 DEF TupleInv, OnlyTuple
<1>13. Values(tuple)' = [i \in 1 .. length |-> m[i - 1]]
  BY <1>6, <1>9 DEF Values
<1>14. \A i \in 1 .. length : m[i - 1] = values[i]
  <2>1. \A i \in 1 .. length : i - 1 \in 0 .. length - 1 /\ (i - 1) + 1 = i
    BY <1>3
  <2> QED BY <2>1 DEF m
<1>15. Values(tuple)' = [i \in 1 .. length |-> values[i]]
  BY <1>13, <1>14
<1>16. CASE data_size = 0
  <2>1. length = 0
    BY <1>16 DEF length
  <2>2. Values(tuple)' = <<>>
    BY <1>15, <2>1
  <2> QED BY <1>6, <1>9, <1>11, <1>12, <1>16, <2>2 DEF TupleInv
<1>17. CASE data_size # 0
  <2>1. length = Len(values)
    BY <1>17 DEF length
  <2>2. Values(tuple)' = values
    BY <1>15, <2>1
  <2> QED BY <1>6, <1>9, <1>11, <1>12, <1>17, <2>2 DEF TupleInv
<1> QED BY <1>16, <1>17

(* What FrozenLists sees of the tuple.                                     *)
AbsTuple == IF tuple = NULL THEN NULL ELSE Values(tuple)

LEMMA AbsTupleIs ==
  ASSUME TupleBlock
  PROVE  /\ AbsTuple = NULL <=> tuple = NULL
         /\ tuple # NULL => AbsTuple = Values(tuple)
BY TupleValues DEF AbsTuple

LEMMA TruthsAreResults ==
  /\ TRUE \in Results /\ FALSE \in Results
  /\ NULL \in Results /\ Undefined \in Results
BY DEF Results

(* A call that is refused, or that dereferences a null pointer.            *)
LEMMA UnmovedStep ==
  ASSUME TupleInv, NEW call, NEW result \in Results, Unmoved(call, result)
  PROVE  /\ TupleInv' /\ Abs' = Abs /\ Short' = Short /\ AbsTuple' = AbsTuple
         /\ Frozen!Returns(call, result)
<1>1. /\ UNCHANGED <<vec, heap, ptr, tuple>>
      /\ ret' = [call |-> call, at |-> NULL, result |-> result]
  BY DEF Unmoved, Refuse, Returns
<1>2. ret'.result \in Results /\ ptr' \in {NULL} \cup [buffer : Buffer, index : Nat]
  BY <1>1 DEF TupleInv, BoundedInv, Inv
<1>3. /\ TupleInv' /\ Abs' = Abs /\ Short' = Short
      /\ tuple # NULL => Values(tuple)' = Values(tuple)
  BY <1>1, <1>2, Unaltered
<1>4. AbsTuple' = AbsTuple
  BY <1>1, <1>3 DEF AbsTuple
<1> QED BY <1>1, <1>3, <1>4 DEF Frozen!Returns

LEMMA MakeStep ==
  ASSUME TupleInv, NEW call, NEW values \in Seq(Datum), Len(values) < SizeSpan,
         NEW data_size \in {0, DATA_SIZE}, Make(call, data_size, values)
  PROVE  /\ TupleInv'
         /\ Frozen!Freeze(call, IF data_size = 0 THEN <<>> ELSE values)
<1>1. tuple = NULL /\ AbsTuple = NULL
  BY DEF Make, AbsTuple
<1>2. CASE Unmoved(call, FALSE)
  <2>1. /\ TupleInv' /\ Abs' = Abs /\ Short' = Short /\ AbsTuple' = AbsTuple
        /\ Frozen!Returns(call, FALSE)
    BY <1>2, UnmovedStep, TruthsAreResults
  <2> QED BY <1>1, <2>1 DEF Frozen!Freeze, Abs, AbsTuple
<1>3. CASE NewTuple(data_size, values) /\ Returns(call, TRUE) /\ UNCHANGED ptr
  <2>1. ret'.result \in Results /\ Frozen!Returns(call, TRUE)
    BY <1>3, TruthsAreResults DEF Returns, Frozen!Returns
  <2>2. /\ TupleInv' /\ Abs' = Abs /\ Short' = Short /\ tuple' # NULL
        /\ Values(tuple)' = IF data_size = 0 THEN <<>> ELSE values
    BY <1>1, <1>3, <2>1, NewTupleStep
  <2>3. AbsTuple' = IF data_size = 0 THEN <<>> ELSE values
    BY <2>2 DEF AbsTuple
  <2> QED BY <1>1, <2>1, <2>2, <2>3 DEF Frozen!Freeze, Abs, AbsTuple
<1> QED BY <1>2, <1>3 DEF Make

LEMMA FreezeVectorStep ==
  ASSUME TupleInv,
         NEW h \in Handle, VectorToTuple(h)
  PROVE  TupleInv' /\ Frozen!Ready /\ Frozen!FreezeVector(h)
<1>0. Frozen!Ready
  BY DEF VectorToTuple, Make, Ready, Frozen!Ready
<1>1. /\ Abs[h] = Elements(h)
      /\ Frozen!Open(h) <=> vec[h] # NULL
  <2>1. Lists!Open(h) <=> Frozen!Open(h)
    BY DEF Lists!Open, Frozen!Open
  <2> QED BY <2>1, OpenIs DEF TupleInv
<1>2. CASE vec[h] = NULL /\ Unmoved("vectorToTuple", Undefined)
  <2>1. /\ TupleInv' /\ Abs' = Abs /\ Short' = Short /\ AbsTuple' = AbsTuple
        /\ Frozen!Returns("vectorToTuple", Undefined)
    BY <1>2, UnmovedStep, TruthsAreResults
  <2> QED BY <1>0, <1>1, <1>2, <2>1 DEF Frozen!FreezeVector, Abs, AbsTuple
<1>3. CASE /\ vec[h] # NULL
           /\ Make("vectorToTuple", DATA_SIZE, Values(vec[h]))
  <2>1. Values(vec[h]) = Elements(h)
    BY <1>3 DEF Values, Elements
  <2>2. /\ Elements(h) \in Seq(Datum)
        /\ Len(Elements(h)) < SizeSpan
    BY <1>3, ElementsAre DEF TupleInv
  <2>3. DATA_SIZE # 0
    BY VectorAssumption
  <2>4. TupleInv' /\ Frozen!Freeze("vectorToTuple", Abs[h])
    BY <1>1, <1>3, <2>1, <2>2, <2>3, MakeStep
  <2> QED BY <1>0, <1>1, <1>3, <2>4 DEF Frozen!FreezeVector, Abs
<1> QED BY <1>2, <1>3 DEF VectorToTuple

LEMMA ThawStep ==
  ASSUME TupleInv,
         NEW h \in Handle, TupleToVector(h)
  PROVE  TupleInv' /\ Frozen!Ready /\ Frozen!Thaw(h)
<1>0. Frozen!Ready /\ vec[h] = NULL
  BY DEF TupleToVector, Ready, Frozen!Ready
<1>1. ~Frozen!Open(h)
  <2>1. Lists!Open(h) <=> Frozen!Open(h)
    BY DEF Lists!Open, Frozen!Open
  <2> QED BY <1>0, <2>1, OpenIs DEF TupleInv
<1>2. AbsTuple = NULL <=> tuple = NULL
  BY AbsTupleIs DEF TupleInv
<1>3. CASE tuple = NULL /\ Unmoved("tupleToVector", Undefined)
  <2>1. /\ TupleInv' /\ Abs' = Abs /\ Short' = Short /\ AbsTuple' = AbsTuple
        /\ Frozen!Returns("tupleToVector", Undefined)
    BY <1>3, UnmovedStep, TruthsAreResults
  <2> QED BY <1>0, <1>1, <1>2, <1>3, <2>1 DEF Frozen!Thaw, Abs, AbsTuple
<1>4. CASE tuple # NULL /\ Unmoved("tupleToVector", FALSE)
  <2>1. /\ TupleInv' /\ Abs' = Abs /\ Short' = Short /\ AbsTuple' = AbsTuple
        /\ Frozen!Returns("tupleToVector", FALSE)
    BY <1>4, UnmovedStep, TruthsAreResults
  <2> QED BY <1>0, <1>1, <1>2, <1>4, <2>1 DEF Frozen!Thaw, Abs, AbsTuple
<1>5. CASE /\ tuple # NULL
           /\ New(h, tuple.length, Values(tuple))
           /\ Returns("tupleToVector", TRUE)
           /\ UNCHANGED tuple
  <2> DEFINE list == Values(tuple)
             n == tuple.length
  <2>1. list \in Seq(Datum) /\ Len(list) = n /\ n \in Nat /\ AbsTuple = list
    BY <1>5, TupleValues DEF TupleInv, AbsTuple
  <2>2. New(h, n, list) /\ Len(list) <= n
    BY <1>5, <2>1
  <2>3. n # 0 /\ list # <<>>
    BY <2>1, <2>2 DEF New
  <2>4. ret'.result \in Results /\ Frozen!Returns("tupleToVector", TRUE)
    BY <1>5, TruthsAreResults DEF Returns, Frozen!Returns
  <2> HIDE DEF list, n
  <2>5. Inv' /\ Undisturbed
    BY <1>0, <2>1, <2>2, NewInv DEF TupleInv, BoundedInv
  <2>6. Abs' = [Abs EXCEPT ![h] = list]
    BY <1>0, <2>1, <2>2, NewList DEF TupleInv
  <2>7. heap'[tuple.container] = heap[tuple.container]
    BY <1>5, <2>5 DEF TupleInv, OnlyTuple, Undisturbed
  <2>8. AllLists' /\ Bounded'
    <3>1. \A g \in Handle : Abs'[g] = IF g = h THEN list ELSE Abs[g]
      <4>1. DOMAIN Abs = Handle
        BY DEF Abs
      <4> HIDE DEF Abs
      <4> QED BY <2>6, <4>1
    <3>2. AllLists'
      BY <2>1, <3>1 DEF TupleInv, BoundedInv, AllLists
    <3>3. Bounded'
      <4>0. PICK capacity \in Capacities(n), b \in Buffer :
              /\ Len(list) <= Room(capacity)
              /\ vec' = [vec EXCEPT ![h] = [capacity |-> capacity, length |-> Len(list),
                                            container |-> b]]
        BY <2>2 DEF New
      <4> DEFINE s == [capacity |-> capacity, length |-> Len(list), container |-> b]
      <4>1. vec' = [vec EXCEPT ![h] = s] /\ s.length <= Room(s.capacity)
        BY <4>0
      <4> HIDE DEF s
      <4> QED BY <4>1 DEF TupleInv, BoundedInv, Inv, Bounded, Held
    <3> QED BY <3>2, <3>3
  <2>9. TupleBlock' /\ OnlyTuple'
    BY <1>5, <2>5, <2>7 DEF TupleInv, TupleBlock, OnlyTuple, Undisturbed
  <2>10. AbsTuple' = AbsTuple
    BY <1>5, <2>7 DEF AbsTuple, Values
  <2>11. TupleInv'
    BY <2>4, <2>5, <2>8, <2>9 DEF TupleInv, BoundedInv
  <2>12. Frozen!Becomes(h, AbsTuple)
    BY <2>1, <2>6 DEF Frozen!Becomes, Abs
  <2>13. AbsTuple # NULL /\ AbsTuple # <<>>
    BY <1>2, <1>5, <2>1, <2>3
  <2>14. Frozen!MayBeShort(h, Len(AbsTuple) \in Unsafe)
    <3>1. \/ Short' = [Short EXCEPT ![h] = FALSE]
          \/ Len(AbsTuple) \in Unsafe /\ Short' = [Short EXCEPT ![h] = TRUE]
      BY <1>0, <2>1, <2>2, NewShort DEF TupleInv
    <3>2. Len(AbsTuple) \in Unsafe => (Len(AbsTuple) \in Unsafe) = TRUE
      OBVIOUS
    <3> QED BY <3>1, <3>2 DEF Frozen!MayBeShort
  <2> QED BY <1>0, <1>1, <2>4, <2>10, <2>11, <2>12, <2>13, <2>14
        DEF Frozen!Thaw, AbsTuple
<1>6. CASE /\ tuple # NULL
           /\ Overruns(tuple.length, Values(tuple))
           /\ Unmoved("tupleToVector", Undefined)
  <2>1. /\ TupleInv' /\ Abs' = Abs /\ Short' = Short /\ AbsTuple' = AbsTuple
        /\ Frozen!Returns("tupleToVector", Undefined)
    BY <1>6, UnmovedStep, TruthsAreResults
  <2>2. Len(AbsTuple) \in Unsafe
    <3>1. /\ AbsTuple = Values(tuple) /\ Values(tuple) \in Seq(Datum)
          /\ Len(Values(tuple)) = tuple.length /\ tuple.length \in Nat
      BY <1>6, TupleValues DEF TupleInv, AbsTuple
    <3>2. tuple.length \in Unsafe
      BY <1>6, <3>1, OverrunsUnsafe
    <3> QED BY <3>1, <3>2
  <2> QED BY <1>0, <1>1, <2>1, <2>2 DEF Frozen!Thaw, Abs, AbsTuple
<1> QED BY <1>3, <1>4, <1>5, <1>6 DEF TupleToVector

LEMMA DiscardStep ==
  ASSUME TupleInv, TupleDelete
  PROVE  TupleInv' /\ Frozen!Ready /\ Frozen!Discard
<1>0. Frozen!Ready
  BY DEF TupleDelete, Ready, Frozen!Ready
<1>1. CASE tuple = NULL /\ Unmoved("tupleDelete", NULL)
  <2>1. /\ TupleInv' /\ Abs' = Abs /\ Short' = Short /\ AbsTuple' = AbsTuple
        /\ Frozen!Returns("tupleDelete", NULL)
    BY <1>1, UnmovedStep, TruthsAreResults
  <2>2. AbsTuple' = NULL
    BY <1>1, <2>1 DEF AbsTuple
  <2> QED BY <1>0, <2>1, <2>2 DEF Frozen!Discard, Abs, AbsTuple
<1>2. CASE /\ tuple # NULL /\ tuple' = NULL
           /\ heap' = [heap EXCEPT ![tuple.container] = NULL]
           /\ Returns("tupleDelete", NULL)
           /\ UNCHANGED <<vec, ptr>>
  <2>1. ret'.result \in Results /\ Frozen!Returns("tupleDelete", NULL)
    BY <1>2, TruthsAreResults DEF Returns, Frozen!Returns
  <2>2. tuple.container \in Foreign
    BY <1>2 DEF TupleInv, OnlyTuple
  <2>3. /\ BoundedInv' /\ Abs' = Abs /\ Short' = Short
        /\ Foreign' = Foreign \ {tuple.container}
    BY <1>2, <2>1, <2>2, OutsideVectors DEF TupleInv, Foreign
  <2>4. TupleBlock' /\ OnlyTuple'
    BY <1>2, <2>3 DEF TupleInv, TupleBlock, OnlyTuple
  <2>5. AbsTuple' = NULL
    BY <1>2 DEF AbsTuple
  <2> QED BY <1>0, <2>1, <2>3, <2>4, <2>5
        DEF TupleInv, Frozen!Discard, Abs, AbsTuple
<1> QED BY <1>1, <1>2 DEF TupleDelete

LEMMA ShowAtStep ==
  ASSUME TupleInv, NEW index \in Index, TupleGetAt(index)
  PROVE  TupleInv' /\ Frozen!Ready /\ Frozen!ShowAt(index)
<1>0. /\ Frozen!Ready /\ index \in Nat
      /\ UNCHANGED <<vec, heap, tuple>>
  BY VectorAssumption DEF TupleGetAt, Ready, Frozen!Ready
<1>1. AbsTuple = NULL <=> tuple = NULL
  BY AbsTupleIs DEF TupleInv
<1> DEFINE Ends(result) ==
      /\ ptr' \in {NULL} \cup [buffer : Buffer, index : Nat]
      /\ result \in Results
      /\ ReturnsAt("tupleGetAt", NULL, index, result)
<1>2. ASSUME NEW result, Ends(result)
      PROVE  TupleInv' /\ Abs' = Abs /\ Short' = Short /\ AbsTuple' = AbsTuple
  <2>1. ret'.result \in Results
    BY <1>2 DEF ReturnsAt
  <2>2. /\ TupleInv' /\ Abs' = Abs /\ Short' = Short
        /\ tuple # NULL => Values(tuple)' = Values(tuple)
    BY <1>0, <1>2, <2>1, Unaltered
  <2> QED BY <1>0, <2>2 DEF AbsTuple
<1>3. CASE ~CheckTupleIndex(index)
  <2>1. Ends(NULL)
    BY <1>3, TruthsAreResults DEF TupleGetAt
  <2>2. ~(AbsTuple # NULL /\ index < Len(AbsTuple))
    BY <1>1, <1>3, TupleValues DEF CheckTupleIndex, TupleInv, AbsTuple
  <2>3. TupleInv' /\ Abs' = Abs /\ Short' = Short /\ AbsTuple' = AbsTuple
    <3> HIDE DEF Ends
    <3> QED BY <1>2, <2>1
  <2> QED BY <1>0, <2>1, <2>2, <2>3
        DEF ReturnsAt, Frozen!ShowAt, Frozen!ReturnsAt, Abs, AbsTuple
<1>4. CASE CheckTupleIndex(index)
  <2> DEFINE b == tuple.container
             n == tuple.length
  <2>1. /\ tuple # NULL /\ index < n /\ n \in Nat
        /\ heap[b] \in [0 .. n - 1 -> Datum]
        /\ b \in Buffer /\ heap[b] # NULL
        /\ Values(tuple) = [i \in 1 .. n |-> heap[b][i - 1]]
        /\ Len(Values(tuple)) = n
    <3>1. b \in Foreign
      BY <1>4 DEF CheckTupleIndex, TupleInv, OnlyTuple
    <3> QED BY <1>4, <3>1, TupleValues
          DEF CheckTupleIndex, TupleInv, TupleBlock, Foreign, Live
  <2>2. ptr' = [buffer |-> b, index |-> index]
    BY <1>4 DEF TupleGetAt
  <2> HIDE DEF b, n
  <2>3. /\ index \in 0 .. n - 1 /\ index + 1 \in 1 .. n /\ (index + 1) - 1 = index
    BY <1>0, <2>1
  <2>4. Values(tuple)[index + 1] = heap[b][index]
    BY <2>1, <2>3
  <2>5. heap[b][index] \in Datum /\ index \in DOMAIN heap[b]
    BY <2>1, <2>3
  <2>6. Read(heap, ptr') = {heap[b][index]}
    BY <2>1, <2>2, <2>5 DEF Read, Points
  <2>7. ReturnsAt("tupleGetAt", NULL, index, heap[b][index])
    BY <1>4, <2>6 DEF TupleGetAt
  <2>8. Ends(heap[b][index])
    BY <1>0, <2>1, <2>2, <2>5, <2>7 DEF Results
  <2>9. TupleInv' /\ Abs' = Abs /\ Short' = Short /\ AbsTuple' = AbsTuple
    <3> HIDE DEF Ends
    <3> QED BY <1>2, <2>8
  <2>10. /\ AbsTuple # NULL /\ index < Len(AbsTuple)
         /\ AbsTuple[index + 1] = heap[b][index]
    BY <1>1, <2>1, <2>4 DEF AbsTuple
  <2>11. Frozen!ReturnsAt("tupleGetAt", NULL, index, AbsTuple[index + 1])
    BY <2>7, <2>10 DEF ReturnsAt, Frozen!ReturnsAt
  <2> QED BY <1>0, <2>9, <2>10, <2>11 DEF Frozen!ShowAt, Abs, AbsTuple
<1> QED BY <1>3, <1>4

LEMMA ShowAllStep ==
  ASSUME TupleInv, TupleToArr
  PROVE  TupleInv' /\ Frozen!Ready /\ Frozen!ShowAll
<1>0. Frozen!Ready
  BY DEF TupleToArr, Ready, Frozen!Ready
<1>1. AbsTuple = NULL <=> tuple = NULL
  BY AbsTupleIs DEF TupleInv
<1>2. CASE tuple = NULL /\ Unmoved("tupleToArr", Undefined)
  <2>1. /\ TupleInv' /\ Abs' = Abs /\ Short' = Short /\ AbsTuple' = AbsTuple
        /\ Frozen!Returns("tupleToArr", Undefined)
    BY <1>2, UnmovedStep, TruthsAreResults
  <2> QED BY <1>0, <1>1, <1>2, <2>1 DEF Frozen!ShowAll, Abs, AbsTuple
<1>3. CASE /\ tuple # NULL
           /\ ptr' = [buffer |-> tuple.container, index |-> 0]
           /\ Returns("tupleToArr", TRUE)
           /\ UNCHANGED <<vec, heap, tuple>>
  <2>1. /\ ret'.result \in Results /\ Frozen!Returns("tupleToArr", TRUE)
        /\ ptr' \in [buffer : Buffer, index : Nat]
    BY <1>3, TruthsAreResults
      DEF Returns, Frozen!Returns, TupleInv, TupleBlock, TupleStruct
  <2>2. /\ TupleInv' /\ Abs' = Abs /\ Short' = Short /\ AbsTuple' = AbsTuple
    BY <1>3, <2>1, Unaltered DEF AbsTuple
  <2> QED BY <1>0, <1>1, <1>3, <2>1, <2>2 DEF Frozen!ShowAll, Abs, AbsTuple
<1> QED BY <1>2, <1>3 DEF TupleToArr

LEMMA FreezeNewStep ==
  ASSUME TupleInv,
         \/ \E data_size \in {0, DATA_SIZE}, values \in Arrays :
              TupleCreate(data_size, values)
         \/ \E arr \in Arrays : TupleFromArray(arr)
  PROVE  TupleInv' /\ Frozen!Ready /\ Frozen!FreezeNew
<1>1. \A arr \in Arrays : arr \in Seq(Datum) /\ Len(arr) < SizeSpan
  <2> SUFFICES ASSUME NEW arr \in Arrays
               PROVE  arr \in Seq(Datum) /\ Len(arr) < SizeSpan
    OBVIOUS
  <2> DEFINE n == Len(arr)
             half == Pow2[MAX_POW2 - 1]
  <2>1. arr \in Seq(Datum) /\ n \in Nat /\ DATA_SIZE \in Nat /\ 1 <= DATA_SIZE
    BY VectorAssumption
  <2>2. n * DATA_SIZE < half
    BY VectorAssumption
  <2>3. half \in Nat /\ SizeSpan = 2 * half
    BY HalfSpan
  <2>4. n <= n * DATA_SIZE /\ n * DATA_SIZE \in Nat
    <3> HIDE DEF n
    <3>1. 1 * n <= DATA_SIZE * n
      BY <2>1, Product
    <3> QED BY <2>1, <3>1
  <2>5. n < SizeSpan
    <3> DEFINE p == n * DATA_SIZE
    <3>1. n <= p /\ p \in Nat /\ p < half
      BY <2>2, <2>4
    <3> HIDE DEF n, half, p
    <3> QED BY <2>1, <2>3, <3>1
  <2> QED BY <2>1, <2>5
<1>2. <<>> \in Seq(Datum) /\ Len(<<>>) < SizeSpan
  BY SpanIsPositive
<1>3. CASE \E data_size \in {0, DATA_SIZE}, values \in Arrays :
             TupleCreate(data_size, values)
  <2>1. PICK data_size \in {0, DATA_SIZE}, values \in Arrays :
          Make("tupleCreate", data_size, values)
    BY <1>3 DEF TupleCreate
  <2>2. /\ TupleInv'
        /\ Frozen!Freeze("tupleCreate", IF data_size = 0 THEN <<>> ELSE values)
    BY <1>1, <2>1, MakeStep
  <2>3. \/ Frozen!Freeze("tupleCreate", values)
        \/ Frozen!Freeze("tupleCreate", <<>>)
    BY <2>2
  <2>4. Frozen!Ready
    BY <2>1 DEF Make, Ready, Frozen!Ready
  <2> QED BY <2>2, <2>3, <2>4 DEF Frozen!FreezeNew
<1>4. CASE \E arr \in Arrays : TupleFromArray(arr)
  <2>1. PICK arr \in Arrays :
          \/ Make("tupleFromArray", DATA_SIZE, arr)
          \/ Make("tupleFromArray", DATA_SIZE, <<>>)
    BY <1>4 DEF TupleFromArray
  <2>2. DATA_SIZE # 0
    BY VectorAssumption
  <2>3. /\ TupleInv'
        /\ \/ Frozen!Freeze("tupleFromArray", arr)
           \/ Frozen!Freeze("tupleFromArray", <<>>)
    BY <1>1, <1>2, <2>1, <2>2, MakeStep
  <2>4. Frozen!Ready
    BY <2>1 DEF Make, Ready, Frozen!Ready
  <2> QED BY <2>3, <2>4 DEF Frozen!FreezeNew
<1> QED BY <1>3, <1>4

(* FrozenLists takes the calls on the vectors from ValueLists.             *)
LEMMA SameCalls ==
  [Lists!Next]_(Lists!vars) /\ AbsTuple' = AbsTuple
    => [Frozen!FrozenNext]_(Frozen!frozenVars)
<1> SUFFICES ASSUME [Lists!Next]_(Lists!vars), AbsTuple' = AbsTuple
             PROVE  [Frozen!FrozenNext]_(Frozen!frozenVars)
  OBVIOUS
<1>1. /\ Lists!Ready <=> Frozen!Ready
      /\ \A h \in Handle : Lists!Open(h) <=> Frozen!Open(h)
      /\ \A h, list : Lists!Becomes(h, list) <=> Frozen!Becomes(h, list)
      /\ \A h, cause : Lists!MayBeShort(h, cause) <=> Frozen!MayBeShort(h, cause)
      /\ \A call, result : Lists!Returns(call, result) <=> Frozen!Returns(call, result)
      /\ \A at, result : Lists!Adds(at, result) <=> Frozen!Adds(at, result)
      /\ \A call, h, index, result :
           Lists!ReturnsAt(call, h, index, result)
             <=> Frozen!ReturnsAt(call, h, index, result)
  BY DEF Lists!Ready, Frozen!Ready, Lists!Open, Frozen!Open,
         Lists!Becomes, Frozen!Becomes, Lists!Returns, Frozen!Returns,
         Lists!ReturnsAt, Frozen!ReturnsAt, Lists!Adds, Frozen!Adds,
         Lists!MayBeShort, Frozen!MayBeShort
<1>2. \A h \in Handle :
        /\ Lists!Create(h) => Frozen!Create(h)
        /\ Lists!Delete(h) => Frozen!Delete(h)
        /\ Lists!ToArr(h) => Frozen!ToArr(h)
        /\ \A source \in Handle : Lists!Copy(h, source) => Frozen!Copy(h, source)
        /\ \A data, at : Lists!Extend(h, data, at) => Frozen!Extend(h, data, at)
  BY <1>1 DEF Lists!Create, Frozen!Create, Lists!Delete, Frozen!Delete,
              Lists!ToArr, Frozen!ToArr, Lists!Copy, Frozen!Copy,
              Lists!Extend, Frozen!Extend
<1>3. \A h \in Handle, data \in Datum : Lists!Prepend(h, data) => Frozen!Prepend(h, data)
  BY <1>1, <1>2 DEF Lists!Prepend, Frozen!Prepend
<1>4. \A h, source \in Handle : \A index :
        Lists!PrependElement(h, source, index) => Frozen!PrependElement(h, source, index)
  BY <1>1, <1>2 DEF Lists!PrependElement, Frozen!PrependElement,
                    Lists!Within, Frozen!Within
<1>5. \A h \in Handle, index \in Index :
        /\ Lists!GetAt(h, index) => Frozen!GetAt(h, index)
        /\ \A data \in Datum :
             Lists!Update(h, data, index) => Frozen!Update(h, data, index)
  BY <1>1 DEF Lists!GetAt, Frozen!GetAt, Lists!Update, Frozen!Update,
              Lists!Within, Frozen!Within
<1>6. CASE Lists!Next
  <2>1. Frozen!Next
    BY <1>1, <1>2, <1>3, <1>4, <1>5, <1>6 DEF Lists!Next, Frozen!Next
  <2> QED BY <2>1 DEF Frozen!FrozenNext, AbsTuple
<1>7. CASE UNCHANGED Lists!vars
  BY <1>7 DEF Lists!vars, Frozen!frozenVars, Frozen!vars, AbsTuple
<1> QED BY <1>6, <1>7

-----------------------------------------------------------------------------
(* Every call, on a vector or the tuple.                                   *)

LEMMA TupleStep ==
  ASSUME TupleInv, [TupleNext]_tupleVars
  PROVE  TupleInv' /\ [Frozen!FrozenNext]_(Frozen!frozenVars)
<1>1. CASE [Next]_vars /\ UNCHANGED tuple
  <2>1. TupleInv' /\ (tuple # NULL => Values(tuple)' = Values(tuple))
    BY <1>1, VectorCall
  <2>2. AbsTuple' = AbsTuple
    BY <1>1, <2>1 DEF AbsTuple
  <2>3. [Lists!Next]_(Lists!vars)
    BY <1>1, AbstractStep DEF TupleInv
  <2> QED BY <2>1, <2>2, <2>3, SameCalls
<1>2. CASE TupleCalls
  <2>1. CASE \/ \E data_size \in {0, DATA_SIZE}, values \in Arrays :
                  TupleCreate(data_size, values)
             \/ \E arr \in Arrays : TupleFromArray(arr)
    BY <2>1, FreezeNewStep DEF Frozen!FrozenNext
  <2>2. CASE \E h \in Handle : VectorToTuple(h)
    BY <2>2, FreezeVectorStep DEF Frozen!FrozenNext
  <2>3. CASE \E h \in Handle : TupleToVector(h)
    BY <2>3, ThawStep DEF Frozen!FrozenNext
  <2>4. CASE TupleDelete
    BY <2>4, DiscardStep DEF Frozen!FrozenNext
  <2>5. CASE \E index \in Index : TupleGetAt(index)
    BY <2>5, ShowAtStep DEF Frozen!FrozenNext
  <2>6. CASE TupleToArr
    BY <2>6, ShowAllStep DEF Frozen!FrozenNext
  <2> QED BY <1>2, <2>1, <2>2, <2>3, <2>4, <2>5, <2>6 DEF TupleCalls
<1> QED BY <1>1, <1>2 DEF TupleNext, tupleVars

LEMMA TupleInitially ==
  TupleInit => TupleInv /\ Frozen!FrozenInit
<1> SUFFICES ASSUME TupleInit PROVE TupleInv /\ Frozen!FrozenInit
  OBVIOUS
<1>1. BoundedInv /\ Foreign = {}
  BY InitInv DEF TupleInit, BoundedInv, Init, Bounded, Held, Results, AllLists, Abs, Elements
<1>2. Abs = [h \in Handle |-> NULL] /\ AbsTuple = NULL
  BY DEF TupleInit, Init, Abs, Elements, AbsTuple
<1>3. TupleInv
  BY <1>1, <1>2 DEF TupleInit, TupleInv, TupleBlock, OnlyTuple
<1>4. Frozen!FrozenInit
  BY <1>2 DEF TupleInit, Init, Frozen!FrozenInit, Frozen!Init, Abs, AbsTuple, Short
<1> QED BY <1>3, <1>4

LEMMA TupleInvariance ==
  TupleSpec => []TupleInv
<1>1. TupleInit => TupleInv
  BY TupleInitially
<1>2. TupleInv /\ [TupleNext]_tupleVars => TupleInv'
  BY TupleStep
<1> QED BY <1>1, <1>2, PTL DEF TupleSpec

(* The block of a tuple holds exactly the elements it counts, all of them  *)
(* values that were put into a vector or an array, and the element size is *)
(* forgotten exactly with the last element.                                *)
THEOREM TupleTypeCorrect ==
  TupleSpec => []TupleTypeOK
<1>1. TupleInv => TupleTypeOK
  BY SpanIsPositive DEF TupleInv, TupleBlock, TupleStruct, TupleTypeOK
<1> QED BY TupleInvariance, <1>1, PTL

(* No conversion, growth or deletion leaves a block with two owners or     *)
(* with none, over vectors and tuples together, whichever calls fail.      *)
THEOREM OneOwnerEach ==
  TupleSpec => []OneOwner
<1>1. TupleInv => OneOwner
  <2> SUFFICES ASSUME TupleInv, NEW b \in Buffer
               PROVE  LET vectors == {h \in Handle : Owns(vec[h], b)}
                      IN  IF ~Live(b) THEN vectors = {} /\ ~Owns(tuple, b)
                          ELSE IF Owns(tuple, b) THEN vectors = {}
                          ELSE \E h \in Handle : vectors = {h}
    BY DEF OneOwner
  <2>1. Separate /\ OnlyTuple
    BY DEF TupleInv, BoundedInv, Inv
  <2>2. b \in Foreign <=> Owns(tuple, b)
    <3>1. tuple # NULL => tuple.container \in Foreign
      BY <2>1 DEF OnlyTuple
    <3> QED BY <2>1, <3>1 DEF OnlyTuple, Owns
  <2>3. \A h \in Handle : Owns(vec[h], b) <=> h \in Held /\ vec[h].container = b
    BY DEF Owns, Held
  <2>4. CASE ~Live(b)
    BY <2>1, <2>2, <2>3, <2>4 DEF Separate, Foreign
  <2>5. CASE Live(b) /\ Owns(tuple, b)
    BY <2>2, <2>3, <2>5 DEF Foreign
  <2>6. CASE Live(b) /\ ~Owns(tuple, b)
    <3>1. PICK h \in Held : vec[h].container = b
      BY <2>2, <2>6 DEF Foreign
    <3>2. {g \in Handle : Owns(vec[g], b)} = {h}
      BY <2>1, <2>3, <3>1 DEF Separate, Held
    <3> QED BY <2>6, <3>1, <3>2 DEF Held
  <2> QED BY <2>4, <2>5, <2>6
<1> QED BY TupleInvariance, <1>1, PTL

(* What a client sees of vectors and tuples on one heap is what it would   *)
(* see of lists that are independent, the tuple one that never changes.    *)
THEOREM FrozenListsImplemented ==
  TupleSpec => ImplementsFrozenLists
<1>1. TupleInit => Frozen!FrozenInit
  BY TupleInitially
<1>2. TupleInv /\ [TupleNext]_tupleVars => [Frozen!FrozenNext]_(Frozen!frozenVars)
  BY TupleStep
<1>3. TupleSpec => Frozen!FrozenSpec
  BY TupleInvariance, <1>1, <1>2, PTL DEF TupleSpec, Frozen!FrozenSpec
<1> QED BY <1>3 DEF ImplementsFrozenLists

=============================================================================
