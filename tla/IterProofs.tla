----------------------------- MODULE IterProofs -----------------------------
(***************************************************************************)
(* The loop around an iterator is safe and complete on firm ground, for    *)
(* every set of nodes, buffers, keys and values, every length, every pair  *)
(* of widths of int and cds_size and every size of an element.             *)
(* On an array the iterator has a bound the array does not fall below, in  *)
(* a list it has a path of nodes that stay linked as long as the list is   *)
(* not deleted, and of the slots with a key that stays the last one a      *)
(* probe meets keeps it.                                                   *)
(***************************************************************************)
EXTENDS Iter, VectorProofs

Address == Node \cup {NULL}

SLLNode == [data : Datum, next : Address]

ListStruct == [length : 0 .. SizeSpan - 1, head : Address, tail : Address]

ListShape ==
  /\ node \in [Node -> SLLNode \cup {NULL}]
  /\ list \in ListStruct \cup {NULL}

(* The nodes P are allocated, the list is among them, and no pointer leads *)
(* out of them; tail is the last one, unless an append had no memory.      *)
Closed(P) ==
  /\ \A n \in P : node[n] # NULL /\ node[n].next \in P \cup {NULL}
  /\ list # NULL /\ list.head # NULL =>
       /\ list.head \in P
       /\ list.tail # NULL => list.tail \in P /\ node[list.tail].next = NULL

(* f visits m nodes of P one after the other.                              *)
Path(f, m, P) ==
  /\ f \in [0 .. m - 1 -> P]
  /\ \A i \in 0 .. m - 2 : node[f[i]].next = f[i + 1]

(* The arithmetic of sizes is the same in all containers.                  *)
LEMMA SameWidths ==
  /\ L!SizeSpan = SizeSpan
  /\ \A capacity : H!Double(capacity) = Double(capacity)
  /\ \A min_capacity : /\ H!Capacities(min_capacity) = Capacities(min_capacity)
                       /\ S!Capacities(min_capacity) = Capacities(min_capacity)
<1>1. L!Pow2 = Pow2
  BY DEF L!Pow2, Pow2
<1>2. H!Pow2 = Pow2
  BY DEF H!Pow2, Pow2
<1>3. S!Pow2 = Pow2
  BY DEF S!Pow2, Pow2
<1>4. L!SizeSpan = SizeSpan /\ H!SizeSpan = SizeSpan /\ S!SizeSpan = SizeSpan
  BY <1>1, <1>2, <1>3 DEF L!SizeSpan, H!SizeSpan, S!SizeSpan, SizeSpan
<1>5. ASSUME NEW capacity PROVE H!Double(capacity) = Double(capacity)
  BY <1>4 DEF H!Double, Double
<1>6. ASSUME NEW x PROVE H!Log2(x) = Log2(x) /\ S!Log2(x) = Log2(x)
  <2>1. H!Log2(x) = Log2(x)
    BY <1>2 DEF H!Log2, Log2
  <2>2. S!Log2(x) = Log2(x)
    BY <1>3 DEF S!Log2, Log2
  <2> QED BY <2>1, <2>2
<1>7. ASSUME NEW pow
      PROVE  H!IntShift(pow) = IntShift(pow) /\ S!IntShift(pow) = IntShift(pow)
  BY <1>2, <1>3, <1>4 DEF H!IntShift, S!IntShift, IntShift
<1>8. ASSUME NEW min_capacity
      PROVE  /\ H!Capacities(min_capacity) = Capacities(min_capacity)
             /\ S!Capacities(min_capacity) = Capacities(min_capacity)
  <2>1. /\ H!Exponents(min_capacity) = Exponents(min_capacity)
        /\ S!Exponents(min_capacity) = Exponents(min_capacity)
    BY <1>6 DEF H!Exponents, S!Exponents, Exponents
  <2> QED BY <1>7, <2>1 DEF H!Capacities, S!Capacities, Capacities
<1> QED BY <1>4, <1>5, <1>8

(* A step of the list's calls leaves a closed set of nodes; as long as the *)
(* block of the list stays, it is a larger one, and what was linked stays. *)
Extends(P, Q) ==
  /\ P \subseteq Q
  /\ \A n \in P : node[n].next # NULL => node'[n].next = node[n].next

LEMMA ListFacts ==
  /\ NULL \notin Node /\ NULL \notin Datum
  /\ NULL \notin SLLNode /\ NULL \notin ListStruct
  /\ IsFiniteSet(Node)
  /\ \A length \in Nat : L!Counted(length) \in 0 .. SizeSpan - 1
<1>1. /\ NULL \notin Datum \cup Node /\ IsFiniteSet(Node)
      /\ NULL \notin [data : Datum, next : Node \cup {NULL}]
  BY IterAssumption DEF L!SLListAssumption, L!IsFiniteSet, IsFiniteSet
<1>2. \A length \in Nat : L!Counted(length) \in 0 .. SizeSpan - 1
  <2>1. \A length : L!Counted(length) = (length + 1) % SizeSpan
    BY SameWidths DEF L!Counted
  <2>2. SizeSpan \in Nat \ {0}
    BY SpanIsPositive
  <2>3. \A length \in Nat : (length + 1) % SizeSpan \in 0 .. SizeSpan - 1
    BY <2>2
  <2> QED BY <2>1, <2>3
<1>3. NULL \notin ListStruct
  <2>1. ListStruct \subseteq [length : Nat, head : Address, tail : Address]
    BY SpanIsPositive DEF ListStruct
  <2> QED BY <2>1, IterAssumption DEF L!SLListAssumption, Address
<1> QED BY <1>1, <1>2, <1>3 DEF SLLNode, Address

(* A new node in front of the list.                                        *)
LEMMA PushFrontExtends ==
  ASSUME ListShape, NEW P \in SUBSET Node, Closed(P), list # NULL,
         NEW data \in Datum, L!PushFront(data)
  PROVE  /\ ListShape' /\ list' # NULL /\ list'.head # NULL
         /\ \E Q \in SUBSET Node : Closed(Q)' /\ Extends(P, Q)
<1>1. PICK n \in Node \ L!Live :
        /\ node' = [node EXCEPT ![n] = [data |-> data, next |-> list.head]]
        /\ list' = [list EXCEPT !.head = n, !.length = L!Counted(@),
                                !.tail = IF list.head = NULL THEN n ELSE @]
  BY DEF L!PushFront
<1>2. n \in Node /\ node[n] = NULL /\ n # NULL
  BY ListFacts DEF L!Live
<1>3. /\ list \in ListStruct
      /\ n \in Address /\ L!Counted(list.length) \in 0 .. SizeSpan - 1
  BY <1>2, ListFacts, SpanIsPositive DEF ListShape, ListStruct, Address
<1>4. /\ list' \in ListStruct
      /\ list'.head = n
      /\ list'.tail = IF list.head = NULL THEN n ELSE list.tail
  BY <1>1, <1>3 DEF ListStruct
<1>5. list' # NULL
  BY <1>4, ListFacts
<1>6. [data |-> data, next |-> list.head] \in SLLNode
  BY <1>3 DEF SLLNode, ListStruct
<1>7. /\ node' \in [Node -> SLLNode \cup {NULL}]
      /\ node'[n] = [data |-> data, next |-> list.head]
      /\ node'[n] # NULL /\ node'[n].next = list.head
      /\ \A m \in Node \ {n} : node'[m] = node[m]
  BY <1>1, <1>2, <1>6, ListFacts DEF ListShape
<1>8. n \notin P
  BY <1>2 DEF Closed
<1>9. Extends(P, P \cup {n})
  BY <1>7, <1>8 DEF Extends
<1>10. list.head \in P \cup {NULL}
  BY DEF Closed
<1>11. \A m \in P \cup {n} : node'[m] # NULL /\ node'[m].next \in P \cup {n, NULL}
  BY <1>7, <1>8, <1>10 DEF Closed
<1>12. list'.tail # NULL =>
         list'.tail \in P \cup {n} /\ node'[list'.tail].next = NULL
  <2>1. CASE list.head = NULL
    BY <1>4, <1>7, <2>1
  <2>2. CASE list.head # NULL
    BY <1>4, <1>7, <1>8, <2>2 DEF Closed
  <2> QED BY <2>1, <2>2
<1>13. Closed(P \cup {n})'
  BY <1>4, <1>11, <1>12 DEF Closed
<1> QED BY <1>2, <1>4, <1>5, <1>7, <1>9, <1>13 DEF ListShape

(* A new node behind the tail, or the loss of the tail.                    *)
LEMMA AppendExtends ==
  ASSUME ListShape, NEW P \in SUBSET Node, Closed(P),
         list # NULL, list.head # NULL, list.tail # NULL,
         NEW data \in Datum, L!PushBack(data) \/ L!LoseTail
  PROVE  /\ ListShape' /\ list' # NULL /\ list'.head # NULL
         /\ \E Q \in SUBSET Node : Closed(Q)' /\ Extends(P, Q)
<1> DEFINE t == list.tail
<1>1. /\ list \in ListStruct
      /\ t \in P /\ t \in Node /\ node[t] \in SLLNode /\ node[t].next = NULL
      /\ list.head \in P
  BY DEF ListShape, Closed
<1>2. ASSUME NEW tail \in Address, list' = [list EXCEPT !.tail = tail]
      PROVE  /\ list' \in ListStruct
             /\ list' # NULL /\ list'.head = list.head /\ list'.tail = tail
  <2>1. list' \in ListStruct
    BY <1>1, <1>2 DEF ListStruct
  <2> QED BY <1>1, <1>2, <2>1, ListFacts DEF ListStruct
<1>3. CASE L!PushBack(data)
  <2>1. PICK n \in Node \ L!Live :
          /\ node' = [node EXCEPT ![n] = [data |-> data, next |-> NULL],
                                  ![t].next = n]
          /\ list' = [list EXCEPT !.tail = n]
    BY <1>3 DEF L!PushBack
  <2>2. n \in Node /\ node[n] = NULL /\ n # NULL /\ n \in Address
    BY ListFacts DEF L!Live, Address
  <2>3. n \notin P /\ n # t
    BY <1>1, <2>2 DEF Closed
  <2>4. [data |-> data, next |-> NULL] \in SLLNode
    BY DEF SLLNode, Address
  <2>5. [node[t] EXCEPT !.next = n] \in SLLNode
    BY <1>1, <2>2 DEF SLLNode
  <2>6. /\ node'[n] = [data |-> data, next |-> NULL]
        /\ node'[t] = [node[t] EXCEPT !.next = n]
        /\ \A m \in Node \ {n, t} : node'[m] = node[m]
    <3> HIDE DEF t
    <3> QED BY <1>1, <2>1, <2>2, <2>3 DEF ListShape
  <2>7. node' \in [Node -> SLLNode \cup {NULL}]
    <3>1. \A m \in Node : node'[m] \in SLLNode \cup {NULL}
      <4> HIDE DEF t
      <4> QED BY <2>4, <2>5, <2>6 DEF ListShape
    <3>2. DOMAIN node' = Node /\ node' = [m \in DOMAIN node' |-> node'[m]]
      BY <2>1 DEF ListShape
    <3> QED BY <3>1, <3>2
  <2>8. /\ node'[n].next = NULL /\ node'[t].next = n
        /\ node'[n] # NULL /\ node'[t] # NULL
    <3>1. node'[n].next = NULL /\ node'[t].next = n
      <4> HIDE DEF t
      <4> QED BY <1>1, <2>6 DEF SLLNode
    <3> QED BY <2>4, <2>5, <2>6, <3>1, ListFacts
  <2>9. Extends(P, P \cup {n})
    BY <1>1, <2>3, <2>6 DEF Extends
  <2>10. \A m \in P \cup {n} :
           node'[m] # NULL /\ node'[m].next \in P \cup {n, NULL}
    <3> HIDE DEF t
    <3> QED BY <2>3, <2>6, <2>8 DEF Closed
  <2>11. /\ list' \in ListStruct
         /\ list' # NULL /\ list'.head = list.head /\ list'.tail = n
    BY <1>2, <2>1, <2>2
  <2>12. Closed(P \cup {n})'
    BY <1>1, <2>8, <2>10, <2>11 DEF Closed
  <2> QED BY <2>2, <2>7, <2>9, <2>11, <2>12 DEF ListShape
<1>4. CASE L!LoseTail
  <2>1. /\ node' = [node EXCEPT ![t].next = NULL]
        /\ list' = [list EXCEPT !.tail = NULL]
    BY <1>4 DEF L!LoseTail
  <2>2. [node[t] EXCEPT !.next = NULL] = node[t]
    BY <1>1 DEF SLLNode
  <2>3. node' = node
    <3> HIDE DEF t
    <3> QED BY <1>1, <2>1, <2>2 DEF ListShape
  <2>4. /\ list' \in ListStruct
        /\ list' # NULL /\ list'.head = list.head /\ list'.tail = NULL
    BY <1>2, <2>1 DEF Address
  <2>5. Closed(P)' /\ Extends(P, P)
    BY <2>3, <2>4 DEF Closed, Extends
  <2> QED BY <2>3, <2>4, <2>5 DEF ListShape
<1> QED BY <1>3, <1>4

(* The client's calls on the list.                                         *)
LEMMA ListStep ==
  ASSUME ListShape, NEW P \in SUBSET Node, Closed(P), ListChanges
  PROVE  /\ ListShape'
         /\ \E Q \in SUBSET Node :
              /\ Closed(Q)'
              /\ \/ list = NULL \/ list.head = NULL
                 \/ list' # NULL /\ list'.head # NULL /\ Extends(P, Q)
                 \/ list' # NULL /\ list'.head = NULL
<1>1. CASE UNCHANGED <<list, node>>
  <2>1. ListShape' /\ Closed(P)'
    BY <1>1 DEF ListShape, Closed
  <2>2. Extends(P, P)
    BY <1>1 DEF Extends
  <2> QED BY <1>1, <2>1, <2>2
<1>2. CASE L!SllCreate
  <2>1. /\ list' \in {NULL, [length |-> 0, head |-> NULL, tail |-> NULL]}
        /\ node' = node
        /\ list = NULL \/ list.head = NULL
    BY <1>2 DEF L!SllCreate
  <2>2. [length |-> 0, head |-> NULL, tail |-> NULL] \in ListStruct
    BY SpanIsPositive DEF ListStruct, Address
  <2>3. ListShape' /\ Closed(P)'
    BY <2>1, <2>2 DEF ListShape, Closed
  <2> QED BY <2>1, <2>3
<1>3. CASE L!SllDelete
  <2>1. CASE list = NULL
    BY <1>1, <1>3, <2>1 DEF L!SllDelete, L!Unchanged
  <2>2. CASE list # NULL
    <3>1. /\ list' = [list EXCEPT !.head = NULL]
          /\ node' = [n \in Node |-> IF n \in L!Chain THEN NULL ELSE node[n]]
      BY <1>3, <2>2 DEF L!SllDelete, L!Emptied
    <3>2. /\ list' \in ListStruct
          /\ list'.head = NULL
      BY <2>2, <3>1 DEF ListShape, ListStruct, Address
    <3>3. list' # NULL
      BY <3>2, ListFacts
    <3>4. node' \in [Node -> SLLNode \cup {NULL}]
      BY <3>1 DEF ListShape
    <3>5. Closed({})'
      BY <3>2 DEF Closed
    <3> QED BY <3>2, <3>3, <3>4, <3>5 DEF ListShape
  <2> QED BY <2>1, <2>2
<1>4. CASE \E data \in Datum : L!SllPrepend(data)
  <2>1. PICK data \in Datum : L!SllPrepend(data)
    BY <1>4
  <2>2. CASE list # NULL /\ L!PushFront(data)
    BY <2>2, PushFrontExtends
  <2> QED BY <1>1, <2>1, <2>2 DEF L!SllPrepend, L!Unchanged
<1>5. CASE \E data \in Datum : L!SllAppend(data)
  <2>1. PICK data \in Datum : L!SllAppend(data)
    BY <1>5
  <2>2. CASE list # NULL /\ L!PushFront(data)
    BY <2>2, PushFrontExtends
  <2>3. CASE /\ list # NULL /\ list.head # NULL /\ list.tail # NULL
             /\ L!PushBack(data) \/ L!LoseTail
    BY <2>3, AppendExtends
  <2> QED BY <1>1, <2>1, <2>2, <2>3 DEF L!SllAppend, L!Unchanged
<1> QED BY <1>2, <1>3, <1>4, <1>5 DEF ListChanges

(* Following next from head, as Chain does, stays within a closed set.     *)
LEMMA ReachedNodes ==
  ASSUME ListShape, NEW P \in SUBSET Node, Closed(P), list # NULL
  PROVE  LET r == L!Reached(list.head)
         IN  /\ r[0] = list.head
             /\ \A i \in 0 .. Cardinality(Node) : r[i] \in P \cup {NULL}
             /\ \A i \in 1 .. Cardinality(Node) :
                  r[i] = IF r[i - 1] = NULL THEN NULL ELSE node[r[i - 1]].next
<1> DEFINE N == Cardinality(Node)
           h == list.head
           C == P \cup {NULL}
           IsAt(f) == f = [i \in 0 .. L!Cardinality(Node) |-> IF i = 0 THEN h ELSE
                             IF f[i - 1] = NULL THEN NULL ELSE node[f[i - 1]].next]
           follow == [x \in C |-> IF x = NULL THEN NULL ELSE node[x].next]
           step == [i \in 0 .. N - 1 |-> follow]
           r == L!Reached(h)
<1>1. N \in Nat /\ L!Cardinality(Node) = N
  BY ListFacts, FS_CardinalityType DEF L!Cardinality, Cardinality
<1>2. h \in C
  BY DEF Closed
<1>3. follow \in [C -> C]
  BY DEF Closed
<1>4. step \in Steps(N, C)
  <2> HIDE DEF follow, C
  <2> QED BY <1>3 DEF Steps
<1>5. PICK f : Recursive(f, N, C, h, step)
  <2> HIDE DEF N, C, h, step
  <2> QED BY <1>1, <1>2, <1>4, Recursion
<1>6. /\ f \in [0 .. N -> C] /\ f[0] = h
      /\ \A i \in 1 .. N : f[i] = follow[f[i - 1]]
  <2>1. /\ f \in [0 .. N -> C] /\ f[0] = h
        /\ \A i \in 1 .. N : f[i] = step[i - 1][f[i - 1]]
    <3> HIDE DEF N, C, h, step
    <3> QED BY <1>5 DEF Recursive
  <2>2. \A i \in 1 .. N : i - 1 \in 0 .. N - 1
    BY <1>1
  <2>3. \A i \in 1 .. N : step[i - 1] = follow
    <3> HIDE DEF N, follow
    <3> QED BY <2>2
  <2> QED BY <2>1, <2>3
<1>7. \A i \in 1 .. N :
        f[i] = IF f[i - 1] = NULL THEN NULL ELSE node[f[i - 1]].next
  <2>1. \A i \in 1 .. N : f[i - 1] \in C
    <3> HIDE DEF C, N
    <3> QED BY <1>1, <1>6
  <2> HIDE DEF C, N
  <2> QED BY <1>6, <2>1
<1>8. IsAt(f)
  <2>1. \A i \in 0 .. N : i = 0 \/ i \in 1 .. N
    BY <1>1
  <2>2. f = [i \in 0 .. N |-> IF i = 0 THEN h ELSE
               IF f[i - 1] = NULL THEN NULL ELSE node[f[i - 1]].next]
    <3> HIDE DEF N, C, h
    <3> QED BY <1>6, <1>7, <2>1
  <2> QED BY <1>1, <2>2
<1>9. IsAt(r)
  <2> HIDE DEF IsAt
  <2>1. IsAt(CHOOSE g : IsAt(g))
    BY <1>8
  <2> USE DEF IsAt
  <2> QED BY <2>1 DEF L!Reached
<1>10. \A i \in 0 .. N :
         r[i] = IF i = 0 THEN h ELSE
                  IF r[i - 1] = NULL THEN NULL ELSE node[r[i - 1]].next
  <2> HIDE DEF r, h, N
  <2> QED BY <1>1, <1>9 DEF r
<1>11. /\ r[0] = h
       /\ \A i \in 1 .. N : r[i] = IF r[i - 1] = NULL THEN NULL ELSE node[r[i - 1]].next
  <2>1. 0 \in 0 .. N /\ \A i \in 1 .. N : i \in 0 .. N /\ i # 0
    BY <1>1
  <2> HIDE DEF r, h, N
  <2> QED BY <1>10, <2>1
<1>12. \A i \in 0 .. N : r[i] \in C
  <2> DEFINE T == {i \in 0 .. N : r[i] \in C}
  <2>1. 0 \in T
    BY <1>1, <1>2, <1>11
  <2>2. ASSUME NEW i \in 1 .. N, i - 1 \in T PROVE i \in T
    <3>1. r[i - 1] \in C /\ i \in 0 .. N
      BY <1>1, <2>2
    <3>2. r[i] = follow[r[i - 1]]
      <4> HIDE DEF r, N
      <4> QED BY <1>11, <3>1
    <3>3. r[i] \in C
      <4> HIDE DEF r, N, follow, C
      <4> QED BY <1>3, <3>1, <3>2
    <3> QED BY <3>1, <3>3
  <2>3. \A i \in 0 .. N : i \in T
    <3> HIDE DEF T
    <3> QED BY <1>1, <2>1, <2>2, UpTo
  <2> QED BY <2>3
<1> QED BY <1>11, <1>12

(* A list with as many nodes as it counts has a path through that many.    *)
LEMMA FirmPath ==
  ASSUME ListShape, NEW P \in SUBSET Node, Closed(P), list # NULL,
         list.length # 0, list.length <= Cardinality(L!Chain)
  PROVE  /\ list.head # NULL
         /\ \E f : /\ Path(f, list.length, P) /\ f[0] = list.head
                   /\ \A i \in 0 .. list.length - 1 : f[i] = L!Reached(list.head)[i]
<1> DEFINE N == Cardinality(Node)
           k == list.length
           r == L!Reached(list.head)
           f == [i \in 0 .. k - 1 |-> r[i]]
<1>1. N \in Nat /\ L!Cardinality(Node) = N
  BY ListFacts, FS_CardinalityType DEF L!Cardinality, Cardinality
<1>2. L!Chain \subseteq Node /\ IsFiniteSet(L!Chain) /\ Cardinality(L!Chain) <= N
  <2>1. L!Chain \subseteq Node
    BY DEF L!Chain, L!Live
  <2> QED BY <2>1, ListFacts, FS_Subset
<1>3. k \in Nat \ {0} /\ k <= N
  <2>1. k \in Nat
    BY SpanIsPositive DEF ListShape, ListStruct
  <2>2. Cardinality(L!Chain) \in Nat
    BY <1>2, FS_CardinalityType
  <2> QED BY <1>1, <1>2, <2>1, <2>2
<1>4. /\ r[0] = list.head
      /\ \A i \in 0 .. N : r[i] \in P \cup {NULL}
      /\ \A i \in 1 .. N : r[i] = IF r[i - 1] = NULL THEN NULL ELSE node[r[i - 1]].next
  BY ReachedNodes
<1>5. L!Chain = {n \in L!Live : \E i \in 0 .. N : r[i] = n}
  BY <1>1 DEF L!Chain
<1> HIDE DEF N, k, r
<1>6. ASSUME NEW i \in 0 .. k - 1, r[i] = NULL PROVE FALSE
  <2> DEFINE T == {j \in 0 .. N : j < i \/ r[j] = NULL}
             R == {r[j] : j \in 0 .. i - 1}
             g == [j \in 0 .. i - 1 |-> r[j]]
  <2>1. i \in Nat /\ i < k
    BY <1>3
  <2>2. 0 \in T
    BY <1>1, <1>6, <2>1
  <2>3. ASSUME NEW j \in 1 .. N, j - 1 \in T PROVE j \in T
    <3>1. j \in 0 .. N /\ (j < i \/ j = i \/ ~(j - 1 < i))
      BY <1>1, <2>1
    <3> QED BY <1>4, <1>6, <2>3, <3>1
  <2>4. \A j \in 0 .. N : j \in T
    <3> HIDE DEF T
    <3> QED BY <1>1, <2>2, <2>3, UpTo
  <2>5. L!Chain \subseteq R
    <3> SUFFICES ASSUME NEW n \in L!Chain PROVE n \in R
      OBVIOUS
    <3>1. PICK j \in 0 .. N : r[j] = n
      BY <1>5
    <3>2. n # NULL
      BY <1>2, ListFacts
    <3>3. j < i
      BY <2>4, <3>1, <3>2
    <3>4. j \in 0 .. i - 1
      BY <1>1, <2>1, <3>3
    <3> QED BY <3>1, <3>4
  <2>6. IsFiniteSet(0 .. i - 1) /\ Cardinality(0 .. i - 1) = i
    <3>1. 0 \in Int /\ i - 1 \in Int /\ (0 > i - 1 <=> i = 0) /\ (i - 1) - 0 + 1 = i
      BY <2>1
    <3> QED BY <3>1, FS_Interval
  <2>7. g \in Surjection(0 .. i - 1, R)
    BY DEF Surjection
  <2>8. IsFiniteSet(R) /\ Cardinality(R) <= i
    <3> HIDE DEF g, R
    <3> QED BY <2>6, <2>7, FS_Surjection
  <2>9. Cardinality(L!Chain) <= Cardinality(R)
    <3> HIDE DEF R
    <3> QED BY <2>5, <2>8, FS_Subset
  <2>10. Cardinality(L!Chain) \in Nat /\ Cardinality(R) \in Nat
    <3> HIDE DEF R
    <3> QED BY <1>2, <2>8, FS_CardinalityType
  <2>11. k <= Cardinality(L!Chain)
    BY DEF k
  <2> HIDE DEF R
  <2> QED BY <1>3, <2>1, <2>8, <2>9, <2>10, <2>11
<1>7. \A i \in 0 .. k - 1 : i \in 0 .. N
  BY <1>1, <1>3
<1>8. \A i \in 0 .. k - 1 : r[i] \in P /\ r[i] # NULL
  BY <1>4, <1>6, <1>7
<1>9. \A i \in 0 .. k - 2 : node[r[i]].next = r[i + 1]
  <2> SUFFICES ASSUME NEW i \in 0 .. k - 2 PROVE node[r[i]].next = r[i + 1]
    OBVIOUS
  <2>1. i \in 0 .. k - 1 /\ i + 1 \in 1 .. N /\ (i + 1) - 1 = i
    BY <1>1, <1>3
  <2> QED BY <1>4, <1>8, <2>1
<1>10. Path(f, k, P)
  <2>1. f \in [0 .. k - 1 -> P]
    BY <1>8
  <2>2. \A i \in 0 .. k - 2 : f[i] = r[i] /\ f[i + 1] = r[i + 1]
    BY <1>3
  <2> HIDE DEF f
  <2> QED BY <1>9, <2>1, <2>2 DEF Path
<1>11. 0 \in 0 .. k - 1
  BY <1>3
<1>12. list.head # NULL /\ f[0] = list.head
  BY <1>4, <1>8, <1>11
<1>13. \A i \in 0 .. k - 1 : f[i] = r[i]
  OBVIOUS
<1> HIDE DEF f
<1> QED BY <1>10, <1>12, <1>13 DEF k, r

-----------------------------------------------------------------------------
(* Probing in a container k of n slots, where k tells the key of each.     *)

(* No probe from start meets e behind slot i, where it is.                 *)
LastOn(k, n, start, e, i) ==
  \E d \in Slots(n) : /\ Probe(start, d, n) = i
                      /\ k[i] = e
                      /\ \A x \in Slots(n) : x > d => k[Probe(start, x, n)] # e

LEMMA LastExists ==
  ASSUME NEW n \in Nat \ {0}, NEW start \in Slots(n), NEW k, NEW j \in Slots(n)
  PROVE  \E i \in Slots(n) : LastOn(k, n, start, k[j], i)
<1> DEFINE T == {x \in Nat : x < n /\ k[Probe(start, n - 1 - x, n)] = k[j]}
<1>1. PICK d \in Slots(n) : Probe(start, d, n) = j
  BY ProbeOnto
<1>2. n - 1 - d \in T
  <2>1. n - 1 - d \in Nat /\ n - 1 - d < n /\ n - 1 - (n - 1 - d) = d
    BY DEF Slots
  <2> QED BY <1>1, <2>1
<1>3. PICK x \in T : \A y \in T : x <= y
  <2>1. T \in SUBSET Nat /\ T # {}
    BY <1>2
  <2> HIDE DEF T
  <2> QED BY <2>1, LeastNat
<1> DEFINE last == n - 1 - x
<1>4. last \in Slots(n) /\ k[Probe(start, last, n)] = k[j]
  BY <1>3 DEF Slots
<1>5. \A y \in Slots(n) : y > last => k[Probe(start, y, n)] # k[j]
  <2> SUFFICES ASSUME NEW y \in Slots(n), y > last, k[Probe(start, y, n)] = k[j]
               PROVE  FALSE
    OBVIOUS
  <2>1. /\ n - 1 - y \in Nat /\ n - 1 - y < n /\ n - 1 - (n - 1 - y) = y
        /\ n - 1 - y < x
    BY <1>3 DEF Slots
  <2>2. n - 1 - y \in T
    BY <2>1
  <2>3. x <= n - 1 - y
    BY <1>3, <2>2
  <2> QED BY <1>3, <2>1, <2>3
<1>6. Probe(start, last, n) \in Slots(n)
  BY <1>4, ProbeInjective
<1> HIDE DEF last
<1> QED BY <1>4, <1>5, <1>6 DEF LastOn

(* A key is stored at the first slot that may take it, among which are all *)
(* that have it: what was last of its key stays the last.                  *)
LEMMA StoreKeepsLast ==
  ASSUME NEW n \in Nat \ {0}, NEW start \in Slots(n), NEW from \in Slots(n),
         NEW k, NEW g, NEW e, NEW i, LastOn(k, n, start, e, i), e # NULL,
         NEW key, e = key => from = start,
         NEW T \in SUBSET Slots(n), T # {}, \A j \in Slots(n) : k[j] = key => j \in T,
         NEW slot, slot = FirstIn(T, from, n), k[slot] \in {NULL, key},
         g[slot] = key, \A j \in Slots(n) \ {slot} : g[j] = k[j]
  PROVE  LastOn(g, n, start, e, i)
<1>1. PICK d \in Slots(n) : /\ Probe(start, d, n) = i
                            /\ k[i] = e
                            /\ \A x \in Slots(n) : x > d => k[Probe(start, x, n)] # e
  BY DEF LastOn
<1>2. PICK f \in Slots(n) : /\ slot = Probe(from, f, n)
                            /\ slot \in T
                            /\ \A x \in Slots(n) : x < f => Probe(from, x, n) \notin T
  BY FirstInIsFirst
<1>3. d \in Int /\ f \in Int /\ i \in Slots(n)
  BY <1>1, ProbeInjective DEF Slots
<1>4. CASE e = key
  <2>1. ~(d < f)
    BY <1>1, <1>2, <1>3, <1>4
  <2>2. g[i] = e
    BY <1>1, <1>3, <1>4
  <2>3. ASSUME NEW x \in Slots(n), x > d PROVE g[Probe(start, x, n)] # e
    <3>1. x > f
      BY <1>3, <2>1, <2>3 DEF Slots
    <3>2. x # f
      BY <1>3, <3>1 DEF Slots
    <3>3. Probe(start, x, n) \in Slots(n) \ {slot}
      BY <1>2, <1>4, <3>2, ProbeInjective
    <3> QED BY <1>1, <2>3, <3>3
  <2> QED BY <1>1, <2>2, <2>3 DEF LastOn
<1>5. CASE e # key
  <2>1. g[i] = e
    BY <1>1, <1>3, <1>5
  <2>2. ASSUME NEW x \in Slots(n), x > d PROVE g[Probe(start, x, n)] # e
    <3>1. Probe(start, x, n) \in Slots(n)
      BY ProbeInjective
    <3> QED BY <1>1, <1>5, <2>2, <3>1
  <2> QED BY <1>1, <2>1, <2>2 DEF LastOn
<1> QED BY <1>4, <1>5

(* The first slot with a key loses it: the last of a key stays, or is gone *)
(* together with the key.                                                  *)
LEMMA RemoveKeepsLast ==
  ASSUME NEW n \in Nat \ {0}, NEW start \in Slots(n), NEW from \in Slots(n),
         NEW k, NEW g, NEW e, NEW i, LastOn(k, n, start, e, i), e # NULL,
         NEW key, e = key => from = start,
         NEW T \in SUBSET Slots(n), T # {}, \A j \in Slots(n) : k[j] = key => j \in T,
         NEW slot, slot = FirstIn(T, from, n), k[slot] = key,
         g[slot] = NULL, \A j \in Slots(n) \ {slot} : g[j] = k[j]
  PROVE  LastOn(g, n, start, e, i) \/ \A j \in Slots(n) : g[j] # e
<1>1. PICK d \in Slots(n) : /\ Probe(start, d, n) = i
                            /\ k[i] = e
                            /\ \A x \in Slots(n) : x > d => k[Probe(start, x, n)] # e
  BY DEF LastOn
<1>2. PICK f \in Slots(n) : /\ slot = Probe(from, f, n)
                            /\ slot \in T
                            /\ \A x \in Slots(n) : x < f => Probe(from, x, n) \notin T
  BY FirstInIsFirst
<1>3. d \in Int /\ f \in Int /\ i \in Slots(n) /\ slot \in Slots(n)
  BY <1>1, <1>2, ProbeInjective DEF Slots
<1>4. \A x \in Slots(n) : /\ Probe(start, x, n) \in Slots(n)
                          /\ x > d => g[Probe(start, x, n)] # e
  <2> SUFFICES ASSUME NEW x \in Slots(n)
               PROVE  /\ Probe(start, x, n) \in Slots(n)
                      /\ x > d => g[Probe(start, x, n)] # e
    OBVIOUS
  <2>1. Probe(start, x, n) \in Slots(n)
    BY ProbeInjective
  <2> QED BY <1>1, <2>1
<1>5. CASE i # slot
  <2>1. g[i] = e
    BY <1>1, <1>3, <1>5
  <2> QED BY <1>1, <1>4, <2>1 DEF LastOn
<1>6. CASE i = slot
  <2>1. e = key /\ from = start
    BY <1>1, <1>6
  <2>2. d = f
    BY <1>1, <1>2, <1>6, <2>1, ProbeInjective
  <2>3. ASSUME NEW j \in Slots(n) PROVE g[j] # e
    <3>1. PICK x \in Slots(n) : Probe(start, x, n) = j
      BY ProbeOnto
    <3>2. CASE x < f
      <4>1. k[j] # key
        BY <1>2, <2>1, <3>1, <3>2
      <4> QED BY <2>1, <4>1
    <3>3. CASE x = f
      BY <1>2, <2>1, <3>1, <3>3
    <3>4. CASE x > d
      BY <1>4, <3>1, <3>4
    <3> QED BY <1>3, <2>2, <3>2, <3>3, <3>4 DEF Slots
  <2> QED BY <2>3
<1> QED BY <1>5, <1>6

(* The two containers of slots probe in the same way.                      *)
LEMMA SamePaths ==
  /\ \A T, start, n : /\ H!FirstIn(T, start, n) = FirstIn(T, start, n)
                      /\ S!FirstIn(T, start, n) = FirstIn(T, start, n)
  /\ \A hash_fun, key, n : /\ H!HashIndex(hash_fun, key, n) = HashIndex(hash_fun, key, n)
                           /\ S!HashIndex(hash_fun, key, n) = HashIndex(hash_fun, key, n)
<1>1. ASSUME NEW T, NEW start, NEW n
      PROVE  /\ H!FirstIn(T, start, n) = FirstIn(T, start, n)
             /\ S!FirstIn(T, start, n) = FirstIn(T, start, n)
  BY DEF H!FirstIn, S!FirstIn, FirstIn, H!Probe, S!Probe, Probe
<1>2. \A hash_fun, key, n : /\ H!HashIndex(hash_fun, key, n) = HashIndex(hash_fun, key, n)
                            /\ S!HashIndex(hash_fun, key, n) = HashIndex(hash_fun, key, n)
  BY DEF H!HashIndex, S!HashIndex, HashIndex
<1> QED BY <1>1, <1>2

LEMMA StartIsSlot ==
  ASSUME NEW hash_fun \in HashFun, NEW key \in Key, NEW n \in Nat \ {0}
  PROVE  HashIndex(hash_fun, key, n) \in Slots(n)
<1>1. hash_fun[key] \in Nat
  BY IterAssumption DEF H!HashTableAssumption
<1> QED BY <1>1 DEF HashIndex, Slots

(* n slots with entries of E, in which a mark has no key.                  *)
Container(c, n, E) ==
  /\ c \in [Slots(n) -> E]
  /\ \A i \in Slots(n) : c[i].is_tombstone => c[i].key = NULL

Keyed(c, n) == {i \in Slots(n) : c[i].key # NULL}

LEMMA WrittenContainer ==
  ASSUME NEW n \in Nat, NEW E, NEW c, Container(c, n, E), NEW slot, NEW entry \in E,
         entry.is_tombstone => entry.key = NULL,
         NEW g, g = [c EXCEPT ![slot] = entry]
  PROVE  /\ Container(g, n, E)
         /\ Cardinality(Keyed(c, n)) \in Nat /\ Cardinality(Keyed(g, n)) \in Nat
         /\ Cardinality(Keyed(g, n)) <= Cardinality(Keyed(c, n)) + 1
         /\ slot \in Keyed(c, n) =>
              Cardinality(Keyed(g, n)) <= Cardinality(Keyed(c, n))
         /\ slot \in Keyed(c, n) /\ entry.key = NULL =>
              Cardinality(Keyed(g, n)) <= Cardinality(Keyed(c, n)) - 1
<1> DEFINE K == Keyed(c, n)
           G == Keyed(g, n)
<1>1. c \in [Slots(n) -> E] /\ g \in [Slots(n) -> E]
  BY DEF Container
<1>2. Container(g, n, E)
  BY <1>1 DEF Container
<1>3. \A i \in Slots(n) : g[i] = IF i = slot THEN entry ELSE c[i]
  BY <1>1
<1>4. /\ IsFiniteSet(K) /\ Cardinality(K) \in Nat
      /\ IsFiniteSet(G) /\ Cardinality(G) \in Nat
  <2>1. K \in SUBSET Slots(n) /\ G \in SUBSET Slots(n)
    BY DEF Keyed
  <2> HIDE DEF K, G
  <2> QED BY <2>1, SlotsFinite
<1>5. G \subseteq K \cup {slot} /\ (entry.key = NULL => G \subseteq K \ {slot})
  BY <1>3 DEF Keyed
<1> HIDE DEF K, G
<1>6. /\ IsFiniteSet(K \cup {slot})
      /\ Cardinality(K \cup {slot}) = IF slot \in K THEN Cardinality(K)
                                      ELSE Cardinality(K) + 1
  BY <1>4, FS_AddElement
<1>7. /\ IsFiniteSet(K \ {slot})
      /\ slot \in K => Cardinality(K \ {slot}) = Cardinality(K) - 1
  BY <1>4, FS_RemoveElement
<1>8. Cardinality(G) <= Cardinality(K \cup {slot})
  BY <1>5, <1>6, FS_Subset
<1>9. entry.key = NULL => Cardinality(G) <= Cardinality(K \ {slot})
  BY <1>5, <1>7, FS_Subset
<1> QED BY <1>2, <1>4, <1>6, <1>7, <1>8, <1>9 DEF K, G

(* The length of a table counts at least its keys.                         *)
TableShape(h) ==
  /\ h \in [capacity : 1 .. SizeSpan - 1, length : Int, hash_fun : HashFun,
            container : {h.container}]
  /\ Container(h.container, h.capacity, H!HTEntry)
  /\ Cardinality(Keyed(h.container, h.capacity)) <= h.length

SetShape(s) ==
  /\ s \in [capacity : 1 .. SizeSpan - 1, hash_fun : HashFun,
            container : {s.container}]
  /\ Container(s.container, s.capacity, S!SetEntry)

Shapes == /\ ht # NULL => TableShape(ht)
          /\ set # NULL => SetShape(set)

(* A call that leaves the slots where they are leaves the last of a key    *)
(* where it is, or takes the key away.                                     *)
KeyOf(c) == [i \in DOMAIN c |-> c[i].key]

LastAt(h, e, i) ==
  /\ e \in Key
  /\ i \in Slots(h.capacity)
  /\ LastOn(KeyOf(h.container), h.capacity,
            HashIndex(h.hash_fun, e, h.capacity), e, i)

KeepsLast(h, g) ==
  \A e, i : LastAt(h, e, i) =>
    LastAt(g, e, i) \/ \A j \in DOMAIN g.container : g.container[j].key # e

(* Of a new container.                                                     *)
LEMMA EmptyContainer ==
  ASSUME NEW n \in Nat, NEW E, NEW entry \in E,
         entry.key = NULL, NEW c, c = [i \in 0 .. n - 1 |-> entry]
  PROVE  Container(c, n, E) /\ Cardinality(Keyed(c, n)) = 0
<1>1. Container(c, n, E)
  BY DEF Container, Slots
<1>2. Keyed(c, n) = {}
  BY DEF Keyed, Slots
<1> QED BY <1>1, <1>2, FS_EmptySet

(* The copying loop of _htExpand.                                          *)
LEMMA RehashShape ==
  ASSUME NEW h, TableShape(h), NEW m \in Nat
  PROVE  /\ Container(H!Rehash(h, m), m, H!HTEntry)
         /\ Cardinality(Keyed(H!Rehash(h, m), m)) <=
              Cardinality(Keyed(h.container, h.capacity))
<1> DEFINE C == [Slots(m) -> H!HTEntry]
           N == h.capacity
           Next1(c, i) == H!Reinsert(c, m, h.hash_fun, h.container[i])
           first == H!Calloc(m)
           step == [i \in 0 .. N - 1 |-> [c \in C |-> Next1(c, i)]]
           Copies(f) ==
             f = [index \in 0 .. N |->
                    IF index = 0 THEN first ELSE Next1(f[index - 1], index - 1)]
           copy == CHOOSE f : Copies(f)
           Before(i) == {j \in 0 .. i - 1 : h.container[j].key # NULL}
           Fills(c, d) ==
             \E slot : \E entry \in H!HTEntry :
               ~entry.is_tombstone /\ d = [c EXCEPT ![slot] = entry]
           Transferred(c, i) ==
             /\ Container(c, m, H!HTEntry)
             /\ Cardinality(Keyed(c, m)) <= Cardinality(Before(i))
<1>1. /\ N \in Nat \ {0}
      /\ Container(h.container, N, H!HTEntry)
      /\ h.container \in [Slots(N) -> H!HTEntry]
  BY SpanIsPositive DEF TableShape, Container
<1>2. H!Vacant \in H!HTEntry /\ H!Vacant.key = NULL
  BY DEF H!Vacant, H!HTEntry
<1>3. first \in C /\ Container(first, m, H!HTEntry) /\ Cardinality(Keyed(first, m)) = 0
  BY <1>2, EmptyContainer DEF H!Calloc, Container
<1>4. ASSUME NEW i \in 0 .. N - 1, NEW c
      PROVE  \/ h.container[i].key = NULL /\ Next1(c, i) = c
             \/ /\ h.container[i].key # NULL
                /\ Fills(c, Next1(c, i))
  <2> DEFINE entry == h.container[i]
             filled == H!Filled(entry.key, entry.data)
  <2>1. entry \in H!HTEntry
    BY <1>1 DEF Slots
  <2>2. filled \in H!HTEntry /\ ~filled.is_tombstone
    BY <2>1 DEF H!Filled, H!HTEntry
  <2>3. CASE entry.key = NULL
    BY <2>3 DEF H!Reinsert
  <2>4. CASE entry.key # NULL
    <3>1. PICK slot : Next1(c, i) = [c EXCEPT ![slot] = filled]
      BY <2>4 DEF H!Reinsert
    <3> HIDE DEF filled, Next1
    <3> QED BY <2>2, <2>4, <3>1
  <2> QED BY <2>3, <2>4
<1>5. ASSUME NEW i \in 0 .. N - 1, NEW c \in C PROVE Next1(c, i) \in C
  <2> HIDE DEF Next1
  <2> QED BY <1>4
<1>6. step \in Steps(N, C)
  <2> HIDE DEF C, Next1, N
  <2> QED BY <1>5 DEF Steps
<1>7. PICK f : Recursive(f, N, C, first, step)
  <2> HIDE DEF C, step, first, N
  <2> QED BY <1>1, <1>3, <1>6, Recursion
<1>8. Copies(f)
  <2>1. f = [index \in 0 .. N |-> f[index]]
    BY <1>7 DEF Recursive
  <2>2. f[0] = first
    BY <1>7 DEF Recursive
  <2>3. ASSUME NEW i \in 1 .. N PROVE f[i] = Next1(f[i - 1], i - 1)
    <3> HIDE DEF C, Next1, N
    <3>1. i - 1 \in 0 .. N - 1 /\ i - 1 \in 0 .. N
      BY <1>1
    <3>2. f[i - 1] \in C /\ f[i] = step[i - 1][f[i - 1]]
      <4> HIDE DEF step
      <4> QED BY <1>7, <3>1 DEF Recursive
    <3> QED BY <3>1, <3>2
  <2> HIDE DEF first, Next1, N
  <2>4. \A i \in 0 .. N : f[i] = IF i = 0 THEN first ELSE Next1(f[i - 1], i - 1)
    <3>1. \A i \in 0 .. N : i = 0 \/ i \in 1 .. N
      BY <1>1
    <3> QED BY <2>2, <2>3, <3>1
  <2> QED BY <2>1, <2>4
<1>9. Copies(copy)
  <2> HIDE DEF Copies
  <2> QED BY <1>8
<1>10. H!Rehash(h, m) = copy[N]
  BY DEF H!Rehash
<1> HIDE DEF copy
<1>11. copy[0] = first /\ \A i \in 1 .. N : copy[i] = Next1(copy[i - 1], i - 1)
  <2> HIDE DEF first, Next1, N
  <2>1. \A i \in 0 .. N : copy[i] = IF i = 0 THEN first ELSE Next1(copy[i - 1], i - 1)
    BY <1>9
  <2> QED BY <1>1, <2>1
<1>12. \A i \in 0 .. N : IsFiniteSet(Before(i)) /\ Cardinality(Before(i)) \in Nat
  <2> SUFFICES ASSUME NEW i \in 0 .. N
               PROVE  IsFiniteSet(Before(i)) /\ Cardinality(Before(i)) \in Nat
    OBVIOUS
  <2>1. i \in Nat /\ Before(i) \in SUBSET Slots(i)
    BY <1>1 DEF Slots
  <2> HIDE DEF Before
  <2> QED BY <2>1, SlotsFinite
<1>13. Transferred(copy[0], 0)
  <2> HIDE DEF Before, first
  <2> QED BY <1>1, <1>3, <1>11, <1>12
<1>14. ASSUME NEW i \in 1 .. N, Transferred(copy[i - 1], i - 1) PROVE Transferred(copy[i], i)
  <2> DEFINE c == copy[i - 1]
  <2>1. i - 1 \in 0 .. N - 1 /\ i \in 0 .. N /\ i - 1 \in 0 .. N
    BY <1>1
  <2>2. copy[i] = Next1(c, i - 1)
    BY <1>11
  <2>3. Before(i) = IF h.container[i - 1].key = NULL THEN Before(i - 1)
                    ELSE Before(i - 1) \cup {i - 1}
    BY <2>1
  <2>4. i - 1 \notin Before(i - 1)
    BY <2>1
  <2>5. /\ IsFiniteSet(Before(i - 1)) /\ Cardinality(Before(i - 1)) \in Nat
    BY <1>12, <2>1
  <2>6. CASE h.container[i - 1].key = NULL
    <3>1. copy[i] = c
      <4> HIDE DEF c, Next1
      <4> QED BY <1>4, <2>1, <2>2, <2>6
    <3>2. Before(i) = Before(i - 1)
      BY <2>3, <2>6
    <3> HIDE DEF Before
    <3> QED BY <1>14, <3>1, <3>2
  <2>7. CASE h.container[i - 1].key # NULL
    <3>0. Fills(c, copy[i])
      <4> HIDE DEF c, Next1, Fills
      <4> QED BY <1>4, <2>1, <2>2, <2>7
    <3>1. PICK slot : \E entry \in H!HTEntry :
            ~entry.is_tombstone /\ copy[i] = [c EXCEPT ![slot] = entry]
      BY <3>0
    <3>4a. PICK entry \in H!HTEntry :
             ~entry.is_tombstone /\ copy[i] = [c EXCEPT ![slot] = entry]
      BY <3>1
    <3>2. /\ Container(copy[i], m, H!HTEntry)
          /\ Cardinality(Keyed(c, m)) \in Nat /\ Cardinality(Keyed(copy[i], m)) \in Nat
          /\ Cardinality(Keyed(copy[i], m)) <= Cardinality(Keyed(c, m)) + 1
      <4>1. Container(c, m, H!HTEntry)
        BY <1>14
      <4> HIDE DEF c
      <4> QED BY <3>4a, <4>1, WrittenContainer
    <3>3. Cardinality(Before(i)) = Cardinality(Before(i - 1)) + 1
      <4> HIDE DEF Before
      <4> QED BY <2>3, <2>4, <2>5, <2>7, FS_AddElement
    <3>4. Cardinality(Keyed(c, m)) <= Cardinality(Before(i - 1))
      BY <1>14
    <3> HIDE DEF Before, c
    <3> QED BY <2>5, <3>2, <3>3, <3>4
  <2> QED BY <2>6, <2>7
<1>15. Transferred(copy[N], N)
  <2> DEFINE T == {i \in 0 .. N : Transferred(copy[i], i)}
  <2>1. 0 \in T
    <3> HIDE DEF Transferred
    <3> QED BY <1>1, <1>13
  <2>2. \A i \in 1 .. N : i - 1 \in T => i \in T
    <3> HIDE DEF Transferred, N
    <3> QED BY <1>1, <1>14
  <2>3. \A i \in 0 .. N : i \in T
    <3> HIDE DEF T, N
    <3> QED BY <1>1, <2>1, <2>2, UpTo
  <2> HIDE DEF Transferred, N
  <2> QED BY <1>1, <2>3
<1>16. Before(N) = Keyed(h.container, N)
  BY DEF Keyed, Slots
<1> QED BY <1>10, <1>15, <1>16


(* What tables and sets have in common.                                    *)
Slotted(h, E) ==
  /\ h.capacity \in Nat \ {0}
  /\ h.hash_fun \in HashFun
  /\ Container(h.container, h.capacity, E)

LEMMA KeyOfContainer ==
  ASSUME NEW E, NEW h, Slotted(h, E)
  PROVE  /\ h.container \in [Slots(h.capacity) -> E]
         /\ DOMAIN h.container = Slots(h.capacity)
         /\ \A j \in Slots(h.capacity) : KeyOf(h.container)[j] = h.container[j].key
<1>1. h.container \in [Slots(h.capacity) -> E]
  BY DEF Slotted, Container
<1>2. DOMAIN h.container = Slots(h.capacity)
  BY <1>1
<1>3. \A j \in DOMAIN h.container : KeyOf(h.container)[j] = h.container[j].key
  BY DEF KeyOf
<1> QED BY <1>1, <1>2, <1>3

(* A slot of h is written, where a search for key may have ended.          *)
Writes(h, g, key, T, slot, entry, E) ==
  /\ key \in Key /\ entry \in E
  /\ T \in SUBSET Slots(h.capacity) /\ T # {}
  /\ \A j \in Slots(h.capacity) : h.container[j].key = key => j \in T
  /\ slot = FirstIn(T, HashIndex(h.hash_fun, key, h.capacity), h.capacity)
  /\ g.capacity = h.capacity /\ g.hash_fun = h.hash_fun
  /\ g.container = [h.container EXCEPT ![slot] = entry]

LEMMA WritesKeeps ==
  ASSUME NEW E, NEW h, Slotted(h, E), NEW g, NEW key, NEW T, NEW slot, NEW entry,
         Writes(h, g, key, T, slot, entry, E),
         \/ entry.key = key /\ h.container[slot].key \in {NULL, key}
         \/ entry.key = NULL /\ h.container[slot].key = key
  PROVE  slot \in T /\ KeepsLast(h, g)
<1> DEFINE n == h.capacity
           k == KeyOf(h.container)
           m == KeyOf(g.container)
           from == HashIndex(h.hash_fun, key, n)
<1>1. /\ n \in Nat \ {0} /\ h.hash_fun \in HashFun
      /\ key \in Key /\ T \in SUBSET Slots(n) /\ T # {}
      /\ slot = FirstIn(T, from, n)
      /\ g.capacity = n /\ g.hash_fun = h.hash_fun
  BY DEF Slotted, Writes
<1>2. from \in Slots(n)
  BY <1>1, StartIsSlot
<1>3. slot \in T /\ slot \in Slots(n)
  <2> HIDE DEF n, from
  <2> QED BY <1>1, <1>2, FirstInIsFirst
<1>4. \A j \in Slots(n) : k[j] = h.container[j].key
  BY KeyOfContainer
<1>5. /\ DOMAIN g.container = Slots(n)
      /\ \A j \in Slots(n) : g.container[j] = IF j = slot THEN entry ELSE h.container[j]
  BY KeyOfContainer DEF Writes
<1>6. \A j \in Slots(n) : m[j] = g.container[j].key
  <2>1. \A j \in DOMAIN g.container : m[j] = g.container[j].key
    BY DEF KeyOf
  <2> QED BY <1>5, <2>1
<1>7. /\ m[slot] = entry.key
      /\ \A j \in Slots(n) \ {slot} : m[j] = k[j]
  <2> HIDE DEF k, m, n
  <2> QED BY <1>3, <1>4, <1>5, <1>6
<1>8. \A j \in Slots(n) : k[j] = key => j \in T
  BY <1>4 DEF Writes
<1>9. ASSUME NEW e, NEW i, LastAt(h, e, i)
      PROVE  LastAt(g, e, i) \/ \A j \in DOMAIN g.container : g.container[j].key # e
  <2> DEFINE start == HashIndex(h.hash_fun, e, n)
  <2>1. e \in Key /\ e # NULL /\ i \in Slots(n) /\ LastOn(k, n, start, e, i)
    <3>1. e \in Key
      BY <1>9 DEF LastAt
    <3> QED BY <1>9, <3>1, IterAssumption DEF LastAt, H!HashTableAssumption
  <2>2. start \in Slots(n)
    BY <1>1, <2>1, StartIsSlot
  <2>3. e = key => from = start
    OBVIOUS
  <2>4. k[slot] = h.container[slot].key
    BY <1>3, <1>4
  <2>5. LastOn(m, n, start, e, i) \/ \A j \in Slots(n) : m[j] # e
    <3> HIDE DEF start, from, n, k, m
    <3>1. CASE entry.key = key /\ h.container[slot].key \in {NULL, key}
      <4>1. m[slot] = key /\ k[slot] \in {NULL, key}
        BY <1>7, <2>4, <3>1
      <4>2. LastOn(m, n, start, e, i)
        BY <1>1, <1>2, <1>7, <1>8, <2>1, <2>2, <2>3, <3>1, <4>1, StoreKeepsLast
      <4> QED BY <4>2
    <3>2. CASE entry.key = NULL /\ h.container[slot].key = key
      <4>1. m[slot] = NULL /\ k[slot] = key
        BY <1>7, <2>4, <3>2
      <4> QED BY <1>1, <1>2, <1>7, <1>8, <2>1, <2>2, <2>3, <3>2, <4>1, RemoveKeepsLast
    <3> QED BY <3>1, <3>2
  <2>6. LastOn(m, n, start, e, i) => LastAt(g, e, i)
    BY <1>1, <2>1 DEF LastAt
  <2> QED BY <1>5, <1>6, <2>5, <2>6
<1> QED BY <1>3, <1>9 DEF KeepsLast

LEMMA TableSlotted ==
  ASSUME NEW h, TableShape(h)
  PROVE  Slotted(h, H!HTEntry)
BY SpanIsPositive DEF TableShape, Slotted

LEMMA SetSlotted ==
  ASSUME NEW s, SetShape(s)
  PROVE  Slotted(s, S!SetEntry)
BY SpanIsPositive DEF SetShape, Slotted

(* Where _htSetData may end: there is such a slot.                         *)
LEMMA InsertionSlots ==
  ASSUME NEW h, TableShape(h), H!Fits(h), NEW key \in Key
  PROVE  LET c == h.container
             T == H!VacantSlots(c) \cup H!Tombstones(c) \cup H!Holding(c, key)
         IN  /\ T \in SUBSET Slots(h.capacity) /\ T # {}
             /\ \A j \in Slots(h.capacity) : c[j].key = key => j \in T
             /\ \A j \in T : c[j].key \in {NULL, key}
<1> DEFINE c == h.container
           n == h.capacity
           T == H!VacantSlots(c) \cup H!Tombstones(c) \cup H!Holding(c, key)
<1>1. /\ n \in Nat \ {0} /\ h.length \in Int
      /\ Container(c, n, H!HTEntry)
      /\ Cardinality(Keyed(c, n)) <= h.length
      /\ c \in [Slots(n) -> H!HTEntry] /\ DOMAIN c = Slots(n)
  BY SpanIsPositive DEF TableShape, Container
<1>2. key # NULL
  BY IterAssumption DEF H!HashTableAssumption
<1>3. \A j \in Slots(n) : c[j].is_tombstone => c[j].key = NULL
  BY <1>1 DEF Container
<1>4. \A j \in Slots(n) : c[j].key = key => j \in T
  BY <1>1, <1>2, <1>3 DEF H!Holding
<1>5. \A j \in Slots(n) : c[j].key = NULL => j \in T
  BY <1>1 DEF H!VacantSlots, H!Tombstones
<1>6. T \in SUBSET Slots(n)
  BY <1>1 DEF H!VacantSlots, H!Tombstones, H!Holding
<1>7. \A j \in T : c[j].key \in {NULL, key}
  BY <1>1, <1>3 DEF H!VacantSlots, H!Tombstones, H!Holding
<1>8. T # {}
  <2> SUFFICES ASSUME T = {} PROVE FALSE
    OBVIOUS
  <2>1. Keyed(c, n) = Slots(n)
    BY <1>5 DEF Keyed
  <2>2. Cardinality(Keyed(c, n)) = n
    BY <1>1, <2>1, SlotsFinite
  <2>3. h.length + 1 < n
    BY DEF H!Fits
  <2> QED BY <1>1, <2>2, <2>3
<1> QED BY <1>4, <1>6, <1>7, <1>8

LEMMA SetDataShape ==
  ASSUME NEW h, TableShape(h), H!Fits(h), NEW key \in Key, NEW data \in Datum,
         NEW g, g = H!SetData(h, key, data)
  PROVE  TableShape(g) /\ g.capacity = h.capacity /\ KeepsLast(h, g)
<1> DEFINE c == h.container
           n == h.capacity
           T == H!VacantSlots(c) \cup H!Tombstones(c) \cup H!Holding(c, key)
           slot == FirstIn(T, HashIndex(h.hash_fun, key, n), n)
           length == IF c[slot].key = key THEN h.length ELSE h.length + 1
           entry == IF c[slot].key = key THEN [c[slot] EXCEPT !.data = data]
                    ELSE H!Filled(key, data)
<1>1. /\ T \in SUBSET Slots(n) /\ T # {}
      /\ \A j \in Slots(n) : c[j].key = key => j \in T
      /\ \A j \in T : c[j].key \in {NULL, key}
  BY InsertionSlots
<1>2. Slotted(h, H!HTEntry)
  BY TableSlotted
<1>3. /\ h \in [capacity : 1 .. SizeSpan - 1, length : Int, hash_fun : HashFun,
                container : {c}]
      /\ c \in [Slots(n) -> H!HTEntry] /\ n \in Nat \ {0}
      /\ Container(c, n, H!HTEntry)
      /\ Cardinality(Keyed(c, n)) <= h.length
  BY <1>2 DEF TableShape, Slotted, Container
<1>4. slot \in T /\ slot \in Slots(n)
  <2>1. HashIndex(h.hash_fun, key, n) \in Slots(n)
    BY <1>3, StartIsSlot
  <2> HIDE DEF T
  <2> QED BY <1>1, <1>3, <2>1, FirstInIsFirst
<1>5. c[slot] \in H!HTEntry /\ c[slot].key \in {NULL, key}
  <2> HIDE DEF T, slot
  <2> QED BY <1>1, <1>3, <1>4
<1>6. /\ entry \in H!HTEntry /\ entry.key = key
      /\ entry.is_tombstone => entry.key = NULL
  <2>1. c[slot].is_tombstone => c[slot].key = NULL
    <3> HIDE DEF slot
    <3> QED BY <1>3, <1>4 DEF Container
  <2>2. CASE c[slot].key = key
    <3> HIDE DEF slot
    <3> QED BY <1>5, <2>1, <2>2 DEF H!HTEntry
  <2>3. CASE c[slot].key # key
    <3> HIDE DEF slot
    <3> QED BY <2>3 DEF H!HTEntry, H!Filled
  <2> QED BY <2>2, <2>3
<1>7. slot = H!FirstIn(T, H!HashIndex(h.hash_fun, key, n), n)
  BY SamePaths
<1>8. /\ g = [capacity |-> n, length |-> length, hash_fun |-> h.hash_fun,
              container |-> g.container]
      /\ g.container = [c EXCEPT ![slot] = entry]
  <2>1. CASE c[slot].key = key
    <3>1. g = [h EXCEPT !.container[slot].data = data]
      <4> HIDE DEF slot
      <4> QED BY <1>7, <2>1 DEF H!SetData
    <3>2. g = [h EXCEPT !.container = [c EXCEPT ![slot] = entry]]
      <4> HIDE DEF slot
      <4> QED BY <1>3, <2>1, <3>1
    <3> HIDE DEF slot, entry
    <3> QED BY <1>3, <2>1, <3>2
  <2>2. CASE c[slot].key # key
    <3>1. g = [h EXCEPT !.container[slot] = H!Filled(key, data), !.length = h.length + 1]
      <4> HIDE DEF slot
      <4> QED BY <1>7, <2>2 DEF H!SetData
    <3> HIDE DEF slot
    <3> QED BY <1>3, <2>2, <3>1
  <2> QED BY <2>1, <2>2
<1> HIDE DEF slot, entry, T
<1>9. Writes(h, g, key, T, slot, entry, H!HTEntry)
  BY <1>1, <1>6, <1>8 DEF Writes, slot
<1>10. KeepsLast(h, g)
  BY <1>2, <1>5, <1>6, <1>9, WritesKeeps
<1>11. /\ Container(g.container, n, H!HTEntry)
       /\ Cardinality(Keyed(g.container, n)) <= length
  <2>1. /\ Container(g.container, n, H!HTEntry)
        /\ Cardinality(Keyed(c, n)) \in Nat /\ Cardinality(Keyed(g.container, n)) \in Nat
        /\ Cardinality(Keyed(g.container, n)) <= Cardinality(Keyed(c, n)) + 1
        /\ slot \in Keyed(c, n) =>
             Cardinality(Keyed(g.container, n)) <= Cardinality(Keyed(c, n))
    BY <1>3, <1>6, <1>8, WrittenContainer
  <2>2. key # NULL
    BY IterAssumption DEF H!HashTableAssumption
  <2>3. c[slot].key = key => slot \in Keyed(c, n)
    BY <1>4, <2>2 DEF Keyed
  <2>4. h.length \in Int
    BY <1>3
  <2> QED BY <1>3, <2>1, <2>3, <2>4
<1>12. TableShape(g)
  <2>1. length \in Int /\ n \in 1 .. SizeSpan - 1 /\ h.hash_fun \in HashFun
    BY <1>3
  <2> HIDE DEF length, n
  <2>2. g \in [capacity : 1 .. SizeSpan - 1, length : Int, hash_fun : HashFun,
               container : {g.container}]
    BY <1>8, <2>1
  <2>3. g.capacity = n /\ g.length = length
    BY <1>8
  <2> QED BY <1>11, <2>2, <2>3 DEF TableShape
<1> QED BY <1>8, <1>10, <1>12

LEMMA PopShape ==
  ASSUME NEW h, TableShape(h), NEW key \in Key, H!Found(h, key),
         NEW g, g = [h EXCEPT !.container[H!LookupSlot(h, key)] = H!Tombstone,
                              !.length = h.length - 1]
  PROVE  TableShape(g) /\ KeepsLast(h, g)
<1> DEFINE c == h.container
           n == h.capacity
           T == H!LookupStops(h, key)
           slot == H!LookupSlot(h, key)
<1>1. Slotted(h, H!HTEntry)
  BY TableSlotted
<1>2. /\ h \in [capacity : 1 .. SizeSpan - 1, length : Int, hash_fun : HashFun,
                container : {c}]
      /\ c \in [Slots(n) -> H!HTEntry] /\ n \in Nat \ {0} /\ DOMAIN c = Slots(n)
      /\ Container(c, n, H!HTEntry)
      /\ Cardinality(Keyed(c, n)) <= h.length
  BY <1>1 DEF TableShape, Slotted, Container
<1>3. key # NULL
  BY IterAssumption DEF H!HashTableAssumption
<1>4. /\ T \in SUBSET Slots(n) /\ T # {}
      /\ \A j \in Slots(n) : c[j].key = key => j \in T
      /\ \A j \in T : c[j].key \in {NULL, key}
  <2>1. \A j \in Slots(n) : c[j].is_tombstone => c[j].key = NULL
    BY <1>2 DEF Container
  <2>2. T = H!VacantSlots(c) \cup H!Holding(c, key) /\ T # {}
    BY DEF H!LookupStops, H!Found
  <2>3. \A j \in Slots(n) : c[j].key = key => j \in T
    BY <1>2, <1>3, <2>1, <2>2 DEF H!Holding
  <2>4. /\ T \in SUBSET Slots(n)
        /\ \A j \in T : c[j].key \in {NULL, key}
    BY <1>2, <2>2 DEF H!VacantSlots, H!Holding
  <2> QED BY <2>2, <2>3, <2>4
<1>5. slot = FirstIn(T, HashIndex(h.hash_fun, key, n), n)
  BY SamePaths DEF H!LookupSlot
<1>6. slot \in T /\ slot \in Slots(n)
  <2>1. HashIndex(h.hash_fun, key, n) \in Slots(n)
    BY <1>2, StartIsSlot
  <2> HIDE DEF T, slot
  <2> QED BY <1>2, <1>4, <1>5, <2>1, FirstInIsFirst
<1>7. c[slot].key = key
  <2>1. c[slot].key # NULL
    BY DEF H!Found
  <2> QED BY <1>4, <1>6, <2>1
<1>8. H!Tombstone \in H!HTEntry /\ H!Tombstone.key = NULL
  BY DEF H!Tombstone, H!Vacant, H!HTEntry
<1> HIDE DEF slot, T
<1>9. /\ g = [capacity |-> n, length |-> h.length - 1, hash_fun |-> h.hash_fun,
              container |-> g.container]
      /\ g.container = [c EXCEPT ![slot] = H!Tombstone]
  <2>1. g = [h EXCEPT !.container = [c EXCEPT ![slot] = H!Tombstone],
                      !.length = h.length - 1]
    BY <1>2 DEF slot
  <2> QED BY <1>2, <2>1
<1>10. Writes(h, g, key, T, slot, H!Tombstone, H!HTEntry)
  BY <1>4, <1>5, <1>8, <1>9 DEF Writes
<1>11. KeepsLast(h, g)
  BY <1>1, <1>7, <1>8, <1>10, WritesKeeps
<1>12. /\ Container(g.container, n, H!HTEntry)
       /\ Cardinality(Keyed(g.container, n)) <= h.length - 1
  <2>1. slot \in Keyed(c, n)
    BY <1>3, <1>6, <1>7 DEF Keyed
  <2>2. /\ Container(g.container, n, H!HTEntry)
        /\ Cardinality(Keyed(c, n)) \in Nat /\ Cardinality(Keyed(g.container, n)) \in Nat
        /\ Cardinality(Keyed(g.container, n)) <= Cardinality(Keyed(c, n)) - 1
    BY <1>2, <1>8, <1>9, <2>1, WrittenContainer
  <2>3. h.length \in Int
    BY <1>2
  <2> QED BY <1>2, <2>2, <2>3
<1>13. TableShape(g)
  <2>1. h.length - 1 \in Int /\ n \in 1 .. SizeSpan - 1 /\ h.hash_fun \in HashFun
    BY <1>2
  <2> HIDE DEF n
  <2>2. g \in [capacity : 1 .. SizeSpan - 1, length : Int, hash_fun : HashFun,
               container : {g.container}]
    BY <1>9, <2>1
  <2>3. g.capacity = n /\ g.length = h.length - 1
    BY <1>9
  <2> QED BY <1>12, <2>2, <2>3 DEF TableShape
<1> QED BY <1>11, <1>13

(* The table htSet goes on with is the old one or a larger one.            *)
LEMMA ExpandedShape ==
  ASSUME NEW h, TableShape(h), NEW g \in H!Expanded(h)
  PROVE  TableShape(g) /\ (g = h \/ g.capacity > h.capacity)
<1> DEFINE m == Double(h.capacity)
           r == H!Rehash(h, m)
<1>1. \/ g = h
      \/ m > h.capacity /\ g = [h EXCEPT !.capacity = m, !.container = r]
  BY SameWidths DEF H!Expanded
<1>2. CASE m > h.capacity /\ g = [h EXCEPT !.capacity = m, !.container = r]
  <2>1. /\ h \in [capacity : 1 .. SizeSpan - 1, length : Int, hash_fun : HashFun,
                  container : {h.container}]
        /\ Cardinality(Keyed(h.container, h.capacity)) <= h.length
    BY DEF TableShape
  <2>2. m \in 1 .. SizeSpan - 1 /\ m \in Nat /\ h.capacity \in Nat
    <3>1. SizeSpan \in Nat \ {0} /\ h.capacity \in 1 .. SizeSpan - 1
      BY <2>1, SpanIsPositive
    <3>2. m \in 0 .. SizeSpan - 1
      BY <3>1 DEF Double
    <3> HIDE DEF m
    <3> QED BY <1>2, <3>1, <3>2
  <2> HIDE DEF m
  <2>3. /\ Container(r, m, H!HTEntry)
        /\ Cardinality(Keyed(r, m)) <= Cardinality(Keyed(h.container, h.capacity))
    BY <2>2, RehashShape
  <2>4. /\ Cardinality(Keyed(r, m)) \in Nat
        /\ Cardinality(Keyed(h.container, h.capacity)) \in Nat
    <3>1. Keyed(r, m) \in SUBSET Slots(m)
      BY DEF Keyed
    <3>2. Keyed(h.container, h.capacity) \in SUBSET Slots(h.capacity)
      BY DEF Keyed
    <3> HIDE DEF r
    <3> QED BY <2>2, <3>1, <3>2, SlotsFinite
  <2> HIDE DEF r
  <2>5. /\ g \in [capacity : 1 .. SizeSpan - 1, length : Int, hash_fun : HashFun,
                  container : {g.container}]
        /\ g.capacity = m /\ g.container = r /\ g.length = h.length
    BY <1>2, <2>1, <2>2
  <2>6. Cardinality(Keyed(r, m)) <= h.length
    BY <2>1, <2>3, <2>4
  <2> QED BY <1>2, <2>3, <2>5, <2>6 DEF TableShape
<1> QED BY <1>1, <1>2

LEMMA SameKeepsLast == \A h : KeepsLast(h, h)
BY DEF KeepsLast

(* What a call leaves of the table.                                        *)
TableKept ==
  /\ ht' # NULL => TableShape(ht')
  /\ ht # NULL /\ ht' # NULL /\ ht'.capacity = ht.capacity => KeepsLast(ht, ht')

LEMMA TableStep ==
  ASSUME ht # NULL => TableShape(ht), TableChanges
  PROVE  TableKept
<1>1. CASE ht' = ht
  BY <1>1, SameKeepsLast DEF TableKept
<1>2. ASSUME NEW hash_fun \in HashFun, NEW min_capacity \in MinCapacity,
             H!HtCreate(hash_fun, min_capacity)
      PROVE  TableKept
  <2>1. CASE \E capacity \in H!Capacities(min_capacity) :
               ht = NULL /\ ht' = H!NewTable(hash_fun, capacity)
    <3>1. PICK capacity \in H!Capacities(min_capacity) :
            ht = NULL /\ ht' = H!NewTable(hash_fun, capacity)
      BY <2>1
    <3>2. capacity \in 1 .. SizeSpan - 1 /\ capacity \in Nat
      BY SameWidths, CapacitiesInRange, VectorAssumption, SpanIsPositive
    <3> DEFINE c == H!Calloc(capacity)
    <3>3. Container(c, capacity, H!HTEntry) /\ Cardinality(Keyed(c, capacity)) = 0
      <4>1. H!Vacant \in H!HTEntry /\ H!Vacant.key = NULL
        BY DEF H!Vacant, H!HTEntry
      <4> QED BY <3>2, <4>1, EmptyContainer DEF H!Calloc
    <3>4. ht' = [capacity |-> capacity, length |-> 0, hash_fun |-> hash_fun,
                 container |-> c]
      BY <3>1 DEF H!NewTable
    <3> HIDE DEF c
    <3>5. TableShape([capacity |-> capacity, length |-> 0, hash_fun |-> hash_fun,
                      container |-> c])
      BY <3>2, <3>3 DEF TableShape
    <3> QED BY <3>1, <3>4, <3>5 DEF TableKept
  <2> QED BY <1>1, <1>2, <2>1 DEF H!HtCreate
<1>3. ASSUME NEW key \in Key, NEW data \in Datum, H!HtSet(key, data)
      PROVE  TableKept
  <2>1. CASE \E h \in H!Expanded(ht) :
               ht # NULL /\ ht' = IF H!Fits(h) THEN H!SetData(h, key, data) ELSE h
    <3>1. PICK h \in H!Expanded(ht) :
            ht # NULL /\ ht' = IF H!Fits(h) THEN H!SetData(h, key, data) ELSE h
      BY <2>1
    <3>2. TableShape(h) /\ (h = ht \/ h.capacity > ht.capacity)
      BY <3>1, ExpandedShape
    <3>3. TableShape(ht') /\ ht'.capacity = h.capacity /\ KeepsLast(h, ht')
      <4>1. CASE H!Fits(h)
        BY <3>1, <3>2, <4>1, SetDataShape
      <4>2. CASE ~H!Fits(h)
        BY <3>1, <3>2, <4>2, SameKeepsLast
      <4> QED BY <4>1, <4>2
    <3>4. ht.capacity \in Int /\ h.capacity \in Int
      BY <3>1, <3>2 DEF TableShape
    <3> QED BY <3>2, <3>3, <3>4 DEF TableKept
  <2> QED BY <1>1, <1>3, <2>1 DEF H!HtSet
<1>4. ASSUME NEW key \in Key, H!HtPop(key) PROVE TableKept
  <2>1. CASE ht # NULL /\ H!Found(ht, key)
    BY <1>4, <2>1, PopShape DEF H!HtPop, TableKept
  <2> QED BY <1>1, <1>4, <2>1 DEF H!HtPop
<1>5. CASE H!HtDelete
  BY <1>5 DEF H!HtDelete, TableKept
<1>6. (CHOOSE data \in Datum : TRUE) \in Datum
  BY IterAssumption
<1>7. ASSUME NEW key \in Key, H!HtSet(key, CHOOSE data \in Datum : TRUE)
      PROVE  TableKept
  BY <1>3, <1>6, <1>7
<1>8. CASE \E hash_fun \in HashFun, min_capacity \in MinCapacity :
             H!HtCreate(hash_fun, min_capacity)
  BY <1>2, <1>8
<1>9. CASE \E key \in Key :
             H!HtSet(key, CHOOSE data \in Datum : TRUE) \/ H!HtPop(key)
  <2>1. PICK key \in Key : H!HtSet(key, CHOOSE data \in Datum : TRUE) \/ H!HtPop(key)
    BY <1>9
  <2>2. CASE H!HtSet(key, CHOOSE data \in Datum : TRUE)
    BY <1>7, <2>2
  <2>3. CASE H!HtPop(key)
    BY <1>4, <2>3
  <2> QED BY <2>1, <2>2, <2>3
<1> QED BY <1>5, <1>8, <1>9 DEF TableChanges

(* Where a search for key in a set may end.                                *)
LEMMA SetStops ==
  ASSUME NEW s, SetShape(s), NEW key \in Key
  PROVE  /\ S!LookupStops(s, key) \in SUBSET Slots(s.capacity)
         /\ S!InsertStops(s, key) \in SUBSET Slots(s.capacity)
         /\ \A j \in Slots(s.capacity) : s.container[j].key = key =>
              j \in S!LookupStops(s, key) /\ j \in S!InsertStops(s, key)
         /\ \A j \in S!InsertStops(s, key) : s.container[j].key \in {NULL, key}
         /\ \A T : S!Stop(s, key, T) =
                     FirstIn(T, HashIndex(s.hash_fun, key, s.capacity), s.capacity)
         /\ HashIndex(s.hash_fun, key, s.capacity) \in Slots(s.capacity)
<1> DEFINE c == s.container
           n == s.capacity
<1>1. Slotted(s, S!SetEntry)
  BY SetSlotted
<1>2. /\ c \in [Slots(n) -> S!SetEntry] /\ DOMAIN c = Slots(n)
      /\ n \in Nat \ {0} /\ s.hash_fun \in HashFun
      /\ \A j \in Slots(n) : c[j].is_tombstone => c[j].key = NULL
  BY <1>1 DEF Slotted, Container
<1>3. key # NULL
  BY IterAssumption DEF H!HashTableAssumption
<1>4. /\ S!LookupStops(s, key) = S!VacantSlots(c) \cup S!Holding(c, key)
      /\ S!InsertStops(s, key) =
           S!VacantSlots(c) \cup S!Holding(c, key) \cup S!Tombstones(c)
  BY DEF S!LookupStops, S!InsertStops
<1>5. /\ S!VacantSlots(c) = {j \in Slots(n) : c[j].key = NULL /\ ~c[j].is_tombstone}
      /\ S!Tombstones(c) = {j \in Slots(n) : c[j].is_tombstone}
      /\ S!Holding(c, key) = {j \in Slots(n) : ~c[j].is_tombstone /\ c[j].key = key}
  <2> HIDE DEF c, n
  <2> QED BY <1>2 DEF S!VacantSlots, S!Tombstones, S!Holding
<1>6. \A T : S!Stop(s, key, T) = FirstIn(T, HashIndex(s.hash_fun, key, n), n)
  BY SamePaths DEF S!Stop, S!Start
<1>7. HashIndex(s.hash_fun, key, n) \in Slots(n)
  BY <1>2, StartIsSlot
<1>8. \A j \in Slots(n) : c[j].key = key =>
        j \in S!LookupStops(s, key) /\ j \in S!InsertStops(s, key)
  <2> HIDE DEF c, n
  <2> QED BY <1>2, <1>3, <1>4, <1>5
<1>9. \A j \in S!InsertStops(s, key) : c[j].key \in {NULL, key}
  <2> HIDE DEF c, n
  <2> QED BY <1>2, <1>4, <1>5
<1>10. /\ S!LookupStops(s, key) \in SUBSET Slots(n)
       /\ S!InsertStops(s, key) \in SUBSET Slots(n)
  <2> HIDE DEF c, n
  <2> QED BY <1>4, <1>5
<1> QED BY <1>6, <1>7, <1>8, <1>9, <1>10

(* g is s with another entry at slot.                                      *)
NewContainer(s, g, slot, entry) == g.container = [s.container EXCEPT ![slot] = entry]

Rewritten(s, g, slot, entry) == g = [s EXCEPT !.container[slot] = entry]

LEMMA WrittenSet ==
  ASSUME NEW s, SetShape(s), NEW slot, NEW entry \in S!SetEntry,
         entry.is_tombstone => entry.key = NULL,
         NEW g, Rewritten(s, g, slot, entry)
  PROVE  /\ SetShape(g) /\ g.capacity = s.capacity /\ g.hash_fun = s.hash_fun
         /\ NewContainer(s, g, slot, entry)
<1> DEFINE c == s.container
           n == s.capacity
<1>1. /\ s \in [capacity : 1 .. SizeSpan - 1, hash_fun : HashFun, container : {c}]
      /\ Container(c, n, S!SetEntry) /\ n \in Nat
  BY SetSlotted DEF SetShape, Slotted
<1>2. g = [capacity |-> n, hash_fun |-> s.hash_fun,
           container |-> [c EXCEPT ![slot] = entry]]
  BY <1>1 DEF Rewritten
<1>3. Container([c EXCEPT ![slot] = entry], n, S!SetEntry)
  BY <1>1, WrittenContainer
<1> DEFINE d == [c EXCEPT ![slot] = entry]
<1> HIDE DEF d
<1>4. /\ g \in [capacity : 1 .. SizeSpan - 1, hash_fun : HashFun, container : {d}]
      /\ g.capacity = n /\ g.hash_fun = s.hash_fun /\ g.container = d
  BY <1>1, <1>2 DEF d
<1> QED BY <1>3, <1>4 DEF SetShape, d, NewContainer

(* What a call leaves of the set.                                          *)
SetKept ==
  /\ set' # NULL => SetShape(set')
  /\ set # NULL /\ set' # NULL => KeepsLast(set, set')

LEMMA SetStep ==
  ASSUME set # NULL => SetShape(set), SetChanges
  PROVE  SetKept
<1>1. CASE set' = set
  BY <1>1, SameKeepsLast DEF SetKept
<1>2. ASSUME NEW hash_fun \in HashFun, NEW min_capacity \in MinCapacity,
             S!SetCreate(hash_fun, min_capacity)
      PROVE  SetKept
  <2>1. CASE \E capacity \in S!Capacities(min_capacity) :
               set = NULL /\ set' = S!NewSet(hash_fun, capacity)
    <3>1. PICK capacity \in S!Capacities(min_capacity) :
            set = NULL /\ set' = S!NewSet(hash_fun, capacity)
      BY <2>1
    <3>2. capacity \in 1 .. SizeSpan - 1 /\ capacity \in Nat
      BY SameWidths, CapacitiesInRange, VectorAssumption, SpanIsPositive
    <3> DEFINE c == [i \in 0 .. capacity - 1 |-> S!Vacant]
    <3>3. Container(c, capacity, S!SetEntry)
      <4>1. S!Vacant \in S!SetEntry /\ S!Vacant.key = NULL
        BY DEF S!Vacant, S!SetEntry
      <4> QED BY <3>2, <4>1, EmptyContainer
    <3>4. set' = [capacity |-> capacity, hash_fun |-> hash_fun, container |-> c]
      BY <3>1 DEF S!NewSet
    <3> HIDE DEF c
    <3>5. SetShape([capacity |-> capacity, hash_fun |-> hash_fun, container |-> c])
      BY <3>2, <3>3 DEF SetShape
    <3> QED BY <3>1, <3>4, <3>5 DEF SetKept
  <2> QED BY <1>1, <1>2, <2>1 DEF S!SetCreate
<1>3. ASSUME NEW key \in Key, NEW T, NEW slot, NEW entry, set # NULL,
             T \in SUBSET S!InsertStops(set, key), T # {},
             \A j \in Slots(set.capacity) : set.container[j].key = key => j \in T,
             slot = S!Stop(set, key, T), entry \in S!SetEntry,
             entry.is_tombstone => entry.key = NULL,
             \/ entry.key = key
             \/ entry.key = NULL /\ set.container[slot].key = key,
             Rewritten(set, set', slot, entry)
      PROVE  SetKept
  <2>1. SetShape(set) /\ Slotted(set, S!SetEntry)
    BY <1>3, SetSlotted
  <2>2. /\ SetShape(set') /\ set'.capacity = set.capacity
        /\ set'.hash_fun = set.hash_fun
        /\ NewContainer(set, set', slot, entry)
    BY <1>3, <2>1, WrittenSet
  <2>3. /\ T \in SUBSET Slots(set.capacity)
        /\ slot = FirstIn(T, HashIndex(set.hash_fun, key, set.capacity), set.capacity)
        /\ HashIndex(set.hash_fun, key, set.capacity) \in Slots(set.capacity)
    BY <1>3, <2>1, SetStops
  <2>4. slot \in T
    BY <1>3, <2>1, <2>3, FirstInIsFirst DEF Slotted
  <2>5. set.container[slot].key \in {NULL, key}
    BY <1>3, <2>1, <2>4, SetStops
  <2>6. Writes(set, set', key, T, slot, entry, S!SetEntry)
    BY <1>3, <2>2, <2>3 DEF Writes, NewContainer
  <2>7. KeepsLast(set, set')
    BY <1>3, <2>1, <2>5, <2>6, WritesKeeps
  <2> QED BY <2>2, <2>7 DEF SetKept
<1>4. ASSUME NEW key \in Key, S!SetInsert(key) PROVE SetKept
  <2>1. CASE /\ set # NULL /\ S!InsertStops(set, key) # {}
             /\ set' = S!Inserted(set, key)
    <3> DEFINE T == S!InsertStops(set, key)
               slot == S!Stop(set, key, T)
               entry == [is_tombstone |-> FALSE, key |-> key]
    <3>1. set' = set \/ Rewritten(set, set', slot, entry)
      BY <2>1 DEF S!Inserted, Rewritten
    <3>2. entry \in S!SetEntry /\ ~entry.is_tombstone /\ entry.key = key
      BY DEF S!SetEntry
    <3>3. \A j \in Slots(set.capacity) : set.container[j].key = key => j \in T
      BY <2>1, SetStops
    <3> HIDE DEF T, slot, entry
    <3>4. CASE Rewritten(set, set', slot, entry)
      BY <1>3, <2>1, <3>2, <3>3, <3>4 DEF T, slot
    <3> QED BY <1>1, <3>1, <3>4
  <2> QED BY <1>1, <1>4, <2>1 DEF S!SetInsert, S!Rejected, S!Fails
<1>5. ASSUME NEW key \in Key, S!SetPop(key) PROVE SetKept
  <2>1. CASE /\ set # NULL /\ S!Found(set, key)
             /\ set' = S!Removed(set, S!Stop(set, key, S!LookupStops(set, key)))
    <3> DEFINE T == S!LookupStops(set, key)
               slot == S!Stop(set, key, T)
               entry == [is_tombstone |-> TRUE, key |-> NULL]
    <3>1. Rewritten(set, set', slot, entry)
      BY <2>1 DEF S!Removed, Rewritten
    <3>2. entry \in S!SetEntry /\ entry.key = NULL
      BY DEF S!SetEntry
    <3>3. /\ \A j \in Slots(set.capacity) : set.container[j].key = key => j \in T
          /\ T \in SUBSET S!InsertStops(set, key)
      BY <2>1, SetStops DEF S!InsertStops
    <3>4. T # {} /\ set.container[slot].key = key
      BY <2>1 DEF S!Found, S!Holding
    <3> HIDE DEF T, slot, entry
    <3> QED BY <1>3, <2>1, <3>1, <3>2, <3>3, <3>4 DEF slot
  <2> QED BY <1>1, <1>5, <2>1 DEF S!SetPop, S!Rejected, S!Fails
<1>6. CASE S!SetDelete
  BY <1>6 DEF S!SetDelete, SetKept
<1>7. CASE \E hash_fun \in HashFun, min_capacity \in MinCapacity :
             S!SetCreate(hash_fun, min_capacity)
  BY <1>2, <1>7
<1>8. CASE \E key \in Key : S!SetInsert(key) \/ S!SetPop(key)
  BY <1>4, <1>5, <1>8
<1> QED BY <1>6, <1>7, <1>8 DEF SetChanges

-----------------------------------------------------------------------------
(* Vectors and tuples: the calls are those of Tuple.                       *)

TheHandle == CHOOSE h \in Handle : TRUE

LEMMA TheHandleIsOne == TheHandle \in Handle
BY IterAssumption DEF TheHandle

LEMMA LinearStep ==
  ASSUME \/ VectorChanges /\ UNCHANGED tuple
         \/ TupleChanges
  PROVE  TupleNext
<1>0. DATA_SIZE \in {0, DATA_SIZE}
  OBVIOUS
<1>1. CASE VectorChanges /\ UNCHANGED tuple
  <2>1. Next
    BY <1>1 DEF VectorChanges, Next
  <2> QED BY <1>1, <2>1 DEF TupleNext
<1>2. CASE TupleChanges
  <2>1. CASE /\ \E h \in Handle :
                  \/ VectorDelete(h)
                  \/ \E data \in Datum, index \in Index : VectorUpdate(h, data, index)
             /\ UNCHANGED tuple
    <3>1. Next
      BY <2>1 DEF Next
    <3> QED BY <2>1, <3>1 DEF TupleNext
  <2>2. CASE \/ \E values \in Arrays : TupleCreate(DATA_SIZE, values)
             \/ TupleDelete
             \/ \E h \in Handle : VectorToTuple(h) \/ TupleToVector(h)
    BY <1>0, <2>2 DEF TupleNext, TupleCalls
  <2> QED BY <1>2, <2>1, <2>2 DEF TupleChanges
<1> QED BY <1>1, <1>2

(* A vector that stays where it is does not become shorter.                *)
LEMMA VectorNotShorter ==
  ASSUME Inv, VectorChanges, NEW h \in Handle, vec[h] # NULL, vec'[h] # NULL
  PROVE  vec[h].length \in Nat /\ vec'[h].length >= vec[h].length
<1>0. vec \in [Handle -> VectorStruct \cup {NULL}] /\ vec[h] \in VectorStruct
  BY DEF Inv
<1>1. vec[h].length \in Nat
  BY <1>0 DEF VectorStruct
<1>2. CASE vec'[h] = vec[h]
  BY <1>1, <1>2
<1>3. CASE UNCHANGED vec
  BY <1>2, <1>3
<1>4. ASSUME NEW g \in Handle, NEW min_capacity, NEW arr, vec[g] = NULL,
             New(g, min_capacity, arr)
      PROVE  vec'[h] = vec[h]
  BY <1>0, <1>4 DEF New
<1>5. ASSUME NEW g \in Handle, VectorDelete(g) PROVE vec'[h] = vec[h]
  BY <1>0, <1>5 DEF VectorDelete, Refuse
<1>6. ASSUME NEW g \in Handle, NEW data, VectorPrepend(g, data)
      PROVE  vec'[h].length >= vec[h].length
  <2>1. CASE \E grown \in Expanded(vec[g]) :
               vec[g] # NULL /\ Prepended(g, grown, data, <<g, data>>)
    <3>1. PICK grown \in Expanded(vec[g]) :
            vec[g] # NULL /\ Prepended(g, grown, data, <<g, data>>)
      BY <2>1
    <3> DEFINE v == grown.struct
    <3>2. \/ UNCHANGED vec
          \/ vec' = [vec EXCEPT ![g] = v]
          \/ vec' = [vec EXCEPT ![g] = [v EXCEPT !.length = v.length + 1]]
      BY <3>1 DEF Prepended
    <3>3. v \in VectorStruct /\ v.length = vec[g].length
      BY <3>1, ExpandedSound
    <3>4. CASE g = h
      <4>1. vec'[h] = vec[h] \/ vec'[h] = v \/ vec'[h] = [v EXCEPT !.length = v.length + 1]
        <5> HIDE DEF v
        <5> QED BY <1>0, <3>2, <3>4
      <4>2. vec'[h].length = vec[h].length \/ vec'[h].length = vec[h].length + 1
        <5> HIDE DEF v
        <5> QED BY <3>3, <3>4, <4>1 DEF VectorStruct
      <4> QED BY <1>1, <4>2
    <3>5. CASE g # h
      <4>1. vec'[h] = vec[h]
        <5> HIDE DEF v
        <5> QED BY <1>0, <3>2, <3>5
      <4> QED BY <1>1, <4>1
    <3> QED BY <3>4, <3>5
  <2>2. CASE vec[g] = NULL
    BY <1>1, <1>6, <2>2 DEF VectorPrepend, Fault
  <2> QED BY <1>6, <2>1, <2>2 DEF VectorPrepend
<1>7. PICK g \in Handle :
        \/ \E min_capacity \in MinCapacity : VectorCreate(g, min_capacity)
        \/ \E arr \in Arrays : VectorFromArray(g, arr)
        \/ VectorDelete(g)
        \/ \E data \in Datum : VectorPrepend(g, data)
        \/ \E data \in Datum, index \in Index : VectorUpdate(g, data, index)
  BY DEF VectorChanges
<1>8. CASE \E min_capacity \in MinCapacity : VectorCreate(g, min_capacity)
  BY <1>2, <1>4, <1>8 DEF VectorCreate, Refuse, Fault
<1>9. CASE \E arr \in Arrays : VectorFromArray(g, arr)
  BY <1>2, <1>4, <1>9 DEF VectorFromArray, Refuse, Fault
<1>10. CASE \E data \in Datum, index \in Index : VectorUpdate(g, data, index)
  BY <1>3, <1>10 DEF VectorUpdate
<1> QED BY <1>1, <1>2, <1>5, <1>6, <1>7, <1>8, <1>9, <1>10

(* A tuple that stays is the same.                                         *)
LEMMA TupleSame ==
  ASSUME TupleChanges, tuple # NULL, tuple' # NULL
  PROVE  tuple' = tuple
BY DEF TupleChanges, TupleCreate, VectorToTuple, Make, TupleToVector, Unmoved,
       TupleDelete

-----------------------------------------------------------------------------
(* The invariant of the loop.                                              *)

IterStruct == [index : Nat, index_max : Nat,
               container : Nat \cup Buffer \cup Node \cup {NULL}]

Control ==
  /\ type \in {"VECTOR", "TUPLE", "SLLIST", "HASH_TABLE", "SET"}
  /\ loop \in {"out", "at", "read", "stopped"}
  /\ ground \in {"firm", "empty", "short", "freed"}
  /\ iter \in IterStruct \cup {NULL}
  /\ loop = "out" => iter = NULL /\ ground = "firm"
  /\ InLoop => iter # NULL /\ (ground = "firm" => iter.index_max # 0)
  /\ iter # NULL /\ iter.index_max # 0 => iter.index \in 0 .. iter.index_max - 1
  /\ loop = "stopped" => ground # "firm" \/ type = "SET"

(* The places the client has yet to be shown.                              *)
Ahead == (IF loop = "read" THEN iter.index + 1 ELSE iter.index) .. iter.index_max - 1

(* The iterator is on the buffer of the vector or tuple, which has not     *)
(* become shorter; what has stayed and was not shown so far is ahead.      *)
OnArray ==
  type \in {"VECTOR", "TUPLE"} /\ InLoop /\ ground = "firm" =>
    /\ Struct # NULL
    /\ iter.container = Struct.container
    /\ iter.index_max <= Struct.length
    /\ \A e \in stay \ seen : \E i \in Ahead : e = <<i, heap[iter.container][i]>>

(* It remembers how many slots there are; each key that has stayed and was *)
(* not shown so far is stored for the last time in a slot ahead.           *)
OnSlots ==
  Hashed /\ InLoop =>
    /\ iter.container = iter.index_max
    /\ ground = "firm" =>
         /\ Struct # NULL
         /\ Struct.capacity = iter.index_max
         /\ \A e \in stay \ seen : \E i \in Ahead : LastAt(Struct, e, i)

(* f leads through the nodes the iterator visits, among which are all that *)
(* have stayed and were not shown so far.                                  *)
Route(f, P) ==
  /\ Path(f, iter.index_max, P)
  /\ f[iter.index] = iter.container
  /\ \A e \in stay \ seen : \E i \in Ahead : e = <<f[i], node[f[i]].data>>

(* It is on one of the nodes P, and from there a path leads through as     *)
(* many of them as it still has to visit.                                  *)
OnNodes(P) ==
  type = "SLLIST" /\ InLoop /\ ground # "freed" =>
    /\ iter.container \in P \cup {NULL}
    /\ iter.container # NULL => list # NULL /\ list.head # NULL
    /\ loop = "read" => iter.container # NULL
    /\ ground = "firm" =>
         iter.index_max < SizeSpan /\ \E f : Route(f, P)

LoopInv ==
  /\ TupleInv
  /\ ListShape
  /\ Shapes
  /\ Control
  /\ OnArray
  /\ OnSlots
  /\ \E P \in SUBSET Node : Closed(P) /\ OnNodes(P)

LEMMA IterIsNotNull == NULL \notin IterStruct
BY IterAssumption DEF IterStruct

LEMMA StructIs ==
  /\ type = "VECTOR" => Struct = vec[TheHandle]
  /\ type = "TUPLE" => Struct = tuple
  /\ type = "SLLIST" => Struct = list
  /\ type = "HASH_TABLE" => Struct = ht
  /\ type = "SET" => Struct = set
BY DEF Struct, TheHandle

LEMMA NextStructIs ==
  /\ type' = "VECTOR" => Struct' = vec'[TheHandle]
  /\ type' = "TUPLE" => Struct' = tuple'
  /\ type' = "SLLIST" => Struct' = list'
  /\ type' = "HASH_TABLE" => Struct' = ht'
  /\ type' = "SET" => Struct' = set'
BY DEF Struct, TheHandle

(* The elements there are, now and after a call.                           *)
LEMMA PresentIs ==
  ASSUME Struct # NULL
  PROVE  /\ type \in {"VECTOR", "TUPLE"} =>
              Counted = {<<i, heap[Struct.container][i]>> : i \in 0 .. Struct.length - 1}
         /\ Hashed =>
              Counted = {Struct.container[i].key : i \in DOMAIN Struct.container} \ {NULL}
<1>1. CASE type \in {"VECTOR", "TUPLE"}
  <2>1. type # "SLLIST" /\ ~Hashed
    BY <1>1 DEF Hashed
  <2> QED BY <2>1 DEF Counted, Present
<1>2. CASE Hashed
  <2>1. type # "SLLIST" /\ type \notin {"VECTOR", "TUPLE"}
    BY <1>2 DEF Hashed
  <2> QED BY <1>2, <2>1 DEF Counted, Present
<1> QED BY <1>1, <1>2

LEMMA NextPresentInArray ==
  ASSUME type' \in {"VECTOR", "TUPLE"}
  PROVE  \A e \in Present' : \E i : e = <<i, heap'[(Struct').container][i]>>
<1>1. type' # "SLLIST" /\ ~Hashed'
  BY DEF Hashed
<1>2. Present' = IF Struct' = NULL THEN {}
                 ELSE {<<i, heap'[(Struct').container][i]>> :
                         i \in 0 .. (Struct').length - 1}
  BY <1>1 DEF Present
<1> QED BY <1>2

LEMMA NextPresentInSlots ==
  ASSUME Hashed'
  PROVE  \A e \in Present' :
           \E i \in DOMAIN (Struct').container : e = (Struct').container[i].key
<1>1. type' # "SLLIST"
  BY DEF Hashed
<1>2. Present' = IF Struct' = NULL THEN {}
                 ELSE {(Struct').container[i].key :
                         i \in DOMAIN (Struct').container} \ {NULL}
  BY <1>1 DEF Present
<1> QED BY <1>2

(* What the client sees at the place the iterator is at.                   *)
LEMMA ShownIs ==
  /\ type \in {"VECTOR", "TUPLE"} =>
       Shown = {<<iter.index, heap[iter.container][iter.index]>>}
  /\ type = "SLLIST" => Shown = {<<iter.container, node[iter.container].data>>}
  /\ Hashed => Shown = {Struct.container[iter.index].key} \ {NULL}
<1>1. CASE type \in {"VECTOR", "TUPLE"}
  <2>1. type # "SLLIST" /\ ~Hashed
    BY <1>1 DEF Hashed
  <2> QED BY <1>1, <2>1 DEF Shown
<1>2. CASE Hashed
  <2>1. type # "SLLIST" /\ type \notin {"VECTOR", "TUPLE"}
    BY <1>2 DEF Hashed
  <2> QED BY <1>2, <2>1 DEF Shown
<1>3. CASE type = "SLLIST"
  <2>1. ~Hashed
    BY <1>3 DEF Hashed
  <2> QED BY <1>3, <2>1 DEF Shown
<1> QED BY <1>1, <1>2, <1>3

(* A table or set has its shape.                                           *)
LEMMA HashedShape ==
  ASSUME Hashed, Shapes, Struct # NULL
  PROVE  \/ TableShape(Struct) /\ Slotted(Struct, H!HTEntry)
         \/ SetShape(Struct) /\ Slotted(Struct, S!SetEntry)
<1>1. TableShape(Struct) \/ SetShape(Struct)
  BY StructIs DEF Shapes, Hashed
<1> QED BY <1>1, TableSlotted, SetSlotted

(* Each key of a table or set is stored for the last time somewhere.       *)
LEMMA KeysHaveLast ==
  ASSUME Hashed, Shapes, Struct # NULL
  PROVE  \A e \in Counted : \E i \in Slots(Struct.capacity) : LastAt(Struct, e, i)
<1> DEFINE n == Struct.capacity
           c == Struct.container
<1>1. PICK E : /\ Slotted(Struct, E)
               /\ \A x \in E : x.key \in Key \cup {NULL}
  <2>1. \A x \in H!HTEntry : x.key \in Key \cup {NULL}
    BY DEF H!HTEntry
  <2>2. \A x \in S!SetEntry : x.key \in Key \cup {NULL}
    BY DEF S!SetEntry
  <2> QED BY <2>1, <2>2, HashedShape
<1>2. /\ c \in [Slots(n) -> E] /\ DOMAIN c = Slots(n)
      /\ \A j \in Slots(n) : KeyOf(c)[j] = c[j].key
  BY <1>1, KeyOfContainer
<1>3. n \in Nat \ {0} /\ Struct.hash_fun \in HashFun
  BY <1>1 DEF Slotted
<1> SUFFICES ASSUME NEW e \in Counted
             PROVE  \E i \in Slots(n) : LastAt(Struct, e, i)
  OBVIOUS
<1> HIDE DEF n, c
<1>4. PICK j \in Slots(n) : c[j].key = e /\ e # NULL
  BY <1>2, PresentIs DEF c
<1>5. e \in Key /\ KeyOf(c)[j] = e
  BY <1>1, <1>2, <1>4
<1>6. HashIndex(Struct.hash_fun, e, n) \in Slots(n)
  BY <1>3, <1>5, StartIsSlot
<1>7. PICK i \in Slots(n) : LastOn(KeyOf(c), n, HashIndex(Struct.hash_fun, e, n), e, i)
  BY <1>3, <1>5, <1>6, LastExists
<1>8. LastAt(Struct, e, i)
  BY <1>5, <1>7 DEF LastAt, n, c
<1> QED BY <1>8

LEMMA LastIsKey ==
  ASSUME Hashed, Shapes, Struct # NULL, NEW e, NEW i, LastAt(Struct, e, i)
  PROVE  Struct.container[i].key = e /\ e # NULL
<1>1. PICK E : Slotted(Struct, E)
  BY HashedShape
<1>2. /\ e \in Key /\ i \in Slots(Struct.capacity)
      /\ KeyOf(Struct.container)[i] = e
  BY DEF LastAt, LastOn
<1> QED BY <1>1, <1>2, KeyOfContainer, IterAssumption DEF H!HashTableAssumption

(* The elements of a vector or tuple are in its buffer.                    *)
LEMMA ElementsInBuffer ==
  ASSUME TupleInv, Struct # NULL
  PROVE  /\ type = "VECTOR" =>
              /\ Struct \in VectorStruct
              /\ 0 .. Struct.length - 1 \subseteq DOMAIN heap[Struct.container]
         /\ type = "TUPLE" =>
              /\ Struct \in TupleStruct
              /\ 0 .. Struct.length - 1 \subseteq DOMAIN heap[Struct.container]
<1>1. CASE type = "VECTOR"
  <2> DEFINE v == vec[TheHandle]
  <2>1. Struct = v /\ TheHandle \in Held
    BY <1>1, StructIs, TheHandleIsOne DEF Held
  <2> DEFINE room == Room(v.capacity)
  <2>2. v \in VectorStruct /\ v.length \in Nat
    BY <2>1, TheHandleIsOne DEF TupleInv, BoundedInv, Inv, Held, VectorStruct
  <2>3. DOMAIN heap[v.container] = 0 .. room - 1 /\ room \in Nat /\ v.length <= room
    BY <2>1, TheHandleIsOne, ElementsAre DEF TupleInv, Held
  <2>4. 0 .. v.length - 1 \subseteq 0 .. room - 1
    <3> HIDE DEF v, room
    <3> QED BY <2>2, <2>3
  <2> HIDE DEF room
  <2> QED BY <1>1, <2>1, <2>2, <2>3, <2>4
<1>2. CASE type = "TUPLE"
  <2>1. Struct = tuple /\ tuple # NULL
    BY <1>2, StructIs
  <2>2. tuple \in TupleStruct /\ DOMAIN heap[tuple.container] = 0 .. tuple.length - 1
    BY <2>1 DEF TupleInv, TupleBlock
  <2> QED BY <1>2, <2>1, <2>2
<1> QED BY <1>1, <1>2

(* The three cases of Readable.                                            *)
LEMMA ReadableIs ==
  ASSUME ground # "freed"
  PROVE  /\ type = "SLLIST" => (Readable <=> iter.container # NULL)
         /\ type # "SLLIST" /\ Hashed => (Readable <=> iter.index < iter.container)
         /\ type # "SLLIST" /\ ~Hashed =>
              (Readable <=> iter.index \in DOMAIN heap[iter.container])
<1>1. type = "SLLIST" => (Readable <=> iter.container # NULL)
  <2>1. type = "SLLIST" => ~Hashed
    BY DEF Hashed
  <2> QED BY <2>1 DEF Readable
<1>2. type # "SLLIST" /\ Hashed => (Readable <=> iter.index < iter.container)
  BY DEF Readable
<1>3. type # "SLLIST" /\ ~Hashed =>
        (Readable <=> iter.index \in DOMAIN heap[iter.container])
  BY DEF Readable
<1> QED BY <1>1, <1>2, <1>3

(* What the iterator points to may be read as long as the ground is firm.  *)
LEMMA FirmReadable ==
  ASSUME LoopInv, InLoop, ground = "firm"
  PROVE  Readable
<1>1. /\ iter \in IterStruct /\ iter.index \in 0 .. iter.index_max - 1
      /\ ground # "freed"
  BY DEF LoopInv, Control
<1>2. CASE type \in {"VECTOR", "TUPLE"}
  <2>1. /\ Struct # NULL /\ iter.container = Struct.container
        /\ iter.index_max <= Struct.length
    BY <1>2 DEF LoopInv, OnArray
  <2>2. /\ 0 .. Struct.length - 1 \subseteq DOMAIN heap[Struct.container]
        /\ Struct \in VectorStruct \/ Struct \in TupleStruct
    BY <1>2, <2>1, ElementsInBuffer DEF LoopInv
  <2>3. Struct.length \in Int
    BY <2>2, SpanIsPositive DEF VectorStruct, TupleStruct
  <2>4. iter.index \in 0 .. Struct.length - 1
    BY <1>1, <2>1, <2>3 DEF IterStruct
  <2>5. iter.index \in DOMAIN heap[iter.container]
    BY <2>1, <2>2, <2>4
  <2>6. type # "SLLIST" /\ ~Hashed
    BY <1>2 DEF Hashed
  <2> QED BY <1>1, <2>5, <2>6, ReadableIs
<1>3. CASE type = "SLLIST"
  <2>1. PICK P \in SUBSET Node : OnNodes(P)
    BY DEF LoopInv
  <2>2. PICK f : Path(f, iter.index_max, P) /\ f[iter.index] = iter.container
    BY <1>3, <2>1 DEF OnNodes, Route
  <2>3. iter.container \in P
    BY <1>1, <2>2 DEF Path
  <2> QED BY <1>1, <1>3, <2>3, ListFacts, ReadableIs
<1>4. CASE Hashed
  <2>1. iter.container = iter.index_max
    BY <1>4 DEF LoopInv, OnSlots
  <2>2. iter.index < iter.container
    BY <1>1, <2>1 DEF IterStruct
  <2>3. type # "SLLIST"
    BY <1>4 DEF Hashed
  <2> QED BY <1>1, <1>4, <2>2, <2>3, ReadableIs
<1> QED BY <1>2, <1>3, <1>4 DEF LoopInv, Control, Hashed

-----------------------------------------------------------------------------
(* The steps of the iterator, which leave the container alone.             *)

LEMMA ContainerSame ==
  ASSUME LoopInv, UNCHANGED <<Containers, type>>
  PROVE  /\ TupleInv' /\ ListShape' /\ Shapes'
         /\ Struct' = Struct /\ Hashed' = Hashed
         /\ \A P \in SUBSET Node : Closed(P) => Closed(P)'
<1>1. /\ UNCHANGED tupleVars
      /\ UNCHANGED <<vec, tuple, list, node, ht, set, type>>
  BY DEF Containers, linear, tupleVars, vars, lists, hashes
<1>2. TupleInv'
  BY <1>1, TupleStep DEF LoopInv
<1>3. ListShape' /\ Shapes'
  BY <1>1 DEF LoopInv, ListShape, Shapes
<1>4. Struct' = Struct /\ Hashed' = Hashed
  BY <1>1 DEF Struct, Hashed
<1>5. \A P \in SUBSET Node : Closed(P) => Closed(P)'
  BY <1>1 DEF Closed
<1> QED BY <1>2, <1>3, <1>4, <1>5

(* Outside of the loop nothing is claimed of the iterator.                 *)
LEMMA NotInLoop ==
  ASSUME ~InLoop', \E P \in SUBSET Node : Closed(P)'
  PROVE  /\ OnArray' /\ OnSlots'
         /\ \E P \in SUBSET Node : Closed(P)' /\ OnNodes(P)'
BY DEF OnArray, OnSlots, OnNodes

LEMMA LeaveInv ==
  ASSUME LoopInv, Leave, UNCHANGED Containers
  PROVE  LoopInv'
<1>1. UNCHANGED type /\ iter' = NULL /\ loop' = "out" /\ ground' = "firm"
  BY DEF Leave
<1>2. /\ TupleInv' /\ ListShape' /\ Shapes'
      /\ \E P \in SUBSET Node : Closed(P)'
  BY <1>1, ContainerSame DEF LoopInv
<1>3. Control' /\ ~InLoop'
  BY <1>1 DEF LoopInv, Control, InLoop
<1> QED BY <1>2, <1>3, NotInLoop DEF LoopInv

LEMMA StopInv ==
  ASSUME LoopInv, InLoop, Stop,
         UNCHANGED Containers, ground # "firm" \/ type = "SET"
  PROVE  LoopInv'
<1>1. loop' = "stopped" /\ UNCHANGED <<type, iter, ground>>
  BY DEF Stop
<1>2. /\ TupleInv' /\ ListShape' /\ Shapes'
      /\ \E P \in SUBSET Node : Closed(P)'
  BY <1>1, ContainerSame DEF LoopInv
<1>3. Control' /\ ~InLoop'
  BY <1>1 DEF LoopInv, Control, InLoop
<1> QED BY <1>2, <1>3, NotInLoop DEF LoopInv

(* What iterCreate copies.                                                 *)
LEMMA CopiedFields ==
  ASSUME LoopInv, Struct # NULL
  PROVE  /\ Bound \in Nat
         /\ Start \in Nat \cup Buffer \cup Node \cup {NULL}
         /\ type \in {"VECTOR", "TUPLE"} =>
              Bound = Struct.length /\ Start = Struct.container
         /\ Hashed => Start = Bound /\ Bound = Struct.capacity
         /\ type = "SLLIST" => Bound = list.length /\ Start = list.head
<1>1. CASE type \in {"VECTOR", "TUPLE"}
  <2>1. ~Hashed /\ type # "SLLIST"
    BY <1>1 DEF Hashed
  <2>2. Bound = Struct.length /\ Start = Struct.container
    BY <2>1 DEF Bound, Start
  <2>3. Struct \in VectorStruct \/ Struct \in TupleStruct
    BY <1>1, ElementsInBuffer DEF LoopInv
  <2>4. Struct.length \in Nat /\ Struct.container \in Buffer
    BY <2>3, SpanIsPositive DEF VectorStruct, TupleStruct
  <2> QED BY <2>1, <2>2, <2>4
<1>2. CASE type = "SLLIST"
  <2>1. ~Hashed
    BY <1>2 DEF Hashed
  <2>2. Struct = list
    BY <1>2, StructIs
  <2>3. Bound = list.length /\ Start = list.head
    BY <1>2, <2>1, <2>2 DEF Bound, Start
  <2>4. list.length \in Nat /\ list.head \in Node \cup {NULL}
    BY <2>2, SpanIsPositive DEF LoopInv, ListShape, ListStruct, Address
  <2> QED BY <1>2, <2>1, <2>3, <2>4
<1>3. CASE Hashed
  <2>1. type # "SLLIST" /\ type \notin {"VECTOR", "TUPLE"}
    BY <1>3 DEF Hashed
  <2>2. Bound = Struct.capacity /\ Start = Struct.capacity
    BY <1>3, <2>1 DEF Bound, Start
  <2>3. TableShape(Struct) \/ SetShape(Struct)
    BY <1>3, StructIs DEF LoopInv, Shapes, Hashed
  <2>4. Struct.capacity \in Nat
    BY <2>3, SpanIsPositive DEF TableShape, SetShape
  <2> QED BY <2>1, <2>2, <2>4
<1> QED BY <1>1, <1>2, <1>3 DEF LoopInv, Control, Hashed

(* The nodes the length of a list stands for are on the route.             *)
LEMMA CountedOnRoute ==
  ASSUME type = "SLLIST", list # NULL, NEW f,
         \A i \in 0 .. list.length - 1 : f[i] = L!Reached(list.head)[i]
  PROVE  \A e \in Counted :
           \E i \in 0 .. list.length - 1 : e = <<f[i], node[f[i]].data>>
<1>1. Struct = list /\ ~Hashed
  BY StructIs DEF Hashed
<1>2. Present = {<<n, node[n].data>> : n \in L!Chain}
  BY <1>1 DEF Present
<1>3. \A e \in Counted :
        e \in Present /\ \E i \in 0 .. list.length - 1 : L!Reached(list.head)[i] = e[1]
  BY <1>1 DEF Counted
<1> QED BY <1>2, <1>3

LEMMA IterCreateInv ==
  ASSUME LoopInv, IterCreate
  PROVE  LoopInv'
<1>1. /\ Struct # NULL
      /\ iter' = [index |-> 0, index_max |-> Bound, container |-> Start]
      /\ loop' = "at"
      /\ ground' = IF Bound = 0 THEN "empty"
                   ELSE IF type = "SLLIST" /\ Bound > Cardinality(L!Chain) THEN "short"
                   ELSE "firm"
      /\ UNCHANGED <<Containers, type>>
  BY DEF IterCreate
<1>2. /\ TupleInv' /\ ListShape' /\ Shapes'
      /\ Struct' = Struct /\ Hashed' = Hashed
      /\ \A P \in SUBSET Node : Closed(P) => Closed(P)'
  BY <1>1, ContainerSame
<1>3. /\ Bound \in Nat
      /\ Start \in Nat \cup Buffer \cup Node \cup {NULL}
      /\ type \in {"VECTOR", "TUPLE"} =>
           Bound = Struct.length /\ Start = Struct.container
      /\ Hashed => Start = Bound /\ Bound = Struct.capacity
      /\ type = "SLLIST" => Bound = list.length /\ Start = list.head
  BY <1>1, CopiedFields
<1>4. /\ iter' \in IterStruct /\ iter' # NULL
      /\ iter'.index = 0 /\ iter'.index_max = Bound /\ iter'.container = Start
  <2>1. iter' \in IterStruct
    BY <1>1, <1>3 DEF IterStruct
  <2> QED BY <1>1, <2>1, IterIsNotNull
<1>5. Control'
  <2>1. /\ ground' \in {"firm", "empty", "short", "freed"}
        /\ ground' = "firm" => Bound # 0
    BY <1>1
  <2>2. Bound # 0 => 0 \in 0 .. Bound - 1
    BY <1>3
  <2> QED BY <1>1, <1>4, <2>1, <2>2 DEF LoopInv, Control, InLoop
<1>stay. stay' = Counted /\ Ahead' = 0 .. Bound - 1 /\ heap' = heap
  BY <1>1, <1>4 DEF IterCreate, Ahead, Containers, linear, tupleVars, vars
<1>6. OnArray'
  <2>1. type \in {"VECTOR", "TUPLE"} => Bound <= Struct.length
    BY <1>3
  <2>2. ASSUME type \in {"VECTOR", "TUPLE"}, NEW e \in stay'
        PROVE  \E i \in Ahead' : e = <<i, heap'[iter'.container][i]>>
    BY <1>stay, <1>1, <1>3, <1>4, <2>2, PresentIs
  <2> QED BY <1>1, <1>2, <1>3, <1>4, <2>1, <2>2 DEF OnArray
<1>7. OnSlots'
  <2>1. ASSUME Hashed, NEW e \in stay' PROVE \E i \in Ahead' : LastAt(Struct, e, i)
    BY <1>stay, <1>1, <1>3, <2>1, KeysHaveLast DEF LoopInv, Slots
  <2> QED BY <1>1, <1>2, <1>3, <1>4, <2>1 DEF OnSlots
<1>8. PICK P \in SUBSET Node : Closed(P)
  BY DEF LoopInv
<1>9. OnNodes(P)'
  <2> SUFFICES ASSUME type = "SLLIST"
               PROVE  /\ iter'.container \in P \cup {NULL}
                      /\ iter'.container # NULL => list' # NULL /\ list'.head # NULL
                      /\ loop' # "read"
                      /\ ground' = "firm" =>
                           iter'.index_max < SizeSpan /\ \E f : Route(f, P)'
    BY <1>1 DEF OnNodes
  <2>1. list' = list /\ Struct = list
    BY <1>1, StructIs DEF Containers, lists
  <2>2. iter'.container = list.head /\ list # NULL
    BY <1>1, <1>3, <1>4, <2>1
  <2>3. list.head \in P \cup {NULL}
    BY <1>1, <1>8, <2>2 DEF Closed
  <2>4. ASSUME ground' = "firm"
        PROVE  iter'.index_max < SizeSpan /\ \E f : Route(f, P)'
    <3>1. Bound # 0 /\ ~(Bound > Cardinality(L!Chain))
      BY <1>1, <2>4
    <3>2. Cardinality(L!Chain) \in Nat
      <4>1. L!Chain \subseteq Node
        BY DEF L!Chain, L!Live
      <4> QED BY <4>1, ListFacts, FS_Subset, FS_CardinalityType
    <3>3. list.length # 0 /\ list.length <= Cardinality(L!Chain)
      BY <1>3, <3>1, <3>2
    <3>4. PICK f : /\ Path(f, list.length, P) /\ f[0] = list.head
                   /\ \A i \in 0 .. list.length - 1 : f[i] = L!Reached(list.head)[i]
      BY <1>8, <2>2, <3>3, FirmPath DEF LoopInv
    <3>5. node' = node /\ iter'.index_max = list.length
      BY <1>1, <1>3, <1>4 DEF Containers, lists
    <3>6. Path(f, iter.index_max, P)'
      BY <3>4, <3>5 DEF Path
    <3>7. iter'.index_max < SizeSpan
      BY <2>2, <3>5, SpanIsPositive DEF LoopInv, ListShape, ListStruct
    <3>8. stay' = Counted /\ Ahead' = 0 .. list.length - 1
      BY <1>1, <1>4, <3>5 DEF IterCreate, Ahead
    <3>9. \A e \in stay' : \E i \in Ahead' : e = <<f[i], node[f[i]].data>>
      BY <2>2, <3>4, <3>8, CountedOnRoute
    <3>10. Route(f, P)'
      BY <1>4, <2>2, <3>4, <3>5, <3>6, <3>9 DEF Route
    <3> QED BY <3>7, <3>10
  <2> QED BY <1>1, <2>1, <2>2, <2>3, <2>4
<1> QED BY <1>2, <1>5, <1>6, <1>7, <1>8, <1>9 DEF LoopInv

(* A round of the loop begins: the iterator is where it was.               *)
LEMMA IterGetDataInv ==
  ASSUME LoopInv, IterGetData
  PROVE  LoopInv'
<1>1. loop = "at" /\ InLoop /\ UNCHANGED Containers
  BY DEF IterGetData, InLoop
<1>2. CASE Readable /\ loop' = "read" /\ UNCHANGED <<type, iter, ground, stay>>
  <2>1. /\ TupleInv' /\ ListShape' /\ Shapes'
        /\ Struct' = Struct /\ Hashed' = Hashed
        /\ \A P \in SUBSET Node : Closed(P) => Closed(P)'
    BY <1>1, <1>2, ContainerSame
  <2>2. Control' /\ InLoop'
    BY <1>1, <1>2 DEF LoopInv, Control, InLoop
  <2>ahead. /\ Ahead = iter.index .. iter.index_max - 1
        /\ Ahead' = iter.index + 1 .. iter.index_max - 1
        /\ iter.index \in Nat /\ iter.index_max \in Nat
    BY <1>1, <1>2 DEF Ahead, LoopInv, Control, IterStruct
  <2>shown. stay' = stay /\ seen' = seen \cup Shown
    BY <1>2 DEF IterGetData, Stop
  <2>next. \A i \in Ahead : i = iter.index \/ i \in Ahead'
    BY <2>ahead
  <2>heap. heap' = heap
    BY <1>1 DEF Containers, linear, tupleVars, vars
  <2>3. OnArray'
    <3> SUFFICES ASSUME type \in {"VECTOR", "TUPLE"}, ground = "firm",
                        NEW e \in stay' \ seen'
                 PROVE  \E i \in Ahead' : e = <<i, heap'[iter.container][i]>>
      BY <1>1, <1>2, <2>1 DEF LoopInv, OnArray
    <3>1. PICK i \in Ahead : e = <<i, heap[iter.container][i]>>
      BY <1>1, <2>shown DEF LoopInv, OnArray
    <3>2. i # iter.index
      BY <2>shown, <3>1, ShownIs
    <3> QED BY <2>next, <2>heap, <3>1, <3>2
  <2>slots. OnSlots'
    <3> SUFFICES ASSUME Hashed, ground = "firm", NEW e \in stay' \ seen'
                 PROVE  \E i \in Ahead' : LastAt(Struct, e, i)
      BY <1>1, <1>2, <2>1 DEF LoopInv, OnSlots
    <3>1. PICK i \in Ahead : LastAt(Struct, e, i)
      BY <1>1, <2>shown DEF LoopInv, OnSlots
    <3>2. Struct # NULL
      BY <1>1 DEF LoopInv, OnSlots
    <3>3. Struct.container[i].key = e /\ e # NULL
      BY <3>1, <3>2, LastIsKey DEF LoopInv
    <3>4. i # iter.index
      BY <2>shown, <3>3, ShownIs
    <3> QED BY <2>next, <3>1, <3>4
  <2>4. PICK P \in SUBSET Node : Closed(P) /\ OnNodes(P)
    BY DEF LoopInv
  <2>5. UNCHANGED <<list, node>>
    BY <1>1 DEF Containers, lists
  <2>6. type = "SLLIST" => iter.container # NULL
    <3>1. ground # "freed"
      BY <1>2 DEF Readable
    <3> QED BY <1>2, <3>1, ReadableIs
  <2>7. ASSUME type = "SLLIST", ground = "firm", NEW f, Route(f, P)
        PROVE  Route(f, P)'
    <3>1. Path(f, iter.index_max, P)'
      BY <1>2, <2>5, <2>7 DEF Path, Route
    <3>3. stay' = stay /\ seen' = seen \cup {<<iter.container, node[iter.container].data>>}
      BY <2>7, <2>shown, ShownIs
    <3>4. ASSUME NEW e \in stay' \ seen'
          PROVE  \E i \in Ahead' : e = <<f[i], node[f[i]].data>>
      <4>1. PICK i \in Ahead : e = <<f[i], node[f[i]].data>>
        BY <2>7, <3>3, <3>4 DEF Route
      <4>2. i # iter.index
        BY <2>7, <3>3, <3>4, <4>1 DEF Route
      <4>3. i \in Ahead'
        BY <2>next, <4>2
      <4> QED BY <4>1, <4>3
    <3> QED BY <1>2, <2>5, <2>7, <3>1, <3>4 DEF Route
  <2>8. OnNodes(P)'
    BY <1>1, <1>2, <2>4, <2>5, <2>6, <2>7 DEF OnNodes
  <2> QED BY <2>1, <2>2, <2>3, <2>4, <2>8, <2>slots DEF LoopInv
<1>3. CASE ~(Readable /\ InBlock) /\ Stop
  <2>1. ground = "firm" => Readable
    BY <1>1, FirmReadable
  <2>2. ground # "firm" \/ type = "SET"
    BY <1>3, <2>1 DEF InBlock
  <2> QED BY <1>1, <1>3, <2>2, StopInv
<1> QED BY <1>2, <1>3 DEF IterGetData

(* On to the next position, of which there is one.                         *)
LEMMA AdvancedFields ==
  ASSUME iter \in IterStruct
  PROVE  /\ Advanced.index = (iter.index + 1) % SizeSpan
         /\ Advanced.index_max = iter.index_max
         /\ type # "SLLIST" => Advanced.container = iter.container
         /\ type = "SLLIST" => Advanced.container = node[iter.container].next
         /\ Advanced = [index |-> Advanced.index, index_max |-> iter.index_max,
                        container |-> Advanced.container]
<1> DEFINE i == (iter.index + 1) % SizeSpan
           c == IF type = "SLLIST" THEN node[iter.container].next ELSE iter.container
<1>1. Advanced = [iter EXCEPT !.index = i, !.container = c]
  BY DEF Advanced
<1>2. /\ Advanced.index = i /\ Advanced.index_max = iter.index_max
      /\ Advanced.container = c
      /\ Advanced = [index |-> i, index_max |-> iter.index_max, container |-> c]
  <2> HIDE DEF i, c
  <2> QED BY <1>1 DEF IterStruct
<1> QED BY <1>2

LEMMA IterNextInv ==
  ASSUME LoopInv, IterNext
  PROVE  LoopInv'
<1>1. /\ loop = "read" /\ InLoop /\ UNCHANGED Containers
      /\ iter \in IterStruct
  BY DEF IterNext, InLoop, LoopInv, Control
<1>2. CASE Lost /\ Stop
  BY <1>1, <1>2, StopInv DEF Lost
<1>3. CASE Leave
  BY <1>1, <1>3, LeaveInv
<1>4. CASE /\ ~Lost /\ ~AtEnd(Advanced)
           /\ iter' = Advanced
           /\ loop' = "at"
           /\ UNCHANGED <<type, ground, stay, seen>>
  <2>1. /\ TupleInv' /\ ListShape' /\ Shapes'
        /\ Struct' = Struct /\ Hashed' = Hashed
        /\ \A P \in SUBSET Node : Closed(P) => Closed(P)'
    BY <1>1, <1>4, ContainerSame
  <2>2. /\ iter'.index = (iter.index + 1) % SizeSpan
        /\ iter'.index_max = iter.index_max
        /\ iter'.index # iter.index_max
        /\ type # "SLLIST" => iter'.container = iter.container
        /\ type = "SLLIST" => iter'.container = node[iter.container].next
    BY <1>1, <1>4, AdvancedFields DEF AtEnd
  <2>3. /\ iter'.index \in Nat /\ iter'.index <= iter.index + 1
        /\ iter.index + 1 < SizeSpan => iter'.index = iter.index + 1
    <3>1. iter.index \in Nat /\ SizeSpan \in Nat \ {0}
      BY <1>1, SpanIsPositive DEF IterStruct
    <3> DEFINE i == iter.index + 1
    <3>2. i \in Nat => /\ i % SizeSpan \in Nat /\ i % SizeSpan <= i
                       /\ i < SizeSpan => i % SizeSpan = i
      <4> HIDE DEF i
      <4> QED BY <3>1
    <3> QED BY <2>2, <3>1, <3>2
  <2>4. iter.index_max # 0 => iter'.index \in 0 .. iter.index_max - 1
    <3>1. iter.index_max # 0 => iter.index \in 0 .. iter.index_max - 1
      BY <1>1, IterIsNotNull DEF LoopInv, Control
    <3> QED BY <1>1, <2>2, <2>3, <3>1 DEF IterStruct
  <2>5. PICK P \in SUBSET Node : Closed(P) /\ OnNodes(P)
    BY DEF LoopInv
  <2>6. type = "SLLIST" =>
          /\ ground # "freed"
          /\ iter.container \in P
          /\ node[iter.container].next \in P \cup {NULL}
          /\ list # NULL /\ list.head # NULL
    BY <1>1, <1>4, <2>5 DEF Lost, OnNodes, Closed
  <2>7. iter' \in IterStruct /\ iter' # NULL
    <3>1. iter'.container \in Nat \cup Buffer \cup Node \cup {NULL}
      BY <1>1, <2>2, <2>6 DEF IterStruct
    <3>2. Advanced \in IterStruct
      <4>1. /\ Advanced.index \in Nat
            /\ Advanced.container \in Nat \cup Buffer \cup Node \cup {NULL}
        BY <1>4, <2>3, <3>1
      <4>2. iter.index_max \in Nat
        BY <1>1 DEF IterStruct
      <4> QED BY <1>1, <4>1, <4>2, AdvancedFields DEF IterStruct
    <3> QED BY <1>4, <3>2, IterIsNotNull
  <2>8. Control'
    BY <1>1, <1>4, <2>2, <2>4, <2>7 DEF LoopInv, Control, InLoop
  <2>ahead. \A i \in Ahead : i \in Ahead'
    <3>1. /\ Ahead = iter.index + 1 .. iter.index_max - 1
          /\ Ahead' = iter'.index .. iter.index_max - 1
          /\ iter.index \in Nat /\ iter.index_max \in Nat
      BY <1>1, <1>4, <2>2 DEF Ahead, IterStruct
    <3> QED BY <2>3, <3>1
  <2>heap. heap' = heap
    BY <1>1 DEF Containers, linear, tupleVars, vars
  <2>array. OnArray'
    <3> SUFFICES ASSUME type \in {"VECTOR", "TUPLE"}, ground = "firm",
                        NEW e \in stay \ seen
                 PROVE  \E i \in Ahead' : e = <<i, heap'[iter'.container][i]>>
      BY <1>1, <1>4, <2>1, <2>2 DEF LoopInv, OnArray
    <3>1. \E i \in Ahead : e = <<i, heap[iter.container][i]>>
      BY <1>1 DEF LoopInv, OnArray
    <3> QED BY <2>2, <2>ahead, <2>heap, <3>1
  <2>9. OnSlots'
    <3>1. ASSUME Hashed, ground = "firm", NEW e \in stay \ seen
          PROVE  \E i \in Ahead' : LastAt(Struct, e, i)
      <4>1. \E i \in Ahead : LastAt(Struct, e, i)
        BY <1>1, <3>1 DEF LoopInv, OnSlots
      <4> QED BY <2>ahead, <4>1
    <3>2. Hashed => type # "SLLIST"
      BY DEF Hashed
    <3> QED BY <1>1, <1>4, <2>1, <2>2, <3>1, <3>2 DEF LoopInv, OnSlots
  <2>10. UNCHANGED <<list, node>>
    BY <1>1 DEF Containers, lists
  <2>11. ASSUME type = "SLLIST", ground = "firm"
         PROVE  iter'.index_max < SizeSpan /\ \E f : Route(f, P)'
    <3>0. PICK f : Route(f, P)
      BY <1>1, <2>5, <2>11 DEF OnNodes
    <3>1. Path(f, iter.index_max, P) /\ f[iter.index] = iter.container
      BY <3>0 DEF Route
    <3>2. /\ iter.index_max < SizeSpan /\ iter.index_max # 0
          /\ iter.index \in 0 .. iter.index_max - 1
      BY <1>1, <2>5, <2>11 DEF OnNodes, LoopInv, Control
    <3>3. iter'.index = iter.index + 1 /\ iter.index \in 0 .. iter.index_max - 2
      BY <1>1, <2>2, <2>3, <3>2, SpanIsPositive DEF IterStruct
    <3>4. f[iter'.index] = iter'.container
      BY <2>2, <2>11, <3>1, <3>3 DEF Path
    <3>5. Path(f, iter.index_max, P)'
      BY <2>2, <2>10, <3>1 DEF Path
    <3>6. Ahead' = Ahead
      BY <1>1, <1>4, <2>2, <3>3 DEF Ahead
    <3>7. Route(f, P)'
      BY <1>4, <2>2, <2>10, <3>0, <3>4, <3>5, <3>6 DEF Route
    <3> QED BY <2>2, <3>2, <3>7
  <2>12. OnNodes(P)'
    BY <1>1, <1>4, <2>2, <2>6, <2>10, <2>11 DEF OnNodes
  <2> QED BY <2>1, <2>5, <2>8, <2>9, <2>12, <2>array DEF LoopInv
<1> QED BY <1>2, <1>3, <1>4 DEF IterNext

-----------------------------------------------------------------------------
(* The calls on the container, which leave the iterator alone.             *)

(* What a call does to the ground, whatever the type.                      *)
LEMMA CallGround ==
  ASSUME LoopInv, ContainerCall
  PROVE  /\ UNCHANGED <<type, iter, loop>> /\ loop \in {"out", "read"}
         /\ InLoop' = InLoop /\ Hashed' = Hashed
         /\ InLoop => iter # NULL
         /\ InLoop /\ ground' # "freed" => Block' = Block /\ ground' = ground
         /\ Control'
<1>1. /\ UNCHANGED <<type, iter, loop>> /\ loop # "at" /\ loop # "stopped"
      /\ ground' = IF iter # NULL /\ Block' # Block THEN "freed" ELSE ground
  BY DEF ContainerCall, AllReady
<1>2. loop \in {"out", "read"} /\ (InLoop => iter # NULL)
  BY <1>1 DEF LoopInv, Control
<1>3. InLoop' = InLoop /\ Hashed' = Hashed
  BY <1>1 DEF InLoop, Hashed
<1>4. Control'
  BY <1>1, <1>2, <1>3 DEF LoopInv, Control
<1> QED BY <1>1, <1>2, <1>3, <1>4

(* The block of a vector or tuple is its buffer.                           *)
LEMMA BlockOfArray ==
  ASSUME type \in {"VECTOR", "TUPLE"}, type' = type, Struct # NULL, Block' = Block
  PROVE  Struct' # NULL /\ Struct'.container = Struct.container
<1>1. type # "SLLIST" /\ ~Hashed
  BY DEF Hashed
<1>2. Block = {Struct.container}
  BY <1>1 DEF Block
<1>3. Block' = IF Struct' = NULL THEN {} ELSE {Struct'.container}
  BY <1>1 DEF Block, Hashed
<1> QED BY <1>2, <1>3

LEMMA ArrayCallInv ==
  ASSUME LoopInv, ContainerCall,
         \/ type = "VECTOR" /\ VectorChanges /\ UNCHANGED tuple
         \/ type = "TUPLE" /\ TupleChanges,
         UNCHANGED <<lists, hashes>>
  PROVE  LoopInv'
<1>1. type \in {"VECTOR", "TUPLE"} /\ ~Hashed /\ type # "SLLIST"
  BY DEF Hashed
<1>2. TupleInv'
  BY LinearStep, TupleStep DEF LoopInv
<1>3. ListShape' /\ Shapes'
  BY DEF LoopInv, ListShape, Shapes, lists, hashes
<1>4. PICK P \in SUBSET Node : Closed(P)
  BY DEF LoopInv
<1>5. Closed(P)'
  BY <1>4 DEF Closed, lists
<1>6. /\ UNCHANGED <<type, iter, loop>> /\ InLoop' = InLoop /\ Hashed' = Hashed
      /\ InLoop /\ ground' # "freed" => Block' = Block /\ ground' = ground
      /\ Control'
  BY CallGround
<1>7. OnSlots' /\ OnNodes(P)'
  BY <1>1, <1>6 DEF OnSlots, OnNodes
<1>8. ASSUME InLoop, ground' = "firm"
      PROVE  /\ Struct' # NULL /\ iter.container = Struct'.container
             /\ iter.index_max <= Struct'.length
             /\ \A e \in stay' \ seen' :
                  \E i \in Ahead' : e = <<i, heap'[iter.container][i]>>
  <2>1. Block' = Block /\ ground = "firm"
    BY <1>6, <1>8
  <2>2. /\ Struct # NULL /\ iter.container = Struct.container
        /\ iter.index_max <= Struct.length
    BY <1>1, <1>8, <2>1 DEF LoopInv, OnArray
  <2>3. Struct' # NULL /\ Struct'.container = Struct.container
    BY <1>1, <1>6, <2>1, <2>2, BlockOfArray
  <2>stay. ASSUME NEW e \in stay' \ seen'
        PROVE  \E i \in Ahead' : e = <<i, heap'[iter.container][i]>>
    <3>1. e \in stay /\ e \in Present' /\ e \notin seen /\ Ahead' = Ahead
      BY <1>6, <2>stay DEF ContainerCall, Ahead
    <3>2. PICK i \in Ahead : e = <<i, heap[iter.container][i]>>
      BY <1>1, <1>8, <2>1, <3>1 DEF LoopInv, OnArray
    <3>3. PICK j : e = <<j, heap'[(Struct').container][j]>>
      BY <1>1, <1>6, <3>1, NextPresentInArray
    <3> QED BY <2>2, <2>3, <3>1, <3>2, <3>3
  <2>4. CASE type = "VECTOR"
    <3>1. Struct = vec[TheHandle] /\ Struct' = vec'[TheHandle]
      BY <1>6, <2>4, StructIs, NextStructIs
    <3>2. Inv /\ VectorChanges /\ TheHandle \in Handle
      BY <2>4, TheHandleIsOne DEF LoopInv, TupleInv, BoundedInv
    <3>3. Struct.length \in Nat /\ Struct'.length >= Struct.length
      BY <2>2, <2>3, <3>1, <3>2, VectorNotShorter
    <3>4. Struct'.length \in Int
      <4>1. vec'[TheHandle] \in VectorStruct
        BY <1>2, <2>3, <3>1, <3>2 DEF TupleInv, BoundedInv, Inv
      <4> QED BY <3>1, <4>1 DEF VectorStruct
    <3>5. iter.index_max \in Nat
      BY <1>8 DEF LoopInv, Control, IterStruct
    <3> QED BY <2>2, <2>3, <2>stay, <3>3, <3>4, <3>5
  <2>5. CASE type = "TUPLE"
    <3>1. Struct = tuple /\ Struct' = tuple'
      BY <1>6, <2>5, StructIs, NextStructIs
    <3>2. tuple' = tuple
      BY <2>2, <2>3, <2>5, <3>1, TupleSame
    <3> QED BY <2>2, <2>3, <2>stay, <3>1, <3>2
  <2> QED BY <1>1, <2>4, <2>5
<1>9. OnArray'
  BY <1>6, <1>8 DEF OnArray
<1> QED BY <1>2, <1>3, <1>5, <1>6, <1>7, <1>9 DEF LoopInv

(* The block of a list stays as long as the list has nodes.                *)
LEMMA BlockOfList ==
  ASSUME type = "SLLIST", type' = type, list # NULL, list.head # NULL, Block' = Block
  PROVE  list' # NULL /\ list'.head # NULL
<1>0. Struct = list /\ Struct' = list' /\ ~Hashed /\ ~Hashed'
  BY StructIs, NextStructIs DEF Hashed
<1>1. Block = {list.head # NULL}
  BY <1>0, Zenon DEF Block
<1>2. Block' = IF list' = NULL THEN {} ELSE {list'.head # NULL}
  BY <1>0, Zenon DEF Block
<1> QED BY <1>1, <1>2

LEMMA NextPresentInList ==
  ASSUME type' = "SLLIST"
  PROVE  \A e \in Present' : \E n : e = <<n, node'[n].data>>
<1>1. Struct' = list' /\ ~Hashed'
  BY NextStructIs DEF Hashed
<1>2. Present' = IF list' = NULL THEN {} ELSE {<<n, node'[n].data>> : n \in L!Chain'}
  BY <1>1 DEF Present
<1> QED BY <1>2

LEMMA ListCallInv ==
  ASSUME LoopInv, ContainerCall,
         type = "SLLIST", ListChanges, UNCHANGED <<linear, hashes>>
  PROVE  LoopInv'
<1>1. TupleInv'
  BY TupleStep DEF LoopInv, linear
<1>2. Shapes'
  BY DEF LoopInv, Shapes, hashes
<1>3. PICK P \in SUBSET Node : Closed(P) /\ OnNodes(P)
  BY DEF LoopInv
<1>4. ListShape'
  BY <1>3, ListStep DEF LoopInv
<1>5. PICK Q \in SUBSET Node :
        /\ Closed(Q)'
        /\ \/ list = NULL \/ list.head = NULL
           \/ list' # NULL /\ list'.head # NULL /\ Extends(P, Q)
           \/ list' # NULL /\ list'.head = NULL
  BY <1>3, ListStep DEF LoopInv
<1>6. /\ UNCHANGED <<type, iter, loop>> /\ loop \in {"out", "read"}
      /\ InLoop' = InLoop /\ Hashed' = Hashed
      /\ InLoop /\ ground' # "freed" => Block' = Block /\ ground' = ground
      /\ Control'
  BY CallGround
<1>7. OnArray' /\ OnSlots'
  BY <1>6 DEF OnArray, OnSlots, Hashed
<1>8. ASSUME InLoop, ground' # "freed"
      PROVE  /\ iter.container \in Q /\ iter.container # NULL
             /\ list' # NULL /\ list'.head # NULL
             /\ ground' = "firm" =>
                  iter.index_max < SizeSpan /\ \E f : Route(f, Q)'
  <2>1. /\ loop = "read" /\ ground # "freed"
        /\ Block' = Block /\ ground' = ground
    BY <1>6, <1>8 DEF InLoop
  <2>2. /\ iter.container \in P /\ iter.container # NULL
        /\ list # NULL /\ list.head # NULL
    BY <1>3, <1>8, <2>1 DEF OnNodes
  <2>3. list' # NULL /\ list'.head # NULL
    BY <1>6, <2>1, <2>2, BlockOfList
  <2>4. Extends(P, Q)
    BY <1>5, <2>2, <2>3
  <2>5. ASSUME ground = "firm"
        PROVE  iter.index_max < SizeSpan /\ \E f : Route(f, Q)'
    <3>0. PICK f : Route(f, P)
      BY <1>3, <1>8, <2>1, <2>5 DEF OnNodes
    <3>1. Path(f, iter.index_max, P) /\ f[iter.index] = iter.container
      BY <3>0 DEF Route
    <3> DEFINE m == iter.index_max
    <3>2. iter' = iter /\ m \in Nat
      BY <1>6, <1>8 DEF LoopInv, Control, IterStruct
    <3>3. f \in [0 .. m - 1 -> Q]
      BY <2>4, <3>1 DEF Path, Extends
    <3>4. ASSUME NEW i \in 0 .. m - 2 PROVE node'[f[i]].next = f[i + 1]
      <4>1. /\ f[i] \in P /\ f[i + 1] \in P
            /\ node[f[i]].next = f[i + 1]
        BY <3>1, <3>2 DEF Path
      <4>2. f[i + 1] # NULL
        BY <4>1, ListFacts
      <4> QED BY <2>4, <4>1, <4>2 DEF Extends
    <3>5. Path(f, m, Q)'
      BY <3>2, <3>3, <3>4 DEF Path
    <3>6. iter.index_max < SizeSpan
      BY <1>3, <1>8, <2>1, <2>5 DEF OnNodes
    <3>7. stay' = stay \cap Present' /\ seen' = seen /\ Ahead' = Ahead
      BY <1>6 DEF ContainerCall, Ahead
    <3>8. ASSUME NEW e \in stay' \ seen'
          PROVE  \E i \in Ahead' : e = <<f[i], node'[f[i]].data>>
      <4>1. PICK i \in Ahead : e = <<f[i], node[f[i]].data>>
        BY <3>0, <3>7, <3>8 DEF Route
      <4>2. PICK n : e = <<n, node'[n].data>>
        BY <1>6, <3>7, <3>8, NextPresentInList
      <4> QED BY <3>7, <4>1, <4>2
    <3>9. Route(f, Q)'
      BY <3>1, <3>2, <3>5, <3>8 DEF Route
    <3> QED BY <3>6, <3>9
  <2> QED BY <2>1, <2>2, <2>3, <2>4, <2>5 DEF Extends
<1>9. OnNodes(Q)'
  BY <1>6, <1>8 DEF OnNodes
<1> QED BY <1>1, <1>2, <1>4, <1>5, <1>6, <1>7, <1>9 DEF LoopInv

(* The block of a table or set is its slots.                               *)
LEMMA BlockOfSlots ==
  ASSUME Hashed, Hashed', type' = type, Struct # NULL, Block' = Block
  PROVE  Struct' # NULL /\ (Struct').capacity = Struct.capacity
<1>1. type # "SLLIST" /\ type' # "SLLIST"
  BY DEF Hashed
<1>2. Block = {Struct.capacity}
  BY <1>1 DEF Block
<1>3. Block' = IF Struct' = NULL THEN {} ELSE {(Struct').capacity}
  BY <1>1 DEF Block
<1> QED BY <1>2, <1>3

LEMMA HashedCallInv ==
  ASSUME LoopInv, ContainerCall,
         \/ type = "HASH_TABLE" /\ TableChanges /\ UNCHANGED set
         \/ type = "SET" /\ SetChanges /\ UNCHANGED ht,
         UNCHANGED <<linear, lists>>
  PROVE  LoopInv'
<1>1. TupleInv'
  BY TupleStep DEF LoopInv, linear
<1>2. /\ type = "HASH_TABLE" => TableKept
      /\ type = "SET" => SetKept
  BY TableStep, SetStep DEF LoopInv, Shapes
<1>3. Shapes'
  BY <1>2 DEF LoopInv, Shapes, TableKept, SetKept
<1>4. PICK P \in SUBSET Node : Closed(P)
  BY DEF LoopInv
<1>5. ListShape' /\ Closed(P)'
  BY <1>4 DEF LoopInv, ListShape, Closed, lists
<1>6. /\ UNCHANGED <<type, iter, loop>> /\ InLoop' = InLoop /\ Hashed' = Hashed
      /\ InLoop /\ ground' # "freed" => Block' = Block /\ ground' = ground
      /\ Control'
  BY CallGround
<1>7. Hashed
  BY DEF Hashed
<1>8. OnArray' /\ OnNodes(P)'
  BY <1>6, <1>7 DEF OnArray, OnNodes, Hashed
<1>9. ASSUME InLoop, ground' = "firm"
      PROVE  /\ Struct' # NULL
             /\ (Struct').capacity = iter.index_max
             /\ \A e \in stay' \ seen' : \E i \in Ahead' : LastAt(Struct', e, i)
  <2>1. Block' = Block /\ ground = "firm"
    BY <1>6, <1>9
  <2>2. Struct # NULL /\ Struct.capacity = iter.index_max
    BY <1>7, <1>9, <2>1 DEF LoopInv, OnSlots
  <2>3. Struct' # NULL /\ (Struct').capacity = Struct.capacity
    BY <1>6, <1>7, <2>1, <2>2, BlockOfSlots
  <2>4. KeepsLast(Struct, Struct')
    BY <1>2, <1>6, <2>2, <2>3, StructIs, NextStructIs DEF TableKept, SetKept
  <2>5. ASSUME NEW e \in stay' \ seen' PROVE \E i \in Ahead' : LastAt(Struct', e, i)
    <3>1. e \in stay /\ e \in Present' /\ e \notin seen /\ Ahead' = Ahead
      BY <1>6, <2>5 DEF ContainerCall, Ahead
    <3>2. PICK i \in Ahead : LastAt(Struct, e, i)
      BY <1>7, <1>9, <2>1, <3>1 DEF LoopInv, OnSlots
    <3>3. PICK j \in DOMAIN (Struct').container : e = (Struct').container[j].key
      BY <1>6, <1>7, <3>1, NextPresentInSlots
    <3>4. LastAt(Struct', e, i)
      BY <2>4, <3>2, <3>3 DEF KeepsLast
    <3> QED BY <3>1, <3>2, <3>4
  <2> QED BY <2>2, <2>3, <2>5
<1>10. OnSlots'
  BY <1>6, <1>9 DEF LoopInv, OnSlots
<1> QED BY <1>1, <1>3, <1>5, <1>6, <1>8, <1>10 DEF LoopInv

LEMMA ContainerCallInv ==
  ASSUME LoopInv, ContainerCall
  PROVE  LoopInv'
BY ArrayCallInv, ListCallInv, HashedCallInv DEF ContainerCall, hashes

-----------------------------------------------------------------------------
(* The theorems.                                                           *)

LEMMA LoopInitially == IterInit => LoopInv
<1> SUFFICES ASSUME IterInit PROVE LoopInv
  OBVIOUS
<1>1. TupleInv
  BY TupleInitially DEF IterInit
<1>2. ListShape /\ list = NULL
  BY DEF IterInit, L!Init, ListShape
<1>3. Shapes
  BY DEF IterInit, H!Init, S!Init, Shapes
<1>4. Control /\ ~InLoop
  BY IterAssumption DEF IterInit, Control, InLoop
<1>5. OnArray /\ OnSlots /\ OnNodes({}) /\ Closed({})
  BY <1>2, <1>4 DEF OnArray, OnSlots, OnNodes, Closed
<1> QED BY <1>1, <1>2, <1>3, <1>4, <1>5 DEF LoopInv

LEMMA LoopStep ==
  ASSUME LoopInv, [LoopNext]_loopVars
  PROVE  LoopInv'
<1>1. CASE UNCHANGED loopVars
  <2>1. /\ UNCHANGED <<Containers, type>> /\ UNCHANGED <<list, node>>
        /\ UNCHANGED <<iter, loop, ground>>
    BY <1>1 DEF loopVars, Containers, walk, lists
  <2>2. /\ TupleInv' /\ ListShape' /\ Shapes'
        /\ Struct' = Struct /\ Hashed' = Hashed
        /\ \A P \in SUBSET Node : Closed(P) => Closed(P)'
    BY <2>1, ContainerSame
  <2>3. PICK P \in SUBSET Node : Closed(P) /\ OnNodes(P)
    BY DEF LoopInv
  <2>4. InLoop' = InLoop /\ Control'
    BY <2>1 DEF LoopInv, Control, InLoop
  <2>5. OnArray' /\ OnSlots'
    <3>1. UNCHANGED <<stay, seen, heap>> /\ Ahead' = Ahead
      BY <1>1, <2>1 DEF loopVars, walk, linear, tupleVars, vars, Ahead
    <3> QED BY <2>1, <2>2, <2>4, <3>1 DEF LoopInv, OnArray, OnSlots
  <2>6. \A f : Route(f, P) => Route(f, P)'
    BY <1>1, <2>1 DEF Path, Route, Ahead, loopVars, walk
  <2>7. OnNodes(P)'
    BY <2>1, <2>3, <2>4, <2>6 DEF OnNodes
  <2> QED BY <2>2, <2>3, <2>4, <2>5, <2>7 DEF LoopInv
<1>2. CASE IterCreate
  BY <1>2, IterCreateInv
<1>3. CASE IterGetData
  BY <1>3, IterGetDataInv
<1>4. CASE IterNext
  BY <1>4, IterNextInv
<1>5. CASE IterDelete
  BY <1>5, LeaveInv DEF IterDelete
<1>6. CASE ContainerCall
  BY <1>6, ContainerCallInv
<1> QED BY <1>1, <1>2, <1>3, <1>4, <1>5, <1>6 DEF LoopNext, Stuck

LEMMA LoopInvariance == LoopSpec => []LoopInv
<1>1. IterInit => LoopInv
  BY LoopInitially
<1>2. LoopInv /\ [LoopNext]_loopVars => LoopInv'
  BY LoopStep
<1> QED BY <1>1, <1>2, PTL DEF LoopSpec

(* The client has an iterator exactly while it is in the loop, and the     *)
(* index stays short of the bound unless there was nothing to iterate      *)
(* over, whichever of the five containers it is about.                     *)
THEOREM LoopTypeCorrect == LoopSpec => []LoopTypeOK
<1>1. LoopInv => LoopTypeOK
  BY DEF LoopInv, Control, LoopTypeOK
<1> QED BY LoopInvariance, <1>1, PTL

(* The loop never reads outside of memory it may read, as long as the      *)
(* container was not empty, is not deleted and does not move, and was no   *)
(* list that counts more elements than it has, whatever calls the client   *)
(* makes on it in the body.                                                *)
THEOREM LoopsAreSafe == LoopSpec => []SafeLoop
<1>1. LoopInv => SafeLoop
  BY FirmReadable DEF LoopInv, Control, SafeLoop
<1> QED BY LoopInvariance, <1>1, PTL

(* What is left when the loop ends.                                        *)
LEMMA LastRound ==
  ASSUME LoopInv, loop = "read", ground = "firm", IterNext, iter' = NULL
  PROVE  stay \subseteq seen
<1>1. /\ iter \in IterStruct /\ iter # NULL /\ InLoop
      /\ iter.index_max # 0 /\ iter.index \in 0 .. iter.index_max - 1
  BY DEF LoopInv, Control, InLoop
<1>2. AtEnd(Advanced)
  <2>1. ~Lost
    BY DEF Lost
  <2>2. CASE iter' = Advanced
    <3>1. SizeSpan \in Nat \ {0} /\ iter.index + 1 \in Nat
      BY <1>1, SpanIsPositive DEF IterStruct
    <3>2. Advanced.index \in Nat
      BY <1>1, <3>1, AdvancedFields
    <3>3. Advanced.container \in Nat \cup Buffer \cup Node \cup {NULL}
      <4>1. CASE type # "SLLIST"
        BY <1>1, <4>1, AdvancedFields DEF IterStruct
      <4>2. CASE type = "SLLIST"
        <5>1. PICK P \in SUBSET Node : Closed(P) /\ OnNodes(P)
          BY DEF LoopInv
        <5>2. iter.container \in P
          BY <1>1, <4>2, <5>1 DEF OnNodes
        <5> QED BY <1>1, <4>2, <5>1, <5>2, AdvancedFields DEF Closed
      <4> QED BY <4>1, <4>2
    <3>4. Advanced \in IterStruct
      BY <1>1, <3>2, <3>3, AdvancedFields DEF IterStruct
    <3> QED BY <2>2, <3>4, IterIsNotNull
  <2> QED BY <2>1, <2>2 DEF IterNext
<1>3. Ahead = {}
  <2>1. Advanced.index = iter.index_max /\ Advanced.index = (iter.index + 1) % SizeSpan
    BY <1>1, <1>2, AdvancedFields DEF AtEnd
  <2>2. SizeSpan \in Nat \ {0} /\ iter.index \in Nat /\ iter.index_max \in Nat
    BY <1>1, SpanIsPositive DEF IterStruct
  <2> DEFINE i == iter.index + 1
  <2>3. i \in Nat => i % SizeSpan <= i /\ i % SizeSpan \in Nat
    <3> HIDE DEF i
    <3> QED BY <2>2
  <2>4. Ahead = iter.index + 1 .. iter.index_max - 1
    BY DEF Ahead
  <2>5. iter.index_max = iter.index + 1
    <3> HIDE DEF i
    <3>1. i = iter.index + 1
      BY DEF i
    <3> QED BY <1>1, <2>1, <2>2, <2>3, <3>1
  <2> QED BY <2>2, <2>4, <2>5
<1>4. CASE type \in {"VECTOR", "TUPLE"}
  BY <1>1, <1>3, <1>4 DEF LoopInv, OnArray
<1>5. CASE Hashed
  BY <1>1, <1>3, <1>5 DEF LoopInv, OnSlots
<1>6. CASE type = "SLLIST"
  <2>1. PICK P \in SUBSET Node : OnNodes(P)
    BY DEF LoopInv
  <2>2. \E f : Route(f, P)
    BY <1>1, <1>6, <2>1 DEF OnNodes
  <2> QED BY <1>3, <2>2 DEF Route
<1> QED BY <1>4, <1>5, <1>6 DEF LoopInv, Control, Hashed

(* When the loop ends on firm ground, the client has been shown all that   *)
(* was in the container from the first round to the last, whatever it put  *)
(* in, updated or took out in the meantime: keys of a table or set that    *)
(* moved to another slot included.                                         *)
THEOREM LoopsAreComplete == LoopSpec => Complete
<1>1. LoopInv /\ [LoopNext]_loopVars =>
        [loop = "read" /\ ground = "firm" /\ IterNext /\ iter' = NULL
           => stay \subseteq seen]_loopVars
  BY LastRound
<1> QED BY LoopInvariance, <1>1, PTL DEF LoopSpec, Complete

=============================================================================
