---------------------------- MODULE SLListProofs ----------------------------
(***************************************************************************)
(* The chain of SLList, for every set of nodes and values and every width  *)
(* of the length.  Chain is defined by following next; the proofs carry    *)
(* the sequence of the nodes along instead, which is what a call extends   *)
(* at one end or the other, and show at the end that it is the chain.      *)
(***************************************************************************)
EXTENDS SLList, CommonProofs, SequenceTheorems

Address == Node \cup {NULL}

SLLNode == [data : Datum, next : Address]

SLListStruct == [length : 0 .. SizeSpan - 1, head : Address, tail : Address]

(* The k nodes s[0], ..., s[k-1] are the live ones, each once, linked from *)
(* head to a null pointer.                                                 *)
Linked(s, k) ==
  /\ s \in [0 .. k -> Address]
  /\ s[0] = list.head /\ s[k] = NULL
  /\ \A i \in 0 .. k - 1 : s[i] \in Live /\ node[s[i]].next = s[i + 1]
  /\ \A i, j \in 0 .. k - 1 : s[i] = s[j] => i = j
  /\ \A n \in Live : \E i \in 0 .. k - 1 : s[i] = n

Inv ==
  /\ node \in [Node -> SLLNode \cup {NULL}]
  /\ list \in SLListStruct \cup {NULL}
  /\ list = NULL => Live = {}
  /\ list # NULL => \E k \in Nat : \E s : Linked(s, k)
  /\ list # NULL /\ list.head # NULL /\ list.tail # NULL =>
       list.tail \in Live /\ node[list.tail].next = NULL
  /\ ret.result \in BOOLEAN \cup {NULL, Undefined}

-----------------------------------------------------------------------------
LEMMA SpanIsPositive == SizeSpan \in Nat \ {0}
BY WidthAssumption, Pow2Def DEF SizeSpan

LEMMA NullIsNone ==
  /\ NULL \notin SLLNode /\ NULL \notin SLListStruct
  /\ NULL \notin Node /\ NULL \notin Datum
<1>1. SLListStruct \subseteq [length : Nat, head : Address, tail : Address]
  BY SpanIsPositive DEF SLListStruct
<1> QED BY <1>1, SLListAssumption DEF SLLNode, Address

LEMMA LiveNodes ==
  ASSUME Inv
  PROVE  \A n \in Live : n \in Node /\ node[n] \in SLLNode /\ n # NULL
BY NullIsNone DEF Inv, Live

LEMMA CountedBounded ==
  ASSUME NEW length \in 0 .. SizeSpan - 1
  PROVE  Counted(length) \in 0 .. SizeSpan - 1
BY SpanIsPositive DEF Counted

(* An empty list has no nodes, any other has at least one.                 *)
LEMMA HeadTells ==
  ASSUME Inv, list # NULL, NEW k \in Nat, NEW s, Linked(s, k)
  PROVE  list.head = NULL <=> k = 0
<1>1. k # 0 => 0 \in 0 .. k - 1
  OBVIOUS
<1> QED BY <1>1, LiveNodes DEF Linked

LEMMA EmptyListHasNone ==
  ASSUME Inv, list # NULL, list.head = NULL
  PROVE  Live = {}
<1>1. PICK k \in Nat : \E s : Linked(s, k)
  BY DEF Inv
<1>2. PICK s : Linked(s, k)
  BY <1>1
<1>3. k = 0
  BY <1>2, HeadTells
<1> QED BY <1>2, <1>3 DEF Linked

-----------------------------------------------------------------------------
(* Chain is the sequence.                                                  *)

LEMMA ChainLength ==
  ASSUME NEW k \in Nat, NEW s, Linked(s, k)
  PROVE  Cardinality(Live) = k /\ k <= Cardinality(Node)
<1> DEFINE f == [i \in 1 .. k |-> s[i - 1]]
<1>1. \A i \in 1 .. k : i - 1 \in 0 .. k - 1 /\ f[i] = s[i - 1]
  OBVIOUS
<1>2. \A i \in 0 .. k - 1 : i + 1 \in 1 .. k /\ f[i + 1] = s[i]
  OBVIOUS
<1> HIDE DEF f
<1>3. f \in [1 .. k -> Live]
  BY <1>1 DEF Linked, f
<1>4. \A i, j \in 1 .. k : f[i] = f[j] => i = j
  <2> SUFFICES ASSUME NEW i \in 1 .. k, NEW j \in 1 .. k, f[i] = f[j]
               PROVE  i = j
    OBVIOUS
  <2>1. i - 1 = j - 1
    BY <1>1 DEF Linked
  <2> QED BY <2>1
<1>5. \A n \in Live : \E i \in 1 .. k : f[i] = n
  BY <1>2 DEF Linked
<1>6. f \in Bijection(1 .. k, Live)
  BY <1>3, <1>4, <1>5 DEF Bijection, Injection, Surjection, IsInjective
<1>7. IsFiniteSet(1 .. k) /\ Cardinality(1 .. k) = k
  BY FS_Interval
<1>8. IsFiniteSet(Live) /\ Cardinality(Live) = k
  BY <1>6, <1>7, FS_Bijection DEF ExistsBijection
<1>9. Cardinality(Live) <= Cardinality(Node)
  BY SLListAssumption, FS_Subset DEF Live
<1> QED BY <1>8, <1>9

LEMMA Follows ==
  ASSUME NEW k \in Nat, NEW s, Linked(s, k)
  PROVE  \A i \in 0 .. Cardinality(Node) :
           Reached(list.head)[i] = IF i < k THEN s[i] ELSE NULL
<1> DEFINE N == Cardinality(Node)
           h == list.head
           IsAt(f) == f = [i \in 0 .. N |-> IF i = 0 THEN h ELSE
                             IF f[i - 1] = NULL THEN NULL ELSE node[f[i - 1]].next]
           g == [i \in 0 .. N |-> IF i < k THEN s[i] ELSE NULL]
<1>1. N \in Nat /\ k <= N
  BY SLListAssumption, FS_CardinalityType, ChainLength
<1>2. \A i \in 0 .. k - 1 : s[i] # NULL
  BY NullIsNone DEF Linked, Live
<1>3. \A i \in 0 .. N :
        g[i] = IF i = 0 THEN h ELSE
                 IF g[i - 1] = NULL THEN NULL ELSE node[g[i - 1]].next
  <2> SUFFICES ASSUME NEW i \in 0 .. N
               PROVE  g[i] = IF i = 0 THEN h ELSE
                        IF g[i - 1] = NULL THEN NULL ELSE node[g[i - 1]].next
    OBVIOUS
  <2>1. CASE i = 0
    <3>1. g[0] = IF 0 < k THEN s[0] ELSE NULL
      BY <1>1
    <3> HIDE DEF g
    <3> QED BY <2>1, <3>1 DEF Linked
  <2>2. CASE i # 0
    <3>1. i - 1 \in 0 .. N /\ i \in 0 .. N
      BY <1>1, <2>2
    <3>2. /\ g[i] = IF i < k THEN s[i] ELSE NULL
          /\ g[i - 1] = IF i - 1 < k THEN s[i - 1] ELSE NULL
      BY <3>1
    <3> HIDE DEF g
    <3>3. CASE i - 1 < k
      <4>1. i - 1 \in 0 .. k - 1 /\ (i - 1) + 1 = i
        BY <3>1, <3>3
      <4>2. s[i - 1] # NULL /\ node[s[i - 1]].next = s[i]
        BY <1>2, <4>1 DEF Linked
      <4>3. i < k \/ i = k
        BY <3>1, <3>3
      <4>4. s[k] = NULL
        BY DEF Linked
      <4> QED BY <2>2, <3>2, <3>3, <4>2, <4>3, <4>4
    <3>4. CASE ~(i - 1 < k)
      BY <2>2, <3>1, <3>2, <3>4
    <3> QED BY <3>3, <3>4
  <2> QED BY <2>1, <2>2
<1>4. IsAt(g)
  BY <1>3
<1>5. IsAt(Reached(h))
  <2> HIDE DEF IsAt
  <2>1. IsAt(CHOOSE f : IsAt(f))
    BY <1>4
  <2> USE DEF IsAt
  <2> QED BY <2>1 DEF Reached
<1> DEFINE r == Reached(h)
           S == {i \in 0 .. N : r[i] = g[i]}
<1>6. \A i \in 0 .. N :
        r[i] = IF i = 0 THEN h ELSE
                 IF r[i - 1] = NULL THEN NULL ELSE node[r[i - 1]].next
  <2> HIDE DEF r
  <2> QED BY <1>5 DEF r
<1>7. \A i \in 0 .. N : i \in S
  <2> HIDE DEF r, g
  <2>1. 0 \in S
    BY <1>1, <1>3, <1>6
  <2>2. \A i \in 1 .. N : i - 1 \in S => i \in S
    BY <1>1, <1>3, <1>6
  <2> HIDE DEF S
  <2> QED BY <1>1, <2>1, <2>2, UpTo
<1> QED BY <1>7

LEMMA InvChain ==
  ASSUME Inv, list # NULL
  PROVE  /\ Chain = Live
         /\ Reached(list.head)[Cardinality(Live)] = NULL
<1>1. PICK k \in Nat : \E s : Linked(s, k)
  BY DEF Inv
<1>2. PICK s : Linked(s, k)
  BY <1>1
<1>3. Cardinality(Live) = k /\ k <= Cardinality(Node) /\ Cardinality(Node) \in Nat
  BY <1>2, ChainLength, SLListAssumption, FS_CardinalityType
<1>4. \A i \in 0 .. Cardinality(Node) :
        Reached(list.head)[i] = IF i < k THEN s[i] ELSE NULL
  BY <1>2, Follows
<1>5. Chain = Live
  <2> SUFFICES ASSUME NEW n \in Live
               PROVE  \E i \in 0 .. Cardinality(Node) : Reached(list.head)[i] = n
    BY DEF Chain
  <2>1. PICK i \in 0 .. k - 1 : s[i] = n
    BY <1>2 DEF Linked
  <2>2. i \in 0 .. Cardinality(Node) /\ i < k
    BY <1>3
  <2> QED BY <1>4, <2>1, <2>2
<1>6. Reached(list.head)[k] = NULL
  BY <1>3, <1>4
<1> QED BY <1>3, <1>5, <1>6

-----------------------------------------------------------------------------
(* The values along the sequence are the items of the abstract list.       *)

Along(s, k) == [i \in 1 .. k |-> node[s[i - 1]].data]

LEMMA ItemsAlong ==
  Inv /\ list # NULL => \A k \in Nat : \A s : Linked(s, k) => Items = Along(s, k)
<1> SUFFICES ASSUME Inv, list # NULL, NEW k \in Nat, NEW s, Linked(s, k)
             PROVE  Items = Along(s, k)
  OBVIOUS
<1>1. Cardinality(Chain) = k /\ k <= Cardinality(Node) /\ Cardinality(Node) \in Nat
  BY InvChain, ChainLength, SLListAssumption, FS_CardinalityType
<1>2. \A i \in 1 .. k : Reached(list.head)[i - 1] = s[i - 1]
  <2> SUFFICES ASSUME NEW i \in 1 .. k PROVE Reached(list.head)[i - 1] = s[i - 1]
    OBVIOUS
  <2>1. i - 1 \in 0 .. Cardinality(Node) /\ i - 1 < k
    BY <1>1
  <2> QED BY <2>1, Follows
<1> QED BY <1>1, <1>2 DEF Items, Along

LEMMA NextItemsAlong ==
  (Inv /\ list # NULL => \A k \in Nat : \A s : Linked(s, k) => Items = Along(s, k))'
BY ItemsAlong, PTL

LEMMA AlongIsSeq ==
  ASSUME Inv, NEW k \in Nat, NEW s, Linked(s, k)
  PROVE  /\ Along(s, k) \in Seq(Datum) /\ Len(Along(s, k)) = k
         /\ \A i \in 0 .. k - 1 : Along(s, k)[i + 1] = node[s[i]].data
<1> DEFINE a == Along(s, k)
<1>1. \A i \in 1 .. k : node[s[i - 1]].data \in Datum
  <2> SUFFICES ASSUME NEW i \in 1 .. k PROVE node[s[i - 1]].data \in Datum
    OBVIOUS
  <2>1. i - 1 \in 0 .. k - 1
    OBVIOUS
  <2>2. s[i - 1] \in Live
    BY <2>1 DEF Linked
  <2> QED BY <2>2, LiveNodes DEF SLLNode
<1>2. a \in [1 .. k -> Datum]
  BY <1>1 DEF Along
<1>3. \A i \in 0 .. k - 1 : i + 1 \in 1 .. k /\ (i + 1) - 1 = i
  OBVIOUS
<1>4. \A i \in 0 .. k - 1 : a[i + 1] = node[s[i]].data
  BY <1>3 DEF Along
<1> HIDE DEF a
<1>5. a \in Seq(Datum) /\ Len(a) = k
  BY <1>2
<1> QED BY <1>4, <1>5 DEF a

LEMMA ItemsTyped ==
  ASSUME Inv, list # NULL
  PROVE  Items \in Seq(Datum) /\ (Items = <<>> <=> list.head = NULL)
<1>1. PICK k \in Nat : \E s : Linked(s, k)
  BY DEF Inv
<1>2. PICK s : Linked(s, k)
  BY <1>1
<1>3. Items = Along(s, k)
  BY <1>2, ItemsAlong
<1>4. Items \in Seq(Datum) /\ Len(Items) = k
  BY <1>2, <1>3, AlongIsSeq
<1>5. Items = <<>> <=> k = 0
  BY <1>4
<1> QED BY <1>2, <1>4, <1>5, HeadTells

-----------------------------------------------------------------------------
(* The two ways a node is added, and the calls.                            *)

LEMMA PushFrontInv ==
  ASSUME Inv, list # NULL, NEW data \in Datum, PushFront(data),
         ret'.result \in BOOLEAN \cup {NULL, Undefined}
  PROVE  /\ Inv' /\ Items' = <<data>> \o Items
         /\ list' # NULL /\ list'.head # NULL
         /\ list'.length = Counted(list.length)
         /\ list'.tail = NULL <=> list.head # NULL /\ list.tail = NULL
<1>1. PICK n \in Node \ Live :
        /\ node' = [node EXCEPT ![n] = [data |-> data, next |-> list.head]]
        /\ list' = [list EXCEPT !.head = n, !.length = Counted(@),
                                !.tail = IF list.head = NULL THEN n ELSE @]
  BY DEF PushFront
<1>2. PICK k \in Nat : \E s : Linked(s, k)
  BY DEF Inv
<1>3. PICK s : Linked(s, k)
  BY <1>2
<1> DEFINE tail == IF list.head = NULL THEN n ELSE list.tail
           new == [data |-> data, next |-> list.head]
<1>4. PICK l, h, t : /\ list = [length |-> l, head |-> h, tail |-> t]
                     /\ l \in 0 .. SizeSpan - 1 /\ h \in Address /\ t \in Address
  BY DEF Inv, SLListStruct
<1>5. list' = [length |-> Counted(l), head |-> n, tail |-> tail]
  <2>1. list' = [[[list EXCEPT !.head = n] EXCEPT !.length = Counted(l)]
                   EXCEPT !.tail = tail]
    BY <1>1, <1>4
  <2>2. [list EXCEPT !.head = n] = [length |-> l, head |-> n, tail |-> t]
    BY <1>4
  <2>3. [[length |-> l, head |-> n, tail |-> t] EXCEPT !.length = Counted(l)]
          = [length |-> Counted(l), head |-> n, tail |-> t]
    OBVIOUS
  <2>4. [[length |-> Counted(l), head |-> n, tail |-> t] EXCEPT !.tail = tail]
          = [length |-> Counted(l), head |-> n, tail |-> tail]
    OBVIOUS
  <2> HIDE DEF tail
  <2> QED BY <2>1, <2>2, <2>3, <2>4
<1>6. n \in Address /\ n # NULL /\ tail \in Address
  BY <1>4, NullIsNone DEF Address
<1>7. list' \in SLListStruct /\ list' # NULL
  <2>1. list' \in SLListStruct
    <3> HIDE DEF tail
    <3> QED BY <1>4, <1>5, <1>6, CountedBounded DEF SLListStruct
  <2> QED BY <2>1, NullIsNone
<1>8. new \in SLLNode /\ new # NULL /\ new.next = list.head
  <2>1. new \in SLLNode
    BY <1>4 DEF SLLNode
  <2> QED BY <2>1, NullIsNone
<1>9. /\ node' \in [Node -> SLLNode \cup {NULL}]
      /\ node'[n] = new /\ \A m \in Node \ {n} : node'[m] = node[m]
  <2> HIDE DEF new
  <2> QED BY <1>1, <1>8 DEF Inv, new
<1> HIDE DEF new
<1>10. Live' = Live \cup {n}
  BY <1>8, <1>9 DEF Live
<1>11. \A m \in Live : node'[m] = node[m] /\ m # n
  BY <1>9, LiveNodes
<1> DEFINE z == [i \in 0 .. k + 1 |-> IF i = 0 THEN n ELSE s[i - 1]]
<1>12. z[0] = n /\ \A i \in 1 .. k + 1 : z[i] = s[i - 1]
  OBVIOUS
<1>13. Linked(z, k + 1)'
  <2>1. z \in [0 .. k + 1 -> Address]
    <3>1. \A i \in 0 .. k + 1 : i # 0 => i - 1 \in 0 .. k
      OBVIOUS
    <3> QED BY <1>3, <1>6, <3>1 DEF Linked
  <2> HIDE DEF z
  <2>2. z[0] = list'.head /\ z[k + 1] = NULL
    BY <1>3, <1>5, <1>12 DEF Linked
  <2>3. \A i \in 1 .. k : z[i] \in Live /\ z[i] = s[i - 1]
                          /\ node[z[i]].next = z[i + 1]
    <3> SUFFICES ASSUME NEW i \in 1 .. k
                 PROVE  z[i] \in Live /\ z[i] = s[i - 1]
                        /\ node[z[i]].next = z[i + 1]
      OBVIOUS
    <3>1. i - 1 \in 0 .. k - 1 /\ i \in 1 .. k + 1 /\ i + 1 \in 1 .. k + 1
          /\ (i - 1) + 1 = i /\ (i + 1) - 1 = i
      OBVIOUS
    <3> QED BY <1>3, <1>12, <3>1 DEF Linked
  <2>4. node'[z[0]].next = z[1]
    BY <1>3, <1>8, <1>9, <1>12 DEF Linked
  <2>5. \A i \in 0 .. (k + 1) - 1 : z[i] \in Live' /\ node'[z[i]].next = z[i + 1]
    <3> SUFFICES ASSUME NEW i \in 0 .. (k + 1) - 1
                 PROVE  z[i] \in Live' /\ node'[z[i]].next = z[i + 1]
      OBVIOUS
    <3>1. i = 0 \/ i \in 1 .. k
      OBVIOUS
    <3> QED BY <1>10, <1>11, <1>12, <2>3, <2>4, <3>1
  <2>6. \A i, j \in 0 .. (k + 1) - 1 : z[i] = z[j] => i = j
    <3> SUFFICES ASSUME NEW i \in 0 .. (k + 1) - 1, NEW j \in 0 .. (k + 1) - 1,
                        z[i] = z[j]
                 PROVE  i = j
      OBVIOUS
    <3>1. (i = 0 \/ i \in 1 .. k) /\ (j = 0 \/ j \in 1 .. k)
      OBVIOUS
    <3>2. i # 0 /\ j # 0 => i - 1 \in 0 .. k - 1 /\ j - 1 \in 0 .. k - 1
                            /\ s[i - 1] = s[j - 1]
      BY <2>3, <3>1
    <3>3. i # 0 /\ j # 0 => i - 1 = j - 1
      BY <1>3, <3>2 DEF Linked
    <3>4. \A x \in 1 .. k : z[x] # n
      BY <2>3
    <3> QED BY <1>12, <3>1, <3>3, <3>4
  <2>7. \A m \in Live' : \E i \in 0 .. (k + 1) - 1 : z[i] = m
    <3> SUFFICES ASSUME NEW m \in Live'
                 PROVE  \E i \in 0 .. (k + 1) - 1 : z[i] = m
      OBVIOUS
    <3>1. CASE m = n
      BY <1>12, <3>1
    <3>2. CASE m # n
      <4>1. PICK i \in 0 .. k - 1 : s[i] = m
        BY <1>3, <1>10, <3>2 DEF Linked
      <4>2. i + 1 \in 1 .. k + 1 /\ i + 1 \in 0 .. (k + 1) - 1 /\ (i + 1) - 1 = i
        OBVIOUS
      <4> QED BY <1>12, <4>1, <4>2
    <3> QED BY <3>1, <3>2
  <2> QED BY <2>1, <2>2, <2>5, <2>6, <2>7 DEF Linked
<1>14. list'.head # NULL /\ list'.tail # NULL =>
         list'.tail \in Live' /\ node'[list'.tail].next = NULL
  <2>1. CASE list.head = NULL
    BY <1>5, <1>8, <1>9, <1>10, <2>1
  <2>2. CASE list.head # NULL
    BY <1>5, <1>10, <1>11, <2>2 DEF Inv
  <2> QED BY <2>1, <2>2
<1>15. k + 1 \in Nat
  OBVIOUS
<1> HIDE DEF z
<1>16. Inv'
  BY <1>7, <1>9, <1>13, <1>14, <1>15 DEF Inv
<1>17. Items' = <<data>> \o Items
  <2> DEFINE q == Along(s, k)
  <2>1. Items = q /\ q \in Seq(Datum) /\ Len(q) = k
        /\ \A i \in 0 .. k - 1 : q[i + 1] = node[s[i]].data
    BY <1>3, ItemsAlong, AlongIsSeq
  <2>2. Items' = [i \in 1 .. k + 1 |-> node'[z[i - 1]].data]
    BY <1>7, <1>13, <1>15, <1>16, NextItemsAlong DEF Along
  <2> HIDE DEF q
  <2>3. \A i \in 1 .. k + 1 :
          node'[z[i - 1]].data = IF i = 1 THEN data ELSE q[i - 1]
    <3> SUFFICES ASSUME NEW i \in 1 .. k + 1
                 PROVE  node'[z[i - 1]].data = IF i = 1 THEN data ELSE q[i - 1]
      OBVIOUS
    <3>1. CASE i = 1
      BY <1>9, <1>12, <3>1 DEF new
    <3>2. CASE i # 1
      <4>1. i - 1 \in 1 .. k + 1 /\ i - 2 \in 0 .. k - 1 /\ (i - 1) - 1 = i - 2
            /\ (i - 2) + 1 = i - 1
        BY <3>2
      <4>2. z[i - 1] = s[i - 2] /\ s[i - 2] \in Live
        BY <1>3, <1>12, <4>1 DEF Linked
      <4> QED BY <1>11, <2>1, <3>2, <4>1, <4>2
    <3> QED BY <3>1, <3>2
  <2> DEFINE r == <<data>> \o q
  <2>4. /\ r \in Seq(Datum) /\ Len(r) = k + 1
        /\ \A i \in 1 .. k + 1 : r[i] = IF i = 1 THEN data ELSE q[i - 1]
    <3>1. <<data>> \in Seq(Datum) /\ Len(<<data>>) = 1 /\ <<data>>[1] = data
      OBVIOUS
    <3>2. /\ r \in Seq(Datum) /\ Len(r) = 1 + k
          /\ \A i \in 1 .. 1 + k : r[i] = IF i <= 1 THEN <<data>>[i] ELSE q[i - 1]
      BY <2>1, <3>1, ConcatProperties
    <3> HIDE DEF r
    <3> QED BY <3>1, <3>2
  <2> HIDE DEF r
  <2>5. r = [i \in 1 .. k + 1 |-> r[i]]
    BY <2>4, LenProperties
  <2>6. Items' = r
    BY <2>2, <2>3, <2>4, <2>5
  <2> QED BY <2>1, <2>6 DEF r
<1>18. list'.tail = NULL <=> list.head # NULL /\ list.tail = NULL
  BY <1>5, <1>6
<1> QED BY <1>4, <1>5, <1>6, <1>7, <1>16, <1>17, <1>18

(* The only node without a successor is the last of the sequence.          *)
LEMMA LastNode ==
  ASSUME Inv, NEW k \in Nat, NEW s, Linked(s, k),
         NEW t \in Live, node[t].next = NULL
  PROVE  k \in Nat \ {0} /\ s[k - 1] = t
<1>1. PICK i \in 0 .. k - 1 : s[i] = t
  BY DEF Linked
<1>2. i + 1 \notin 0 .. k - 1
  BY <1>1, LiveNodes DEF Linked
<1>3. i = k - 1 /\ k \in Nat \ {0}
  BY <1>2
<1> QED BY <1>1, <1>3

LEMMA PushBackInv ==
  ASSUME Inv, list # NULL, list.head # NULL, list.tail # NULL,
         NEW data \in Datum, PushBack(data),
         ret'.result \in BOOLEAN \cup {NULL, Undefined}
  PROVE  /\ Inv' /\ Items' = Append(Items, data)
         /\ list' # NULL /\ list'.head # NULL /\ list'.tail # NULL
         /\ list'.length = list.length
<1>1. PICK n \in Node \ Live :
        /\ node' = [node EXCEPT ![n] = [data |-> data, next |-> NULL],
                                ![list.tail].next = n]
        /\ list' = [list EXCEPT !.tail = n]
  BY DEF PushBack
<1>2. PICK k \in Nat : \E s : Linked(s, k)
  BY DEF Inv
<1>3. PICK s : Linked(s, k)
  BY <1>2
<1> DEFINE t == list.tail
           new == [data |-> data, next |-> NULL]
           last == [node[t] EXCEPT !.next = n]
<1>4. t \in Live /\ node[t].next = NULL /\ k \in Nat \ {0} /\ s[k - 1] = t
  BY <1>3, LastNode DEF Inv
<1>5. /\ list' \in SLListStruct /\ list' # NULL /\ list'.head = list.head
      /\ list'.tail = n /\ list'.length = list.length
  <2>1. n \in Address
    BY DEF Address
  <2>2. /\ list' \in SLListStruct /\ list'.head = list.head
        /\ list'.tail = n /\ list'.length = list.length
    BY <1>1, <2>1 DEF Inv, SLListStruct
  <2> QED BY <2>2, NullIsNone
<1>6. /\ new \in SLLNode /\ new # NULL /\ new.next = NULL
      /\ last \in SLLNode /\ last # NULL /\ last.next = n
  <2>1. node[t] \in SLLNode
    BY <1>4, LiveNodes
  <2>2. new \in SLLNode /\ last \in SLLNode /\ last.next = n
    BY <2>1 DEF SLLNode, Address
  <2> HIDE DEF last
  <2> QED BY <2>2, NullIsNone
<1>7. t \in Node /\ t # n
  BY <1>4, LiveNodes
<1>8. /\ node' \in [Node -> SLLNode \cup {NULL}]
      /\ node'[n] = new /\ node'[t] = last
      /\ \A m \in Node \ {n, t} : node'[m] = node[m]
  <2>1. node' = [[node EXCEPT ![n] = new] EXCEPT ![t] = last]
    <3>1. [node EXCEPT ![n] = new][t] = node[t]
      BY <1>7 DEF Inv
    <3> QED BY <1>1, <3>1
  <2> HIDE DEF new, last, t
  <2> QED BY <1>6, <1>7, <2>1 DEF Inv
<1> HIDE DEF new, last
<1>9. Live' = Live \cup {n}
  BY <1>4, <1>6, <1>7, <1>8 DEF Live
<1> DEFINE z == [i \in 0 .. k + 1 |-> IF i = k THEN n ELSE
                                      IF i = k + 1 THEN NULL ELSE s[i]]
<1>10. z[k] = n /\ z[k + 1] = NULL /\ \A i \in 0 .. k - 1 : z[i] = s[i]
  OBVIOUS
<1>11. Linked(z, k + 1)'
  <2>1. z \in [0 .. k + 1 -> Address]
    <3>1. \A i \in 0 .. k + 1 : i # k /\ i # k + 1 => i \in 0 .. k
      OBVIOUS
    <3> QED BY <1>3, <3>1 DEF Linked, Address
  <2> HIDE DEF z
  <2>2. z[0] = list'.head /\ z[k + 1] = NULL
    BY <1>3, <1>4, <1>5, <1>10 DEF Linked
  <2>3. \A i \in 0 .. k - 1 : z[i] \in Live /\ z[i] # n /\ z[i] \in Node
    BY <1>3, <1>10, LiveNodes DEF Linked
  <2>4. \A i \in 0 .. (k + 1) - 1 : z[i] \in Live' /\ node'[z[i]].next = z[i + 1]
    <3> SUFFICES ASSUME NEW i \in 0 .. (k + 1) - 1
                 PROVE  z[i] \in Live' /\ node'[z[i]].next = z[i + 1]
      OBVIOUS
    <3>1. CASE i = k
      BY <1>6, <1>8, <1>9, <1>10, <3>1
    <3>2. CASE i = k - 1
      <4>1. i \in 0 .. k - 1 /\ i + 1 = k
        BY <1>4, <3>2
      <4>2. z[i] = t
        BY <1>4, <1>10, <3>2, <4>1
      <4> QED BY <1>6, <1>8, <1>9, <1>10, <2>3, <4>1, <4>2
    <3>3. CASE i # k /\ i # k - 1
      <4>1. i \in 0 .. k - 1 /\ i + 1 \in 0 .. k - 1 /\ k - 1 \in 0 .. k - 1
        BY <1>4, <3>3
      <4>2. s[i] # t
        BY <1>3, <1>4, <3>3, <4>1 DEF Linked
      <4>3. node'[z[i]] = node[s[i]]
        BY <1>8, <1>10, <2>3, <4>1, <4>2
      <4> QED BY <1>3, <1>9, <1>10, <2>3, <4>1, <4>3 DEF Linked
    <3> QED BY <3>1, <3>2, <3>3
  <2>5. \A i, j \in 0 .. (k + 1) - 1 : z[i] = z[j] => i = j
    <3> SUFFICES ASSUME NEW i \in 0 .. (k + 1) - 1, NEW j \in 0 .. (k + 1) - 1,
                        z[i] = z[j]
                 PROVE  i = j
      OBVIOUS
    <3>1. (i = k \/ i \in 0 .. k - 1) /\ (j = k \/ j \in 0 .. k - 1)
      OBVIOUS
    <3> QED BY <1>3, <1>10, <2>3, <3>1 DEF Linked
  <2>6. \A m \in Live' : \E i \in 0 .. (k + 1) - 1 : z[i] = m
    <3> SUFFICES ASSUME NEW m \in Live'
                 PROVE  \E i \in 0 .. (k + 1) - 1 : z[i] = m
      OBVIOUS
    <3>1. CASE m = n
      <4>1. k \in 0 .. (k + 1) - 1
        OBVIOUS
      <4> QED BY <1>10, <3>1, <4>1
    <3>2. CASE m # n
      <4>1. PICK i \in 0 .. k - 1 : s[i] = m
        BY <1>3, <1>9, <3>2 DEF Linked
      <4>2. i \in 0 .. (k + 1) - 1
        OBVIOUS
      <4> QED BY <1>10, <4>1, <4>2
    <3> QED BY <3>1, <3>2
  <2> QED BY <2>1, <2>2, <2>4, <2>5, <2>6 DEF Linked
<1>12. list'.tail \in Live' /\ node'[list'.tail].next = NULL
  BY <1>5, <1>6, <1>8, <1>9
<1>13. k + 1 \in Nat
  OBVIOUS
<1> HIDE DEF z
<1>14. Inv'
  BY <1>5, <1>8, <1>11, <1>12, <1>13 DEF Inv
<1>15. Items' = Append(Items, data)
  <2> DEFINE q == Along(s, k)
  <2>1. Items = q /\ q \in Seq(Datum) /\ Len(q) = k
        /\ \A i \in 0 .. k - 1 : q[i + 1] = node[s[i]].data
    BY <1>3, ItemsAlong, AlongIsSeq
  <2>2. Items' = [i \in 1 .. k + 1 |-> node'[z[i - 1]].data]
    BY <1>5, <1>11, <1>13, <1>14, NextItemsAlong DEF Along
  <2> HIDE DEF q
  <2>3. \A i \in 1 .. k + 1 :
          node'[z[i - 1]].data = IF i = k + 1 THEN data ELSE q[i]
    <3> SUFFICES ASSUME NEW i \in 1 .. k + 1
                 PROVE  node'[z[i - 1]].data = IF i = k + 1 THEN data ELSE q[i]
      OBVIOUS
    <3>1. CASE i = k + 1
      BY <1>8, <1>10, <3>1 DEF new
    <3>2. CASE i # k + 1
      <4>1. i - 1 \in 0 .. k - 1 /\ (i - 1) + 1 = i
        BY <3>2
      <4>2. z[i - 1] = s[i - 1] /\ s[i - 1] \in Live
        BY <1>3, <1>10, <4>1 DEF Linked
      <4>3. node'[s[i - 1]].data = node[s[i - 1]].data
        <5>1. s[i - 1] # n /\ s[i - 1] \in Node
          BY <4>2, LiveNodes
        <5>2. last.data = node[t].data
          BY <1>4, LiveNodes DEF last, SLLNode
        <5> QED BY <1>8, <5>1, <5>2
      <4> QED BY <2>1, <3>2, <4>1, <4>2, <4>3
    <3> QED BY <3>1, <3>2
  <2> DEFINE r == Append(q, data)
  <2>4. /\ r \in Seq(Datum) /\ Len(r) = k + 1
        /\ \A i \in 1 .. k + 1 : r[i] = IF i = k + 1 THEN data ELSE q[i]
    <3>1. /\ r \in Seq(Datum) /\ Len(r) = k + 1
          /\ \A i \in 1 .. k : r[i] = q[i]
          /\ r[k + 1] = data
      BY <2>1, AppendProperties
    <3>2. \A i \in 1 .. k + 1 : i = k + 1 \/ i \in 1 .. k
      OBVIOUS
    <3> HIDE DEF r
    <3> QED BY <3>1, <3>2
  <2> HIDE DEF r
  <2>5. r = [i \in 1 .. k + 1 |-> r[i]]
    BY <2>4, LenProperties
  <2> QED BY <2>1, <2>2, <2>3, <2>4, <2>5 DEF r
<1>16. n # NULL
  BY NullIsNone
<1> QED BY <1>5, <1>14, <1>15, <1>16

(* The last node's next is null already.                                   *)
LEMMA LoseTailInv ==
  ASSUME Inv, list # NULL, list.head # NULL, list.tail # NULL, LoseTail,
         ret'.result \in BOOLEAN \cup {NULL, Undefined}
  PROVE  /\ Inv' /\ Items' = Items
         /\ list' # NULL /\ list'.head # NULL /\ list'.tail = NULL
         /\ list'.length = list.length
<1> DEFINE t == list.tail
<1>1. t \in Live /\ node[t].next = NULL /\ node[t] \in SLLNode
  BY LiveNodes DEF Inv
<1>2. node' = node
  <2>1. [node[t] EXCEPT !.next = NULL] = node[t]
    BY <1>1 DEF SLLNode
  <2>2. node' = [node EXCEPT ![t] = [node[t] EXCEPT !.next = NULL]]
    BY DEF LoseTail
  <2> HIDE DEF t
  <2> QED BY <2>1, <2>2 DEF Inv
<1>3. /\ list' \in SLListStruct /\ list' # NULL /\ list'.head = list.head
      /\ list'.tail = NULL /\ list'.length = list.length
  <2>1. /\ list' \in SLListStruct /\ list'.head = list.head
        /\ list'.tail = NULL /\ list'.length = list.length
    BY DEF LoseTail, Inv, SLListStruct, Address
  <2> QED BY <2>1, NullIsNone
<1>4. Live' = Live
  BY <1>2 DEF Live
<1>5. \A k \in Nat : \A s : Linked(s, k) => Linked(s, k)'
  BY <1>2, <1>3, <1>4 DEF Linked
<1>6. Inv'
  BY <1>2, <1>3, <1>4, <1>5 DEF Inv
<1>7. Items' = Items
  BY <1>2, <1>3, <1>4 DEF Items, Chain, Reached
<1> QED BY <1>3, <1>6, <1>7

LEMMA SameInv ==
  ASSUME Inv, UNCHANGED <<list, node>>,
         ret'.result \in BOOLEAN \cup {NULL, Undefined}
  PROVE  Inv'
<1>1. Live' = Live
  BY DEF Live
<1>2. \A k \in Nat : \A s : Linked(s, k) => Linked(s, k)'
  BY <1>1 DEF Linked
<1> QED BY <1>1, <1>2 DEF Inv

(* A struct without nodes.                                                 *)
LEMMA EmptyInv ==
  ASSUME Inv, node' \in [Node -> SLLNode \cup {NULL}], Live' = {},
         list' = NULL \/ (list' \in SLListStruct /\ list'.head = NULL),
         ret'.result \in BOOLEAN \cup {NULL, Undefined}
  PROVE  Inv'
<1>1. CASE list' = NULL
  BY <1>1 DEF Inv
<1>2. CASE list' # NULL
  <2> DEFINE z == [i \in 0 .. 0 |-> NULL]
  <2>1. z \in [0 .. 0 -> Address] /\ z[0] = NULL
    BY DEF Address
  <2>2. \A i : i \notin 0 .. 0 - 1
    OBVIOUS
  <2> HIDE DEF z
  <2>3. Linked(z, 0)'
    BY <1>2, <2>1, <2>2 DEF Linked
  <2> QED BY <1>2, <2>3 DEF Inv
<1> QED BY <1>1, <1>2

LEMMA NextInv == Inv /\ [Next]_vars => Inv'
<1> SUFFICES ASSUME Inv, [Next]_vars PROVE Inv'
  OBVIOUS
<1>1. CASE SllCreate
  <2>1. Live = {}
    <3>1. list # NULL => list.head = NULL
      BY <1>1 DEF SllCreate
    <3> QED BY <3>1, EmptyListHasNone DEF Inv
  <2>2. node' = node /\ Live' = {}
    BY <1>1, <2>1 DEF SllCreate, Live
  <2>3. list' = NULL \/ (list' \in SLListStruct /\ list'.head = NULL)
    BY <1>1, SpanIsPositive DEF SllCreate, SLListStruct, Address
  <2>4. ret'.result \in BOOLEAN
    BY <1>1 DEF SllCreate, Returns
  <2> QED BY <2>2, <2>3, <2>4, EmptyInv DEF Inv
<1>2. CASE SllDelete
  <2>1. CASE list = NULL
    BY <1>2, <2>1, SameInv DEF SllDelete, Unchanged, Returns
  <2>2. CASE list # NULL
    <3>1. /\ list' = Emptied /\ ret'.result = NULL
          /\ node' = [n \in Node |-> IF n \in Chain THEN NULL ELSE node[n]]
      BY <1>2, <2>2 DEF SllDelete, Returns, Unchanged
    <3>2. Chain = Live
      BY <2>2, InvChain
    <3>3. node' \in [Node -> SLLNode \cup {NULL}] /\ Live' = {}
      BY <3>1, <3>2 DEF Inv, Live
    <3>4. list' \in SLListStruct /\ list'.head = NULL
      BY <2>2, <3>1 DEF Emptied, Inv, SLListStruct, Address
    <3> QED BY <3>1, <3>3, <3>4, EmptyInv
  <2> QED BY <2>1, <2>2
<1>3. CASE \E data \in Datum \cup {NULL} : SllPrepend(data)
  <2>1. PICK data \in Datum \cup {NULL} : SllPrepend(data)
    BY <1>3
  <2>2. CASE \E result \in BOOLEAN \cup {Undefined} : Unchanged("sllPrepend", result)
    BY <2>2, SameInv DEF Unchanged, Returns
  <2>3. CASE list # NULL /\ data # NULL /\ PushFront(data) /\ Returns("sllPrepend", TRUE)
    <3>1. ret'.result = TRUE
      BY <2>3 DEF Returns
    <3> QED BY <2>3, <3>1, PushFrontInv
  <2> QED BY <2>1, <2>2, <2>3 DEF SllPrepend
<1>4. CASE \E data \in Datum \cup {NULL} : SllAppend(data)
  <2>1. PICK data \in Datum \cup {NULL} : SllAppend(data)
    BY <1>4
  <2>2. CASE \E result \in BOOLEAN \cup {Undefined} : Unchanged("sllAppend", result)
    BY <2>2, SameInv DEF Unchanged, Returns
  <2>3. CASE /\ list # NULL /\ data # NULL
             /\ PushFront(data) /\ Returns("sllAppend", TRUE)
    <3>1. ret'.result = TRUE
      BY <2>3 DEF Returns
    <3> QED BY <2>3, <3>1, PushFrontInv
  <2>4. CASE /\ list # NULL /\ data # NULL
             /\ list.head # NULL /\ list.tail # NULL
             /\ PushBack(data) \/ LoseTail
             /\ Returns("sllAppend", TRUE)
    <3>1. ret'.result = TRUE
      BY <2>4 DEF Returns
    <3> QED BY <2>4, <3>1, PushBackInv, LoseTailInv
  <2> QED BY <2>1, <2>2, <2>3, <2>4 DEF SllAppend
<1>5. CASE Stopped \/ UNCHANGED vars
  BY <1>5, SameInv DEF Stopped, vars, Inv
<1> QED BY <1>1, <1>2, <1>3, <1>4, <1>5 DEF Next

LEMMA InitInv == Init => Inv
<1> SUFFICES ASSUME Init PROVE Inv
  OBVIOUS
<1> QED BY DEF Init, Inv, Live

LEMMA Invariance == Spec => []Inv
BY InitInv, NextInv, PTL DEF Spec

-----------------------------------------------------------------------------
(* Theorems.                                                               *)

(* head and every next point to allocated nodes or nowhere.                *)
THEOREM TypeCorrect == Spec => []TypeOK
<1>1. Inv => TypeOK
  <2> SUFFICES ASSUME Inv PROVE TypeOK
    OBVIOUS
  <2>1. ASSUME list # NULL
        PROVE  /\ list.head \in Live \cup {NULL}
               /\ \A n \in Live : node[n].next \in Live \cup {NULL}
    <3>1. PICK k \in Nat : \E s : Linked(s, k)
      BY <2>1 DEF Inv
    <3>2. PICK s : Linked(s, k)
      BY <3>1
    <3>3. \A i \in 0 .. k : s[i] \in Live \cup {NULL}
      <4>1. \A i \in 0 .. k : i = k \/ i \in 0 .. k - 1
        OBVIOUS
      <4> QED BY <3>2, <4>1 DEF Linked
    <3>4. \A i \in 0 .. k - 1 : i + 1 \in 0 .. k
      OBVIOUS
    <3>5. 0 \in 0 .. k
      OBVIOUS
    <3> QED BY <3>2, <3>3, <3>4, <3>5 DEF Linked
  <2>2. CASE list = NULL
    BY <2>2 DEF Inv, TypeOK
  <2>3. CASE list # NULL
    <3>1. list \in [length : 0 .. SizeSpan - 1, head : Live \cup {NULL},
                    tail : Node \cup {NULL}]
      BY <2>1, <2>3 DEF Inv, SLListStruct, Address
    <3>2. \A n \in Live : node[n] \in [data : Datum, next : Live \cup {NULL}]
      BY <2>1, <2>3, LiveNodes DEF SLLNode
    <3> QED BY <3>1, <3>2 DEF Inv, TypeOK
  <2> QED BY <2>2, <2>3
<1> QED BY Invariance, <1>1, PTL

(* No call closes a cycle, loses a node or frees one twice.                *)
THEOREM ChainsExact == Spec => []ChainExact
<1>1. Inv => ChainExact
  BY InvChain DEF Inv, ChainExact
<1> QED BY Invariance, <1>1, PTL

(* tail is never a node that was freed or one in the middle of the list.   *)
THEOREM TailsLast == Spec => []TailIsLast
<1>1. Inv => TailIsLast
  BY InvChain DEF Inv, TailIsLast
<1> QED BY Invariance, <1>1, PTL

-----------------------------------------------------------------------------
(* Each call takes a step of the abstract list.                            *)

LEMMA NextItemsTyped ==
  (Inv /\ list # NULL => Items \in Seq(Datum) /\ (Items = <<>> <=> list.head = NULL))'
BY ItemsTyped, PTL

LEMMA CreateStep ==
  ASSUME Inv, Inv', SllCreate
  PROVE  Abstract!Next
<1>1. list # NULL => Items = <<>>
  BY ItemsTyped DEF SllCreate
<1>2. list' # NULL => Items' = <<>> /\ list'.length = 0 /\ list'.head = NULL
  BY NextItemsTyped DEF SllCreate
<1>3. Abstract!Create
  BY <1>1, <1>2 DEF SllCreate, Returns, Abstract!Create, Abstract!Returns
<1> QED BY <1>3 DEF SllCreate, Ready, Abstract!Next

LEMMA DeleteStep ==
  ASSUME Inv, Inv', SllDelete
  PROVE  Abstract!Next
<1>1. CASE list = NULL
  <2>1. Abstract!Crash
    BY <1>1 DEF SllDelete, Unchanged, Returns, Items, Chain, Live, Reached,
                Abstract!Crash, Abstract!Returns
  <2> QED BY <2>1 DEF SllDelete, Ready, Abstract!Next
<1>2. CASE list # NULL
  <2>1. list' = Emptied /\ Returns("sllDelete", NULL)
    BY <1>2 DEF SllDelete, Unchanged
  <2>2. list' \in SLListStruct /\ list'.head = NULL /\ list'.length = list.length
    BY <1>2, <2>1 DEF Emptied, Inv, SLListStruct, Address
  <2>3. list' # NULL /\ Items' = <<>>
    BY <2>2, NullIsNone, NextItemsTyped
  <2>4. Abstract!Delete
    BY <1>2, <2>1, <2>2, <2>3 DEF Returns, Abstract!Delete, Abstract!Returns
  <2> QED BY <2>4 DEF SllDelete, Ready, Abstract!Next
<1> QED BY <1>1, <1>2

LEMMA SameItems ==
  ASSUME UNCHANGED <<list, node>>
  PROVE  Items' = Items
BY DEF Items, Chain, Live, Reached

LEMMA PrependStep ==
  ASSUME Inv, NEW data \in Datum \cup {NULL}, SllPrepend(data)
  PROVE  Abstract!Next
<1>1. CASE list = NULL
  <2>1. Abstract!Crash
    BY <1>1, SameItems DEF SllPrepend, Unchanged, Returns, Abstract!Crash, Abstract!Returns
  <2> QED BY <2>1 DEF SllPrepend, Ready, Abstract!Next
<1>2. CASE list # NULL /\ Unchanged("sllPrepend", FALSE)
  <2>1. Abstract!Refuse(data)
    BY <1>2, SameItems DEF Unchanged, Returns, Abstract!Refuse, Abstract!Returns
  <2> QED BY <2>1 DEF SllPrepend, Ready, Abstract!Next
<1>3. CASE list # NULL /\ data # NULL /\ PushFront(data) /\ Returns("sllPrepend", TRUE)
  <2>1. ret'.result = TRUE /\ data \in Datum
    BY <1>3 DEF Returns
  <2>2. /\ Items' = <<data>> \o Items
        /\ list' # NULL /\ list'.head # NULL
        /\ list'.length = Counted(list.length)
        /\ list'.tail = NULL <=> list.head # NULL /\ list.tail = NULL
    BY <1>3, <2>1, PushFrontInv
  <2>3. Abstract!AddFirst(data)
    BY <1>3, <2>2 DEF Counted, Returns, Abstract!AddFirst, Abstract!Returns,
                           SizeSpan, Abstract!SizeSpan, Pow2, Abstract!Pow2
  <2> QED BY <2>1, <2>3 DEF SllPrepend, Ready, Abstract!Next
<1> QED BY <1>1, <1>2, <1>3 DEF SllPrepend

LEMMA AppendStep ==
  ASSUME Inv, NEW data \in Datum \cup {NULL}, SllAppend(data)
  PROVE  Abstract!Next
<1>0. list # NULL => (Items = <<>> <=> list.head = NULL)
  BY ItemsTyped
<1>1. CASE list = NULL
  <2>1. Abstract!Crash
    BY <1>1, SameItems DEF SllAppend, Unchanged, Returns, Abstract!Crash, Abstract!Returns
  <2> QED BY <2>1 DEF SllAppend, Ready, Abstract!Next
<1>2. CASE /\ list # NULL
           /\ list.head = NULL \/ data = NULL
           /\ Unchanged("sllAppend", FALSE)
  <2>1. Abstract!Refuse(data)
    BY <1>0, <1>2, SameItems DEF Unchanged, Returns, Abstract!Refuse, Abstract!Returns
  <2> QED BY <2>1 DEF SllAppend, Ready, Abstract!Next
<1>3. CASE /\ list # NULL /\ data # NULL /\ list.head = NULL
           /\ PushFront(data) /\ Returns("sllAppend", TRUE)
  <2>1. ret'.result = TRUE /\ data \in Datum
    BY <1>3 DEF Returns
  <2>2. /\ Items' = <<data>> \o Items
        /\ list' # NULL /\ list'.head # NULL
        /\ list'.length = Counted(list.length)
        /\ list'.tail = NULL <=> list.head # NULL /\ list.tail = NULL
    BY <1>3, <2>1, PushFrontInv
  <2>3. Abstract!AddFirst(data)
    BY <1>0, <1>3, <2>2 DEF Counted, Returns, Abstract!AddFirst, Abstract!Returns,
                           SizeSpan, Abstract!SizeSpan, Pow2, Abstract!Pow2
  <2> QED BY <2>1, <2>3 DEF SllAppend, Ready, Abstract!Next
<1>4. CASE /\ list # NULL /\ list.head # NULL /\ list.tail = NULL
           /\ Unchanged("sllAppend", Undefined)
  <2>1. Abstract!Crash
    BY <1>4, SameItems DEF Unchanged, Returns, Abstract!Crash, Abstract!Returns
  <2> QED BY <2>1 DEF SllAppend, Ready, Abstract!Next
<1>5. CASE /\ list # NULL /\ data # NULL /\ list.head # NULL /\ list.tail # NULL
           /\ PushBack(data) \/ LoseTail
           /\ Returns("sllAppend", TRUE)
  <2>1. ret'.result = TRUE /\ data \in Datum
    BY <1>5 DEF Returns
  <2>2. /\ \/ Items' = Append(Items, data) /\ list'.tail # NULL
           \/ Items' = Items /\ list'.tail = NULL
        /\ list' # NULL /\ list'.head # NULL /\ list'.length = list.length
    BY <1>5, <2>1, PushBackInv, LoseTailInv
  <2>3. Abstract!AddLast(data)
    BY <1>0, <1>5, <2>2 DEF Returns, Abstract!AddLast, Abstract!Returns
  <2> QED BY <2>1, <2>3 DEF SllAppend, Ready, Abstract!Next
<1> QED BY <1>1, <1>2, <1>3, <1>4, <1>5 DEF SllAppend

(* The list is an AppendList: a call adds the element at the right end of  *)
(* the chain of nodes, drops it or crashes just as that sequence says.     *)
THEOREM AppendListImplemented == Spec => ImplementsAppendList
<1>1. Init => Abstract!Init
  BY DEF Init, Abstract!Init
<1>2. Inv /\ Inv' /\ [Next]_vars => [Abstract!Next]_(Abstract!vars)
  <2> SUFFICES ASSUME Inv, Inv', [Next]_vars
               PROVE  Abstract!Next \/ UNCHANGED Abstract!vars
    OBVIOUS
  <2>1. CASE Stopped \/ UNCHANGED vars
    BY <2>1, SameItems DEF Stopped, vars, Abstract!vars
  <2> QED BY <2>1, CreateStep, DeleteStep, PrependStep, AppendStep DEF Next
<1> QED BY Invariance, <1>1, <1>2, PTL DEF Spec, ImplementsAppendList, Abstract!Spec

=============================================================================
