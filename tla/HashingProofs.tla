--------------------------- MODULE HashingProofs ----------------------------
(***************************************************************************)
(* The invariants of Hashing, for any bytes, memory, word and element      *)
(* sizes.  Words, the words a key spells, is defined from the key alone;   *)
(* that the loops absorb exactly these is the inductive invariant, and the *)
(* other properties are facts about it.                                    *)
(***************************************************************************)
EXTENDS Hashing, CommonProofs, SequenceTheorems

(* The zero byte that ends a string is the first one.                      *)
EndsAfter(k, at, n) ==
  /\ at + n + 1 <= Len(k.memory)
  /\ k.memory[at + n + 1] = 0
  /\ \A j \in 1 .. n : k.memory[at + j] # 0

StringLen(k, at) == CHOOSE n \in Nat : EndsAfter(k, at, n)

(* The first n bytes of the string at an element.                          *)
Prefix(k, i, n) == [j \in 1 .. n |-> Word(k, Offset(k, i) + (j - 1), 1)]

(* What follows depends on the type t of the key.                          *)
AsString(t) == t \in {"STR_KEY", "STR_TUPLE_KEY", "UINT_TUPLE_KEY"}

Width(t) == IF AsString(t) THEN 1 ELSE WORD

OneWord(t) == {w \in Seq(Byte) : Len(w) = Width(t)}

ElementWords(t, k, i) ==
  IF AsString(t) THEN Prefix(k, i, StringLen(k, Offset(k, i)))
  ELSE <<Word(k, Offset(k, i), WORD)>>

(* w[i] are the words of the first i elements.                             *)
Spells(w, t, k) ==
  /\ w \in [0 .. k.length -> Seq(OneWord(t))]
  /\ w[0] = <<>>
  /\ \A i \in 1 .. k.length : w[i] = w[i - 1] \o ElementWords(t, k, i - 1)

Words(t, k) == CHOOSE w : Spells(w, t, k)

GoodKey(t, k) == k \in Keys(t)

(* What has been absorbed of the key k being hashed.                       *)
Absorbed(k) ==
  /\ element \in 0 .. k.length
  /\ IF element < k.length /\ AsString(key_type)
     THEN p \in 0 .. StringLen(k, Offset(k, element))
     ELSE p = 0
  /\ hash[turn] = Words(key_type, k)[element] \o Prefix(k, element, p)

Inv ==
  /\ key_type \in KeyType
  /\ key \in [{1, 2} -> Keys(key_type)]
  /\ turn \in 1 .. 3
  /\ hash \in [{1, 2} -> Seq(OneWord(key_type))]
  /\ turn # 3 => Absorbed(key[turn])
  /\ turn = 3 => p = 0
  /\ \A k \in {1, 2} :
       /\ k < turn => hash[k] = Words(key_type, key[k])[key[k].length]
       /\ k > turn => hash[k] = <<>>

-----------------------------------------------------------------------------
(* Keys.                                                                   *)

LEMMA MulMonotone ==
  ASSUME NEW a \in Nat, NEW b \in Nat, NEW d \in Nat, a <= b
  PROVE  /\ a * d \in Nat /\ b * d \in Nat
         /\ a * d <= b * d /\ (a + 1) * d = a * d + d
<1>1. (b - a) * d >= 0
  OBVIOUS
<1>2. (b - a) * d = b * d - a * d
  OBVIOUS
<1> QED BY <1>1, <1>2

LEMMA Sizes ==
  /\ Length \subseteq Nat /\ DataSize \subseteq Nat \ {0}
  /\ WORD \in Nat \ {0} /\ 0 \in Byte
BY HashingAssumption

LEMMA KeyFacts ==
  ASSUME NEW t, NEW k, GoodKey(t, k)
  PROVE  /\ k.memory \in Seq(Byte) /\ Len(k.memory) \in Nat \ {0}
         /\ k.memory[Len(k.memory)] = 0
         /\ k.length \in Nat /\ k.data_size \in Nat \ {0}
         /\ t \notin TupleType => k.length = 1
         /\ k.length * k.data_size <= Len(k.memory)
<1>1. /\ k.memory \in Memory /\ k.length \in Length \cup {1}
      /\ t \notin TupleType => k.length = 1
  BY DEF GoodKey, Keys
<1>2. k.data_size \in DataSize
  BY DEF GoodKey, Keys
<1>3. k.memory \in Seq(Byte) /\ k.memory # <<>>
  BY <1>1, HashingAssumption
<1>4. Len(k.memory) \in Nat \ {0}
  BY <1>3, EmptySeq
<1>5. k.length \in Nat /\ k.data_size \in Nat \ {0}
  <2> DEFINE n == k.length
             d == k.data_size
  <2>1. n \in Length \cup {1} /\ d \in DataSize
    BY <1>1, <1>2
  <2> HIDE DEF n, d
  <2>2. n \in Nat /\ d \in Nat \ {0}
    BY <2>1, Sizes
  <2> QED BY <2>2 DEF n, d
<1>6. k.length * k.data_size <= Len(k.memory)
  <2> DEFINE m == k.memory
             n == k.length
             d == k.data_size
  <2>1. m \in Memory /\ n \in Length \cup {1} /\ d \in DataSize
    BY <1>1, <1>2
  <2> HIDE DEF m, n, d
  <2>2. n * d <= Len(m)
    BY <2>1, HashingAssumption
  <2> QED BY <2>2 DEF m, n, d
<1>7. k.memory[Len(k.memory)] = 0
  BY <1>1, HashingAssumption
<1> QED BY <1>1, <1>3, <1>4, <1>5, <1>6, <1>7

(* An element starts within the key, and a word from there on within the   *)
(* memory behind it.                                                       *)
LEMMA OffsetFacts ==
  ASSUME NEW t, NEW k, GoodKey(t, k), NEW i \in 0 .. k.length - 1
  PROVE  /\ Offset(k, i) \in Nat
         /\ Offset(k, i) + k.data_size <= k.length * k.data_size
         /\ Offset(k, i) <= Offset(k, k.length - 1)
         /\ Offset(k, k.length - 1) \in Nat
         /\ Offset(k, k.length - 1) + k.data_size = k.length * k.data_size
         /\ Offset(k, i) + WORD <= Len(k.memory)
         /\ Offset(k, i) < Len(k.memory)
<1> DEFINE d == k.data_size
           n == k.length
<1>1. n \in Nat /\ d \in Nat \ {0} /\ i \in Nat /\ i <= n - 1 /\ n - 1 \in Nat
      /\ i + 1 \in Nat /\ i + 1 <= n
  BY KeyFacts
<1>2. /\ k.memory \in Memory /\ n \in Length \cup {1} /\ d \in DataSize
  BY DEF GoodKey, Keys
<1>3. (n - 1) * d + WORD <= Len(k.memory) /\ WORD \in Nat \ {0} /\ Len(k.memory) \in Nat
  <2>1. n > 0
    BY <1>1
  <2> HIDE DEF d, n
  <2>2. (n - 1) * d + WORD <= Len(k.memory)
    BY <1>2, <2>1, HashingAssumption
  <2> QED BY <2>2, Sizes, KeyFacts
<1> HIDE DEF d, n
<1>4. i * d <= (n - 1) * d /\ (i + 1) * d = i * d + d
  BY <1>1, MulMonotone
<1>5. (i + 1) * d <= n * d
  BY <1>1, MulMonotone
<1>6. ((n - 1) + 1) * d = (n - 1) * d + d /\ (n - 1) + 1 = n
  BY <1>1, MulMonotone
<1>7. i * d \in Nat /\ (n - 1) * d \in Nat /\ n * d \in Nat
  BY <1>1, MulMonotone
<1>8. /\ i * d \in Nat /\ i * d + d <= n * d /\ i * d <= (n - 1) * d
      /\ (n - 1) * d \in Nat /\ (n - 1) * d + d = n * d
      /\ i * d + WORD <= Len(k.memory) /\ i * d < Len(k.memory)
  BY <1>3, <1>4, <1>5, <1>6, <1>7
<1> QED BY <1>8 DEF Offset, n, d

LEMMA WordTyped ==
  ASSUME NEW t, NEW k, GoodKey(t, k), NEW at \in Nat, NEW n \in Nat, at + n <= Len(k.memory)
  PROVE  /\ Word(k, at, n) \in Seq(Byte) /\ Len(Word(k, at, n)) = n
         /\ \A j \in 1 .. n : Word(k, at, n)[j] = k.memory[at + j]
<1> DEFINE m == k.memory
           w == SubSeq(m, at + 1, at + n)
<1>1. m \in Seq(Byte) /\ Len(m) \in Nat
  BY KeyFacts
<1> HIDE DEF m
<1>2. \A i \in at + 1 .. at + n : m[i] \in Byte
  BY <1>1, ElementOfSeq DEF m
<1>3. /\ w \in Seq(Byte)
      /\ Len(w) = IF at + 1 <= at + n THEN (at + n) - (at + 1) + 1 ELSE 0
      /\ \A i \in 1 .. (at + n) - (at + 1) + 1 : w[i] = m[(at + 1) + i - 1]
  BY <1>2, SubSeqProperties
<1> HIDE DEF w
<1>4. Len(w) = n
  BY <1>3
<1>5. \A j \in 1 .. n : w[j] = m[at + j]
  <2> SUFFICES ASSUME NEW j \in 1 .. n PROVE w[j] = m[at + j]
    OBVIOUS
  <2>1. j \in 1 .. (at + n) - (at + 1) + 1 /\ (at + 1) + j - 1 = at + j
    OBVIOUS
  <2> QED BY <1>3, <2>1
<1> QED BY <1>3, <1>4, <1>5 DEF Word, w, m

(* A string that starts in the memory ends in it, at its first zero byte.  *)
LEMMA StringLenExact ==
  ASSUME NEW t, NEW k, GoodKey(t, k), NEW at \in Nat, at < Len(k.memory)
  PROVE  /\ StringLen(k, at) \in Nat /\ EndsAfter(k, at, StringLen(k, at))
         /\ \A n \in Nat : EndsAfter(k, at, n) => n = StringLen(k, at)
<1> DEFINE m == k.memory
           T == {n \in Nat : at + n + 1 <= Len(m) /\ m[at + n + 1] = 0}
<1>1. Len(m) \in Nat /\ m[Len(m)] = 0
  BY KeyFacts
<1>2. Len(m) - at - 1 \in T
  <2>1. Len(m) - at - 1 \in Nat /\ at + (Len(m) - at - 1) + 1 = Len(m)
    BY <1>1
  <2> HIDE DEF m
  <2> QED BY <1>1, <2>1
<1>3. PICK n \in T : \A y \in T : n <= y
  <2>1. T \in SUBSET Nat /\ T # {}
    BY <1>2
  <2> HIDE DEF T
  <2> QED BY <2>1, LeastNat
<1>4. EndsAfter(k, at, n)
  <2>1. \A j \in 1 .. n : j - 1 \notin T
    <3>1. n \in Nat
      OBVIOUS
    <3> HIDE DEF T
    <3> QED BY <1>3, <3>1
  <2>2. \A j \in 1 .. n : m[at + j] # 0
    <3> SUFFICES ASSUME NEW j \in 1 .. n PROVE m[at + j] # 0
      OBVIOUS
    <3>1. j - 1 \in Nat /\ at + (j - 1) + 1 = at + j /\ at + j <= Len(m)
      BY <1>1
    <3> HIDE DEF m
    <3> QED BY <2>1, <3>1
  <2> QED BY <2>2 DEF EndsAfter
<1>5. StringLen(k, at) \in Nat /\ EndsAfter(k, at, StringLen(k, at))
  BY <1>4 DEF StringLen
<1>6. ASSUME NEW x \in Nat, NEW y \in Nat, EndsAfter(k, at, x), EndsAfter(k, at, y), x < y
      PROVE  FALSE
  <2>1. x + 1 \in 1 .. y /\ at + (x + 1) = at + x + 1
    BY <1>6
  <2> QED BY <1>6, <2>1 DEF EndsAfter
<1> HIDE DEF T
<1>7. \A y \in Nat : EndsAfter(k, at, y) => y = StringLen(k, at)
  <2> SUFFICES ASSUME NEW y \in Nat, EndsAfter(k, at, y) PROVE y = StringLen(k, at)
    OBVIOUS
  <2>1. ~(y < StringLen(k, at)) /\ ~(StringLen(k, at) < y)
    BY <1>5, <1>6
  <2> QED BY <1>5, <2>1
<1> QED BY <1>5, <1>7

-----------------------------------------------------------------------------
(* The words a key spells.                                                 *)

LEMMA OneByteWord ==
  ASSUME NEW t, NEW k, GoodKey(t, k), NEW i \in 0 .. k.length - 1,
         AsString(t), NEW j \in 0 .. StringLen(k, Offset(k, i))
  PROVE  /\ Word(k, Offset(k, i) + j, 1) \in OneWord(t)
         /\ Word(k, Offset(k, i) + j, 1) \in Seq(Byte)
         /\ Len(Word(k, Offset(k, i) + j, 1)) = 1
         /\ Word(k, Offset(k, i) + j, 1)[1] = k.memory[Offset(k, i) + j + 1]
         /\ Offset(k, i) + j \in Nat
<1> DEFINE at == Offset(k, i)
           len == StringLen(k, at)
<1>1. at \in Nat /\ at < Len(k.memory)
  BY OffsetFacts
<1>2. len \in Nat /\ EndsAfter(k, at, len)
  BY <1>1, StringLenExact
<1>3. at + len + 1 <= Len(k.memory)
  BY <1>2 DEF EndsAfter
<1>4. Len(k.memory) \in Nat
  BY KeyFacts
<1>5. j \in Nat /\ j <= len
  BY <1>2
<1> HIDE DEF at, len
<1>6. at + j \in Nat /\ (at + j) + 1 <= Len(k.memory)
  BY <1>1, <1>2, <1>3, <1>4, <1>5
<1> DEFINE b == at + j
           n == 1
           w == Word(k, b, n)
<1>7. b \in Nat /\ b + n <= Len(k.memory) /\ n \in Nat /\ 1 \in 1 .. n
  BY <1>6
<1>8. Width(t) = n
  BY DEF Width
<1> HIDE DEF b, n
<1>9. w \in Seq(Byte) /\ Len(w) = n /\ \A x \in 1 .. n : w[x] = k.memory[b + x]
  BY <1>7, WordTyped
<1>10. w[1] = k.memory[b + 1]
  BY <1>7, <1>9
<1>11. w \in OneWord(t)
  BY <1>8, <1>9 DEF OneWord
<1> HIDE DEF w
<1>12. w \in OneWord(t) /\ w \in Seq(Byte) /\ Len(w) = n /\ w[1] = k.memory[b + 1] /\ b \in Nat
  BY <1>7, <1>9, <1>10, <1>11
<1> QED BY <1>12 DEF w, b, n, at

LEMMA PrefixEmpty ==
  ASSUME NEW k, NEW i
  PROVE  Prefix(k, i, 0) = <<>>
BY DEF Prefix

LEMMA PrefixTyped ==
  ASSUME NEW t, NEW k, GoodKey(t, k), NEW i \in 0 .. k.length - 1,
         AsString(t), NEW n \in 0 .. StringLen(k, Offset(k, i))
  PROVE  /\ Prefix(k, i, n) \in Seq(OneWord(t))
         /\ Len(Prefix(k, i, n)) = n
         /\ \A j \in 1 .. n :
              Prefix(k, i, n)[j] = Word(k, Offset(k, i) + (j - 1), 1)
<1> DEFINE at == Offset(k, i)
           f == Prefix(k, i, n)
           T == OneWord(t)
<1>1. StringLen(k, at) \in Nat
  BY OffsetFacts, StringLenExact
<1>2. n \in Nat
  BY <1>1
<1>3. \A j \in 1 .. n : Word(k, at + (j - 1), 1) \in T
  <2> SUFFICES ASSUME NEW j \in 1 .. n PROVE Word(k, at + (j - 1), 1) \in T
    OBVIOUS
  <2>1. j - 1 \in 0 .. StringLen(k, at)
    BY <1>1
  <2> QED BY <2>1, OneByteWord
<1> HIDE DEF T
<1>4. f \in [1 .. n -> T]
  BY <1>3 DEF Prefix
<1>5. f \in Seq(T) /\ Len(f) = n
  <2> HIDE DEF f
  <2> QED BY <1>2, <1>4
<1>6. \A j \in 1 .. n : f[j] = Word(k, at + (j - 1), 1)
  BY DEF Prefix
<1> QED BY <1>5, <1>6 DEF T

LEMMA PrefixExtends ==
  ASSUME NEW t, NEW k, GoodKey(t, k), NEW i \in 0 .. k.length - 1,
         AsString(t), NEW n \in 0 .. StringLen(k, Offset(k, i)) - 1
  PROVE  Append(Prefix(k, i, n), Word(k, Offset(k, i) + n, 1)) = Prefix(k, i, n + 1)
<1> DEFINE at == Offset(k, i)
           T == OneWord(t)
           f == Prefix(k, i, n)
           g == Prefix(k, i, n + 1)
           w == Word(k, at + n, 1)
<1>1. StringLen(k, at) \in Nat
  BY OffsetFacts, StringLenExact
<1>2. n \in Nat /\ n \in 0 .. StringLen(k, at) /\ n + 1 \in 0 .. StringLen(k, at)
  BY <1>1
<1>3. f \in Seq(T) /\ Len(f) = n /\ \A j \in 1 .. n : f[j] = Word(k, at + (j - 1), 1)
  BY <1>2, PrefixTyped
<1>4. g \in Seq(T) /\ Len(g) = n + 1 /\ \A j \in 1 .. n + 1 : g[j] = Word(k, at + (j - 1), 1)
  BY <1>2, PrefixTyped
<1>5. w \in T
  BY <1>2, OneByteWord
<1>6. g[n + 1] = w
  BY <1>2, <1>4
<1> HIDE DEF T, f, g, w
<1>7. \A j \in 1 .. n : f[j] = g[j]
  BY <1>2, <1>3, <1>4
<1>8. Append(f, w) \in Seq(T) /\ Len(Append(f, w)) = n + 1
  BY <1>2, <1>3, <1>5
<1>9. \A j \in 1 .. Len(Append(f, w)) : Append(f, w)[j] = g[j]
  BY <1>2, <1>3, <1>5, <1>6, <1>7, <1>8
<1>10. Append(f, w) = g
  BY <1>4, <1>8, <1>9, SeqEqual
<1> QED BY <1>10 DEF f, g, w, at

LEMMA NumberTyped ==
  ASSUME NEW t, NEW k, GoodKey(t, k), NEW i \in 0 .. k.length - 1, ~AsString(t)
  PROVE  /\ Word(k, Offset(k, i), WORD) \in OneWord(t)
         /\ Len(Word(k, Offset(k, i), WORD)) = WORD
         /\ Offset(k, i) + WORD <= Len(k.memory)
<1>1. Offset(k, i) \in Nat /\ Offset(k, i) + WORD <= Len(k.memory) /\ WORD \in Nat
  BY OffsetFacts, Sizes
<1>2. /\ Word(k, Offset(k, i), WORD) \in Seq(Byte)
      /\ Len(Word(k, Offset(k, i), WORD)) = WORD
  BY <1>1, WordTyped
<1> QED BY <1>1, <1>2 DEF OneWord, Width

LEMMA ElementWordsTyped ==
  ASSUME NEW t, NEW k, GoodKey(t, k), NEW i \in 0 .. k.length - 1
  PROVE  ElementWords(t, k, i) \in Seq(OneWord(t))
<1>1. CASE AsString(t)
  <2>1. StringLen(k, Offset(k, i)) \in Nat
    BY OffsetFacts, StringLenExact
  <2>2. StringLen(k, Offset(k, i)) \in 0 .. StringLen(k, Offset(k, i))
    BY <2>1
  <2>3. Prefix(k, i, StringLen(k, Offset(k, i))) \in Seq(OneWord(t))
    BY <1>1, <2>2, PrefixTyped
  <2> QED BY <1>1, <2>3 DEF ElementWords
<1>2. CASE ~AsString(t)
  <2> DEFINE T == OneWord(t)
             w == Word(k, Offset(k, i), WORD)
  <2>1. w \in T
    BY <1>2, NumberTyped
  <2>2. ElementWords(t, k, i) = <<w>>
    BY <1>2 DEF ElementWords
  <2> HIDE DEF T, w
  <2>3. <<w>> \in Seq(T)
    BY <2>1
  <2> QED BY <2>2, <2>3 DEF T
<1> QED BY <1>1, <1>2

LEMMA WordsSpelled ==
  ASSUME NEW t, NEW k, GoodKey(t, k)
  PROVE  Spells(Words(t, k), t, k)
<1> DEFINE n == k.length
           C == Seq(OneWord(t))
           E(i) == ElementWords(t, k, i)
           step == [i \in 0 .. n - 1 |-> [s \in C |-> s \o E(i)]]
<1>1. n \in Nat
  BY KeyFacts
<1>2. \A i \in 0 .. n - 1 : E(i) \in C
  BY ElementWordsTyped
<1> HIDE DEF n
<1>3. \A i \in 0 .. n - 1 : \A s \in C : s \o E(i) \in C
  <2> HIDE DEF E
  <2> QED BY <1>2, ConcatProperties
<1>4. <<>> \in C
  BY EmptySeq
<1> HIDE DEF C, E
<1>5. step \in Steps(n, C)
  BY <1>3 DEF Steps
<1>6. \A i \in 0 .. n - 1 : \A s \in C : step[i][s] = s \o E(i)
  OBVIOUS
<1> HIDE DEF step
<1>7. PICK f : Recursive(f, n, C, <<>>, step)
  BY <1>1, <1>4, <1>5, Recursion
<1>8. /\ f \in [0 .. n -> C] /\ f[0] = <<>>
      /\ \A i \in 1 .. n : f[i] = step[i - 1][f[i - 1]]
  BY <1>7 DEF Recursive
<1>9. \A i \in 1 .. n : f[i] = f[i - 1] \o E(i - 1)
  <2> SUFFICES ASSUME NEW i \in 1 .. n PROVE f[i] = f[i - 1] \o E(i - 1)
    OBVIOUS
  <2>1. i - 1 \in 0 .. n - 1 /\ i - 1 \in 0 .. n
    BY <1>1
  <2>2. f[i - 1] \in C
    BY <2>1, <1>8
  <2> QED BY <1>6, <1>8, <2>1, <2>2
<1>10. Spells(f, t, k)
  BY <1>8, <1>9 DEF Spells, n, C, E
<1> QED BY <1>10 DEF Words

LEMMA WordsFacts ==
  ASSUME NEW t, NEW k, GoodKey(t, k)
  PROVE  /\ Words(t, k)[0] = <<>>
         /\ \A i \in 0 .. k.length : Words(t, k)[i] \in Seq(OneWord(t))
         /\ \A i \in 0 .. k.length - 1 :
              Words(t, k)[i + 1] = Words(t, k)[i] \o ElementWords(t, k, i)
<1>1. Spells(Words(t, k), t, k) /\ k.length \in Nat
  BY WordsSpelled, KeyFacts
<1>2. /\ Words(t, k)[0] = <<>>
      /\ \A i \in 0 .. k.length : Words(t, k)[i] \in Seq(OneWord(t))
      /\ \A i \in 1 .. k.length :
           Words(t, k)[i] = Words(t, k)[i - 1] \o ElementWords(t, k, i - 1)
  BY <1>1 DEF Spells
<1>3. ASSUME NEW i \in 0 .. k.length - 1
      PROVE  Words(t, k)[i + 1] = Words(t, k)[i] \o ElementWords(t, k, i)
  <2>1. i + 1 \in 1 .. k.length /\ (i + 1) - 1 = i
    BY <1>1
  <2> QED BY <1>2, <2>1
<1> QED BY <1>2, <1>3

-----------------------------------------------------------------------------
(* The loops.                                                              *)

LEMMA Kinds == HashedAsString = AsString(key_type)
BY DEF HashedAsString, AsString

LEMMA GoodKeys ==
  ASSUME Inv
  PROVE  \A k \in {1, 2} : GoodKey(key_type, key[k])
BY DEF Inv, GoodKey

LEMMA InitInv == Init => Inv
<1> SUFFICES ASSUME Init PROVE Inv
  OBVIOUS
<1> DEFINE k == key[1]
<1>1. key \in [{1, 2} -> Keys(key_type)]
  BY DEF Init
<1>3. GoodKey(key_type, k)
  BY <1>1 DEF GoodKey
<1>4. k.length \in Nat
  BY <1>3, KeyFacts
<1>5. Words(key_type, k)[0] = <<>>
  BY <1>3, WordsFacts
<1>6. <<>> \o Prefix(k, 0, 0) = <<>>
  BY PrefixEmpty
<1>7. hash[1] = <<>> /\ hash[2] = <<>> /\ hash \in [{1, 2} -> Seq(OneWord(key_type))]
  BY EmptySeq DEF Init
<1>8. turn = 1 /\ element = 0 /\ p = 0 /\ key_type \in KeyType
  BY DEF Init
<1>9. 0 < k.length /\ AsString(key_type) => 0 \in 0 .. StringLen(k, Offset(k, 0))
  <2> SUFFICES ASSUME 0 < k.length PROVE 0 \in 0 .. StringLen(k, Offset(k, 0))
    OBVIOUS
  <2>1. 0 \in 0 .. k.length - 1
    BY <1>4
  <2>2. StringLen(k, Offset(k, 0)) \in Nat
    BY <1>3, <2>1, OffsetFacts, StringLenExact
  <2> QED BY <2>2
<1>10. Absorbed(k)
  <2>1. hash[turn] = Words(key_type, k)[element] \o Prefix(k, element, p)
    BY <1>5, <1>6, <1>7, <1>8
  <2>2. element \in 0 .. k.length
    BY <1>4, <1>8
  <2> QED BY <1>8, <1>9, <2>1, <2>2 DEF Absorbed
<1> QED BY <1>1, <1>7, <1>8, <1>10 DEF Inv

(* The key being hashed.                                                   *)
LEMMA Current ==
  ASSUME Inv, turn # 3
  PROVE  /\ turn \in {1, 2} /\ GoodKey(key_type, key[turn])
         /\ key[turn].length \in Nat
         /\ element \in 0 .. key[turn].length
         /\ Absorbed(key[turn])
         /\ Hashing => element \in 0 .. key[turn].length - 1
         /\ ~Hashing => element = key[turn].length /\ p = 0
         /\ p \in Nat
<1>1. turn \in {1, 2} /\ Absorbed(key[turn])
  BY DEF Inv
<1>2. GoodKey(key_type, key[turn])
  BY <1>1, GoodKeys
<1>3. key[turn].length \in Nat
  BY <1>2, KeyFacts
<1>4. element \in 0 .. key[turn].length
  BY <1>1 DEF Absorbed
<1>5. Hashing = (element < key[turn].length)
  BY <1>1 DEF Hashing
<1>6. element < key[turn].length => element \in 0 .. key[turn].length - 1
  BY <1>3, <1>4
<1>7. ~(element < key[turn].length) => element = key[turn].length
  BY <1>3, <1>4
<1>8. ~Hashing => p = 0
  BY <1>1, <1>5 DEF Absorbed
<1>9. p \in Nat
  <2>1. CASE Hashing /\ AsString(key_type)
    <3>1. p \in 0 .. StringLen(key[turn], Offset(key[turn], element))
      BY <1>1, <1>5, <2>1 DEF Absorbed
    <3>2. StringLen(key[turn], Offset(key[turn], element)) \in Nat
      BY <1>2, <1>5, <1>6, <2>1, OffsetFacts, StringLenExact
    <3> QED BY <3>1, <3>2
  <2>2. CASE ~(Hashing /\ AsString(key_type))
    BY <1>1, <1>5, <2>2 DEF Absorbed
  <2> QED BY <2>1, <2>2
<1> QED BY <1>1, <1>2, <1>3, <1>4, <1>5, <1>6, <1>7, <1>8, <1>9

(* A round of a loop over the key k that leaves it with the words h.       *)
LEMMA Round ==
  ASSUME Inv, turn \in {1, 2}, UNCHANGED <<key_type, key, turn>>,
         NEW k, k = key[turn],
         NEW h \in Seq(OneWord(key_type)), hash' = [hash EXCEPT ![turn] = h],
         element' \in 0 .. k.length,
         IF element' < k.length /\ AsString(key_type)
         THEN p' \in 0 .. StringLen(k, Offset(k, element'))
         ELSE p' = 0,
         h = Words(key_type, k)[element'] \o Prefix(k, element', p')
  PROVE  Inv'
<1>1. hash \in [{1, 2} -> Seq(OneWord(key_type))]
  BY DEF Inv
<1>2. /\ hash' \in [{1, 2} -> Seq(OneWord(key_type))]
      /\ hash'[turn] = h
      /\ \A x \in {1, 2} : x # turn => hash'[x] = hash[x]
  BY <1>1
<1>3. Absorbed(key[turn])'
  <2>1. hash'[turn'] = Words(key_type', key'[turn'])[element'] \o Prefix(key'[turn'], element', p')
    BY <1>2
  <2>2. key'[turn'] = k /\ key_type' = key_type /\ turn' = turn
    OBVIOUS
  <2>3. /\ element' \in 0 .. key'[turn'].length
        /\ IF element' < key'[turn'].length /\ AsString(key_type')
           THEN p' \in 0 .. StringLen(key'[turn'], Offset(key'[turn'], element'))
           ELSE p' = 0
    BY <2>2
  <2> QED BY <2>1, <2>3 DEF Absorbed
<1>4. \A x \in {1, 2} :
        /\ x < turn => hash'[x] = Words(key_type, key[x])[key[x].length]
        /\ x > turn => hash'[x] = <<>>
  <2> SUFFICES ASSUME NEW x \in {1, 2}
               PROVE  /\ x < turn => hash'[x] = Words(key_type, key[x])[key[x].length]
                      /\ x > turn => hash'[x] = <<>>
    OBVIOUS
  <2>1. /\ x < turn => hash[x] = Words(key_type, key[x])[key[x].length]
        /\ x > turn => hash[x] = <<>>
    BY DEF Inv
  <2>2. x < turn \/ x > turn => x # turn
    OBVIOUS
  <2> QED BY <1>2, <2>1, <2>2
<1>5. turn # 3
  OBVIOUS
<1>6. /\ key_type \in KeyType
      /\ key \in [{1, 2} -> Keys(key_type)]
      /\ turn \in 1 .. 3
  BY DEF Inv
<1> QED BY <1>2, <1>3, <1>4, <1>5, <1>6 DEF Inv

LEMMA AbsorbByteInv == Inv /\ AbsorbByte => Inv'
<1> SUFFICES ASSUME Inv, AbsorbByte PROVE Inv'
  OBVIOUS
<1> DEFINE t == key_type
           k == key[turn]
           e == element
           off == Offset(k, e)
           W == Words(t, k)
           w == Word(k, At, 1)
           h == Append(hash[turn], w)
           T == OneWord(t)
<1>1. /\ Hashing /\ AsString(t) /\ k.memory[At + 1] # 0
      /\ p' = p + 1 /\ UNCHANGED <<key_type, key, turn, element>>
      /\ hash' = [hash EXCEPT ![turn] = h]
  BY Kinds DEF AbsorbByte, StringEnds, Absorb
<1>2. turn \in {1, 2}
  BY <1>1 DEF Hashing
<1>3. /\ GoodKey(t, k) /\ k.length \in Nat /\ e \in 0 .. k.length - 1 /\ e \in 0 .. k.length
      /\ e < k.length /\ Absorbed(k)
  BY <1>1, <1>2, Current DEF Hashing
<1>4. off \in Nat /\ StringLen(k, off) \in Nat /\ EndsAfter(k, off, StringLen(k, off))
  BY <1>3, OffsetFacts, StringLenExact
<1>5. p \in 0 .. StringLen(k, off) /\ hash[turn] = W[e] \o Prefix(k, e, p)
  BY <1>1, <1>3 DEF Absorbed
<1>6. At = off + p
  BY DEF At
<1>7. p \in 0 .. StringLen(k, off) - 1 /\ p + 1 \in 0 .. StringLen(k, off)
  <2>1. p # StringLen(k, off)
    BY <1>1, <1>4, <1>6 DEF EndsAfter
  <2> HIDE DEF k, e, off
  <2> QED BY <1>4, <1>5, <2>1
<1>8. Append(Prefix(k, e, p), w) = Prefix(k, e, p + 1)
  BY <1>1, <1>3, <1>6, <1>7, PrefixExtends
<1>9. w \in T /\ Prefix(k, e, p) \in Seq(T)
  BY <1>1, <1>3, <1>5, <1>6, OneByteWord, PrefixTyped
<1>10. W[e] \in Seq(T)
  BY <1>3, WordsFacts
<1>11. h = W[e] \o Prefix(k, e, p + 1) /\ h \in Seq(T)
  <2> DEFINE s == W[e]
             u == Prefix(k, e, p)
  <2>1. s \in Seq(T) /\ u \in Seq(T) /\ w \in T
    BY <1>9, <1>10
  <2> HIDE DEF s, u, w, T
  <2>2. Append(s \o u, w) = s \o Append(u, w)
    BY <2>1
  <2>3. s \o u \in Seq(T)
    BY <2>1, ConcatProperties
  <2>4. Append(s \o u, w) \in Seq(T)
    BY <2>1, <2>3
  <2>5. h = Append(s \o u, w)
    BY <1>5 DEF s, u
  <2>6. Append(u, w) = Prefix(k, e, p + 1)
    BY <1>8 DEF u
  <2> HIDE DEF h
  <2>7. h = s \o Prefix(k, e, p + 1)
    BY <2>2, <2>5, <2>6
  <2> QED BY <2>4, <2>5, <2>7 DEF s
<1>12. element' = e /\ p' \in 0 .. StringLen(k, off) /\ h = W[element'] \o Prefix(k, element', p')
  BY <1>1, <1>7, <1>11
<1> HIDE DEF h, k, W
<1>13. k = key[turn] /\ UNCHANGED <<key_type, key, turn>> /\ p' \in 0 .. StringLen(k, Offset(k, element'))
  BY <1>1, <1>12 DEF k
<1>14. h \in Seq(OneWord(key_type)) /\ h = Words(key_type, k)[element'] \o Prefix(k, element', p')
  BY <1>11, <1>12 DEF W
<1> QED BY <1>1, <1>2, <1>3, <1>12, <1>13, <1>14, Round

(* The words of the elements up to e, once the word of e is absorbed.      *)
LEMMA NextElementInv ==
  ASSUME Inv, Hashing, NextElement,
         hash' = [hash EXCEPT ![turn] =
                    Words(key_type, key[turn])[element]
                      \o ElementWords(key_type, key[turn], element)]
  PROVE  Inv'
<1> DEFINE t == key_type
           k == key[turn]
           e == element
           W == Words(t, k)
           h == W[e] \o ElementWords(t, k, e)
<1>1. /\ turn \in {1, 2} /\ GoodKey(t, k) /\ k.length \in Nat
      /\ e \in 0 .. k.length - 1
  BY Current DEF Hashing
<1>2. /\ element' = e + 1 /\ p' = 0 /\ UNCHANGED <<key_type, key, turn>>
      /\ hash' = [hash EXCEPT ![turn] = h]
  BY DEF NextElement
<1>3. e + 1 \in 0 .. k.length
  BY <1>1
<1>4. h = W[e + 1] /\ h \in Seq(OneWord(t))
  BY <1>1, <1>3, WordsFacts
<1>5. h = W[e + 1] \o Prefix(k, e + 1, 0)
  <2> HIDE DEF h, W
  <2> QED BY <1>4, PrefixEmpty, ConcatEmptySeq
<1>6. AsString(t) /\ e + 1 < k.length => 0 \in 0 .. StringLen(k, Offset(k, e + 1))
  <2> SUFFICES ASSUME e + 1 < k.length PROVE 0 \in 0 .. StringLen(k, Offset(k, e + 1))
    OBVIOUS
  <2>1. e + 1 \in 0 .. k.length - 1
    BY <1>1, <1>3
  <2>2. StringLen(k, Offset(k, e + 1)) \in Nat
    BY <1>1, <2>1, OffsetFacts, StringLenExact
  <2> QED BY <2>2
<1> HIDE DEF h, k, W
<1>7. /\ element' \in 0 .. k.length
      /\ IF element' < k.length /\ AsString(key_type)
         THEN p' \in 0 .. StringLen(k, Offset(k, element'))
         ELSE p' = 0
  BY <1>2, <1>3, <1>6
<1>8. h = Words(key_type, k)[element'] \o Prefix(k, element', p')
  BY <1>2, <1>5 DEF W
<1> QED BY <1>1, <1>2, <1>4, <1>7, <1>8, Round DEF k

LEMMA EndStringInv == Inv /\ EndString => Inv'
<1> SUFFICES ASSUME Inv, EndString PROVE Inv'
  OBVIOUS
<1> DEFINE k == key[turn]
           off == Offset(k, element)
           h == Words(key_type, k)[element] \o ElementWords(key_type, k, element)
<1>1. /\ Hashing /\ AsString(key_type) /\ k.memory[At + 1] = 0
      /\ NextElement /\ hash' = hash
  BY Kinds DEF EndString, StringEnds
<1>2. /\ turn \in {1, 2} /\ GoodKey(key_type, k) /\ element \in 0 .. k.length - 1
      /\ element < k.length /\ Absorbed(k)
  BY <1>1, Current DEF Hashing
<1>3. off \in Nat /\ StringLen(k, off) \in Nat /\ EndsAfter(k, off, StringLen(k, off))
  BY <1>2, OffsetFacts, StringLenExact
<1>4. /\ p \in 0 .. StringLen(k, off)
      /\ hash[turn] = Words(key_type, k)[element] \o Prefix(k, element, p)
  BY <1>1, <1>2 DEF Absorbed
<1>5. p = StringLen(k, off)
  <2>1. At = off + p
    BY DEF At
  <2> HIDE DEF k, off
  <2>2. p < StringLen(k, off) => p + 1 \in 1 .. StringLen(k, off) /\ off + (p + 1) = off + p + 1
    BY <1>3, <1>4
  <2>3. ~(p < StringLen(k, off))
    BY <1>1, <1>3, <2>1, <2>2 DEF EndsAfter
  <2> QED BY <1>3, <1>4, <2>3
<1>6. hash[turn] = h
  BY <1>1, <1>4, <1>5 DEF ElementWords
<1>7. hash' = [hash EXCEPT ![turn] = h]
  <2>1. hash \in [{1, 2} -> Seq(OneWord(key_type))]
    BY DEF Inv
  <2> HIDE DEF h
  <2> QED BY <1>1, <1>2, <1>6, <2>1
<1> QED BY <1>1, <1>7, NextElementInv

LEMMA AbsorbNumberInv == Inv /\ AbsorbNumber => Inv'
<1> SUFFICES ASSUME Inv, AbsorbNumber PROVE Inv'
  OBVIOUS
<1> DEFINE k == key[turn]
           W == Words(key_type, k)
           w == Word(k, Offset(k, element), WORD)
           T == OneWord(key_type)
<1>1. /\ Hashing /\ ~AsString(key_type) /\ NextElement
      /\ hash' = [hash EXCEPT ![turn] = Append(@, Word(k, At, WORD))]
  BY Kinds DEF AbsorbNumber, Absorb, Number
<1>2. /\ turn \in {1, 2} /\ GoodKey(key_type, k) /\ element \in 0 .. k.length - 1
      /\ element \in 0 .. k.length /\ Absorbed(k)
  BY <1>1, Current DEF Hashing
<1>3. p = 0 /\ hash[turn] = W[element] \o Prefix(k, element, 0)
  BY <1>1, <1>2 DEF Absorbed
<1>4. W[element] \in Seq(T) /\ w \in T
  BY <1>1, <1>2, WordsFacts, NumberTyped
<1>5. At = Offset(k, element)
  <2>1. Offset(k, element) \in Nat
    BY <1>2, OffsetFacts
  <2> HIDE DEF k
  <2> QED BY <1>3, <2>1 DEF At, k
<1>6. hash[turn] = W[element]
  <2> HIDE DEF W, T
  <2> QED BY <1>3, <1>4, PrefixEmpty, ConcatEmptySeq
<1>7. ElementWords(key_type, k, element) = <<w>>
  BY <1>1 DEF ElementWords
<1>8. Append(W[element], w) = W[element] \o <<w>>
  <2> HIDE DEF W, T, w
  <2> QED BY <1>4
<1>9. hash' = [hash EXCEPT ![turn] = W[element] \o ElementWords(key_type, k, element)]
  BY <1>1, <1>5, <1>6, <1>7, <1>8
<1> QED BY <1>1, <1>9, NextElementInv

LEMMA ReturnInv == Inv /\ Return => Inv'
<1> SUFFICES ASSUME Inv, Return PROVE Inv'
  OBVIOUS
<1> DEFINE t == key_type
           k == key[turn]
<1>1. /\ turn \in {1, 2} /\ ~Hashing /\ turn' = turn + 1 /\ element' = 0
      /\ UNCHANGED <<key_type, key, p, hash>>
  BY DEF Return
<1>2. /\ GoodKey(t, k) /\ k.length \in Nat /\ element = k.length /\ p = 0 /\ Absorbed(k)
  BY <1>1, Current
<1>3. hash[turn] = Words(t, k)[k.length]
  <2>1. hash[turn] = Words(t, k)[k.length] \o <<>>
    BY <1>2, PrefixEmpty DEF Absorbed
  <2>2. Words(t, k)[k.length] \in Seq(OneWord(t))
    BY <1>2, WordsFacts
  <2> QED BY <2>1, <2>2, ConcatEmptySeq
<1>4. turn' \in 1 .. 3 /\ p' = 0
  BY <1>1, <1>2
<1>5. \A x \in {1, 2} :
        /\ x < turn' => hash[x] = Words(t, key[x])[key[x].length]
        /\ x > turn' => hash[x] = <<>>
  <2> SUFFICES ASSUME NEW x \in {1, 2}
               PROVE  /\ x < turn' => hash[x] = Words(t, key[x])[key[x].length]
                      /\ x > turn' => hash[x] = <<>>
    OBVIOUS
  <2>1. /\ x < turn => hash[x] = Words(t, key[x])[key[x].length]
        /\ x > turn => hash[x] = <<>>
    BY DEF Inv
  <2>2. x < turn' => x < turn \/ x = turn
    BY <1>1
  <2>3. x > turn' => x > turn
    BY <1>1
  <2> QED BY <1>3, <2>1, <2>2, <2>3
<1>6. turn' # 3 => Absorbed(key[turn])'
  <2> SUFFICES ASSUME turn' # 3 PROVE Absorbed(key[turn])'
    OBVIOUS
  <2> DEFINE n == key[2]
  <2>1. turn' = 2 /\ turn = 1
    BY <1>1
  <2>2. GoodKey(t, n)
    BY GoodKeys
  <2>3. n.length \in Nat /\ Words(t, n)[0] = <<>>
    BY <2>2, KeyFacts, WordsFacts
  <2>4. hash[2] = <<>>
    BY <2>1 DEF Inv
  <2>5. hash[2] = Words(t, n)[0] \o Prefix(n, 0, 0)
    BY <2>3, <2>4, PrefixEmpty
  <2>6. 0 < n.length => 0 \in 0 .. StringLen(n, Offset(n, 0))
    <3> SUFFICES ASSUME 0 < n.length PROVE 0 \in 0 .. StringLen(n, Offset(n, 0))
      OBVIOUS
    <3>1. 0 \in 0 .. n.length - 1
      BY <2>3
    <3>2. StringLen(n, Offset(n, 0)) \in Nat
      BY <2>2, <3>1, OffsetFacts, StringLenExact
    <3> QED BY <3>2
  <2>7. key'[turn'] = n /\ element' = 0 /\ p' = 0 /\ hash'[turn'] = hash[2] /\ key_type' = t
    BY <1>1, <1>2, <2>1
  <2>8. element' \in 0 .. n.length
    BY <2>3, <2>7
  <2> HIDE DEF n
  <2> QED BY <2>5, <2>6, <2>7, <2>8 DEF Absorbed
<1>7. /\ key_type \in KeyType
      /\ key \in [{1, 2} -> Keys(key_type)]
      /\ hash \in [{1, 2} -> Seq(OneWord(t))]
  BY DEF Inv
<1> QED BY <1>1, <1>4, <1>5, <1>6, <1>7 DEF Inv

LEMMA StutterInv == Inv /\ UNCHANGED vars => Inv'
BY DEF Inv, Absorbed, vars

LEMMA NextInv == Inv /\ [Next]_vars => Inv'
BY AbsorbByteInv, EndStringInv, AbsorbNumberInv, ReturnInv, StutterInv DEF Next

THEOREM InductiveInvariant == Spec => []Inv
BY InitInv, NextInv, PTL DEF Spec

-----------------------------------------------------------------------------
(* The properties.                                                         *)

(* Hashing.TypeOK: a byte string adds words of one byte, a number one word *)
(* of its full width, and the loops stay within the elements.              *)
THEOREM TypeCorrect == Spec => []TypeOK
<1>1. Inv => TypeOK
  <2> SUFFICES ASSUME Inv PROVE TypeOK
    OBVIOUS
  <2>1. turn \in 1 .. 3
    BY DEF Inv
  <2>2. turn # 3 => element \in 0 .. key[turn].length
    BY Current
  <2>3. p \in Nat
    BY Current DEF Inv
  <2>4. ASSUME NEW k \in {1, 2}, NEW n \in DOMAIN hash[k]
        PROVE  Len(hash[k][n]) = Width(key_type)
    <3>1. hash[k] \in Seq(OneWord(key_type))
      BY DEF Inv
    <3> DEFINE T == OneWord(key_type)
               s == hash[k]
    <3> HIDE DEF T, s
    <3>2. s \in Seq(T) /\ n \in DOMAIN s
      BY <3>1, <2>4 DEF T, s
    <3>3. s[n] \in T
      BY <3>2
    <3> QED BY <3>3 DEF T, s, OneWord
  <2> QED BY <2>1, <2>2, <2>3, <2>4, Kinds DEF TypeOK, Width
<1> QED BY <1>1, InductiveInvariant, PTL

LEMMA ReadsOwn == Inv => ReadsOwnBytes
<1> SUFFICES ASSUME Inv, turn \in {1, 2}, Hashing,
                    IF HashedAsString THEN Terminated(key[turn]) ELSE key[turn].data_size >= WORD
             PROVE  At + Width(key_type) <= key[turn].length * key[turn].data_size
  BY Kinds DEF ReadsOwnBytes, Width
<1> DEFINE k == key[turn]
           off == Offset(k, element)
           last == Offset(k, k.length - 1)
           d == k.data_size
           end == k.length * k.data_size
<1>1. /\ GoodKey(key_type, k) /\ element \in 0 .. k.length - 1 /\ element < k.length
      /\ k.length \in Nat /\ Absorbed(k) /\ p \in Nat
  BY Current DEF Hashing
<1>2. /\ off \in Nat /\ last \in Nat /\ d \in Nat /\ off + d <= end
      /\ off <= last /\ last + d = end /\ off < Len(k.memory)
  BY <1>1, OffsetFacts, KeyFacts
<1>3. At = off + p
  BY DEF At
<1>4. CASE AsString(key_type)
  <2> DEFINE len == StringLen(k, off)
  <2>1. len \in Nat /\ EndsAfter(k, off, len)
    BY <1>1, <1>2, StringLenExact
  <2>2. p <= len
    BY <1>1, <1>4, <2>1 DEF Absorbed
  <2>3. PICK z \in 1 .. d : k.memory[last + z] = 0
    <3>1. k.length > 0
      BY <1>1
    <3> QED BY <1>4, <3>1, Kinds DEF Terminated
  <2> DEFINE j == last + z - off
  <2>4. j \in Nat \ {0} /\ off + j = last + z /\ last + z <= end
    BY <1>2
  <2>5. ~(j <= len)
    BY <2>1, <2>3, <2>4 DEF EndsAfter
  <2>6. Width(key_type) = 1
    BY <1>4 DEF Width
  <2> HIDE DEF k, off, last, d, end, len, j
  <2>7. off + p + 1 <= off + j
    BY <1>1, <1>2, <2>1, <2>2, <2>4, <2>5
  <2>8. off + p + 1 <= end
    BY <1>1, <1>2, <2>4, <2>7
  <2> QED BY <1>3, <2>6, <2>8 DEF k, end
<1>5. CASE ~AsString(key_type)
  <2>1. p = 0
    BY <1>1, <1>5 DEF Absorbed
  <2>2. d >= WORD /\ WORD \in Nat
    BY <1>5, Kinds, Sizes
  <2>3. Width(key_type) = WORD
    BY <1>5 DEF Width
  <2> HIDE DEF k, off, last, d, end
  <2>4. At + WORD <= end
    BY <1>2, <1>3, <2>1, <2>2
  <2> QED BY <2>3, <2>4 DEF end, k
<1> QED BY <1>4, <1>5

(* Hashing.ReadsOwnBytes: no byte behind the key takes part in its hash,   *)
(* given that strings end in their element and numbers are full words.     *)
THEOREM OwnBytes == Spec => []ReadsOwnBytes
BY ReadsOwn, InductiveInvariant, PTL

(* Words of one byte are equal when the byte is.                           *)
LEMMA SameByte ==
  ASSUME NEW t, NEW k1, GoodKey(t, k1), NEW k2, GoodKey(t, k2), AsString(t),
         NEW i \in 0 .. k1.length - 1, i \in 0 .. k2.length - 1,
         NEW n, n \in 0 .. StringLen(k1, Offset(k1, i)),
         n \in 0 .. StringLen(k2, Offset(k2, i))
  PROVE  (Word(k1, Offset(k1, i) + n, 1) = Word(k2, Offset(k2, i) + n, 1))
           <=> (k1.memory[Offset(k1, i) + n + 1] = k2.memory[Offset(k2, i) + n + 1])
<1> DEFINE o == Offset(k1, i)
           u == Offset(k2, i)
           w1 == Word(k1, o + n, 1)
           w2 == Word(k2, u + n, 1)
<1>1. w1 \in Seq(Byte) /\ Len(w1) = 1 /\ w1[1] = k1.memory[o + n + 1]
  BY OneByteWord
<1>2. w2 \in Seq(Byte) /\ Len(w2) = 1 /\ w2[1] = k2.memory[u + n + 1]
  BY OneByteWord
<1> HIDE DEF w1, w2
<1>3. (w1 = w2) <=> (w1[1] = w2[1])
  <2> SUFFICES ASSUME w1[1] = w2[1] PROVE w1 = w2
    OBVIOUS
  <2>1. ASSUME NEW j \in 1 .. Len(w1) PROVE w1[j] = w2[j]
    <3>1. j = 1
      BY <1>1
    <3> QED BY <3>1
  <2>2. Len(w1) = Len(w2)
    BY <1>1, <1>2
  <2> QED BY <1>1, <1>2, <2>1, <2>2, SeqEqual
<1>4. (w1 = w2) <=> (k1.memory[o + n + 1] = k2.memory[u + n + 1])
  BY <1>1, <1>2, <1>3
<1> QED BY <1>4 DEF w1, w2

(* Strings that agree up to a zero byte are hashed alike.                  *)
LEMMA SameString ==
  ASSUME NEW t, NEW k1, GoodKey(t, k1), NEW k2, GoodKey(t, k2), AsString(t),
         NEW i \in 0 .. k1.length - 1, i \in 0 .. k2.length - 1,
         NEW z \in Nat \ {0}, k1.memory[Offset(k1, i) + z] = 0,
         Offset(k2, i) + z <= Len(k2.memory),
         \A x \in 1 .. z : k1.memory[Offset(k1, i) + x] = k2.memory[Offset(k2, i) + x]
  PROVE  ElementWords(t, k1, i) = ElementWords(t, k2, i)
<1> DEFINE o == Offset(k1, i)
           u == Offset(k2, i)
           m1 == k1.memory
           m2 == k2.memory
           len == StringLen(k1, o)
<1>1. o \in Nat /\ u \in Nat /\ o < Len(m1) /\ u < Len(m2)
  BY OffsetFacts
<1>2. Len(m2) \in Nat
  BY KeyFacts
<1>3. len \in Nat /\ EndsAfter(k1, o, len)
  BY <1>1, StringLenExact
<1>4. len + 1 <= z
  <2>1. m1[o + len + 1] = 0 /\ \A j \in 1 .. len : m1[o + j] # 0
    BY <1>3 DEF EndsAfter
  <2>2. ~(z \in 1 .. len)
    BY <2>1
  <2> HIDE DEF len
  <2> QED BY <1>3, <2>2
<1>5. EndsAfter(k2, u, len)
  <2>1. m1[o + len + 1] = 0 /\ \A j \in 1 .. len : m1[o + j] # 0
    BY <1>3 DEF EndsAfter
  <2>2. \A x \in 1 .. z : m1[o + x] = m2[u + x]
    OBVIOUS
  <2>3. u + z <= Len(m2)
    OBVIOUS
  <2> HIDE DEF len, o, u, m1, m2
  <2>4. /\ len + 1 \in 1 .. z /\ o + (len + 1) = o + len + 1
        /\ u + (len + 1) = u + len + 1 /\ u + len + 1 <= Len(m2)
    BY <1>1, <1>2, <1>3, <1>4, <2>3
  <2>5. m2[u + len + 1] = 0
    BY <2>1, <2>2, <2>4
  <2>6. \A j \in 1 .. len : j \in 1 .. z
    BY <1>3, <1>4
  <2>7. \A j \in 1 .. len : m2[u + j] # 0
    BY <2>1, <2>2, <2>6
  <2> QED BY <2>4, <2>5, <2>7 DEF EndsAfter, m2
<1>6. StringLen(k2, u) = len
  BY <1>1, <1>3, <1>5, StringLenExact
<1> DEFINE f == Prefix(k1, i, len)
           g == Prefix(k2, i, len)
<1>7. \A j \in 1 .. len : Word(k1, o + (j - 1), 1) = Word(k2, u + (j - 1), 1)
  <2> SUFFICES ASSUME NEW j \in 1 .. len
               PROVE  Word(k1, o + (j - 1), 1) = Word(k2, u + (j - 1), 1)
    OBVIOUS
  <2> DEFINE y == j - 1
  <2>1. m1[o + j] = m2[u + j]
    BY <1>3, <1>4
  <2>2. y \in 0 .. len /\ o + y + 1 = o + j /\ u + y + 1 = u + j
    BY <1>1, <1>3
  <2> HIDE DEF y
  <2>3. y \in 0 .. StringLen(k1, Offset(k1, i)) /\ y \in 0 .. StringLen(k2, Offset(k2, i))
    BY <1>6, <2>2
  <2>4. k1.memory[o + y + 1] = k2.memory[u + y + 1]
    BY <2>1, <2>2
  <2>5. (Word(k1, o + y, 1) = Word(k2, u + y, 1))
           <=> (k1.memory[o + y + 1] = k2.memory[u + y + 1])
    BY <2>3, SameByte
  <2>6. Word(k1, o + y, 1) = Word(k2, u + y, 1)
    BY <2>4, <2>5
  <2> QED BY <2>6 DEF y
<1>8. f = g
  BY <1>7 DEF Prefix
<1> QED BY <1>6, <1>8 DEF ElementWords

LEMMA SameWords ==
  ASSUME NEW t, NEW k1, GoodKey(t, k1), NEW k2, GoodKey(t, k2),
         k1.length = k2.length,
         \A i \in 0 .. k1.length - 1 : ElementWords(t, k1, i) = ElementWords(t, k2, i)
  PROVE  Words(t, k1)[k1.length] = Words(t, k2)[k2.length]
<1> DEFINE n == k1.length
           W1 == Words(t, k1)
           W2 == Words(t, k2)
           S == {i \in 0 .. n : W1[i] = W2[i]}
<1>1. n \in Nat
  BY KeyFacts
<1>2. /\ W1[0] = <<>> /\ W2[0] = <<>>
      /\ \A i \in 0 .. n - 1 : W1[i + 1] = W1[i] \o ElementWords(t, k1, i)
      /\ \A i \in 0 .. n - 1 : W2[i + 1] = W2[i] \o ElementWords(t, k1, i)
  BY WordsFacts
<1> HIDE DEF n, W1, W2
<1>3. 0 \in S
  BY <1>1, <1>2
<1>4. ASSUME NEW i \in 1 .. n, i - 1 \in S PROVE i \in S
  <2>1. i - 1 \in 0 .. n - 1 /\ (i - 1) + 1 = i /\ i \in 0 .. n
    BY <1>1
  <2>2. W1[i - 1] = W2[i - 1]
    BY <1>4
  <2>3. W1[i] = W2[i]
    BY <1>2, <2>1, <2>2
  <2> QED BY <2>1, <2>3
<1> HIDE DEF S
<1>5. \A i \in 0 .. n : i \in S
  BY <1>1, <1>3, <1>4, UpTo
<1>6. n \in 0 .. n
  BY <1>1
<1>7. W1[n] = W2[n]
  BY <1>5, <1>6 DEF S
<1> QED BY <1>7 DEF n, W1, W2

LEMMA Finished ==
  ASSUME Inv, turn = 3
  PROVE  /\ GoodKey(key_type, key[1]) /\ GoodKey(key_type, key[2])
         /\ key_type \in KeyType
         /\ hash[1] = Words(key_type, key[1])[key[1].length]
         /\ hash[2] = Words(key_type, key[2])[key[2].length]
<1>3. hash[1] = Words(key_type, key[1])[key[1].length]
  BY DEF Inv
<1>4. hash[2] = Words(key_type, key[2])[key[2].length]
  BY DEF Inv
<1>5. key_type \in KeyType
  BY DEF Inv
<1> QED BY <1>3, <1>4, <1>5, GoodKeys

Agree(k1, at1, k2, at2, n) ==
  \A j \in 1 .. n : k1.memory[at1 + j] = k2.memory[at2 + j]

Spelled(w, k, at, n) ==
  /\ w \in Seq(Byte) /\ Len(w) = n
  /\ \A j \in 1 .. n : w[j] = k.memory[at + j]

LEMMA WordSpelled ==
  ASSUME NEW t, NEW k, GoodKey(t, k), NEW at \in Nat, NEW n \in Nat, at + n <= Len(k.memory)
  PROVE  Spelled(Word(k, at, n), k, at, n)
<1> DEFINE w == Word(k, at, n)
<1>1. w \in Seq(Byte)
  BY WordTyped
<1>2. Len(w) = n
  BY WordTyped
<1>3. \A j \in 1 .. n : w[j] = k.memory[at + j]
  BY WordTyped
<1> QED BY <1>1, <1>2, <1>3 DEF Spelled

LEMMA SameWordBytes ==
  ASSUME NEW t, NEW k1, GoodKey(t, k1), NEW k2, GoodKey(t, k2),
         NEW at1 \in Nat, NEW at2 \in Nat, NEW n \in Nat,
         at1 + n <= Len(k1.memory), at2 + n <= Len(k2.memory)
  PROVE  (Word(k1, at1, n) = Word(k2, at2, n)) <=> Agree(k1, at1, k2, at2, n)
<1> DEFINE w1 == Word(k1, at1, n)
           w2 == Word(k2, at2, n)
<1>5. Spelled(w1, k1, at1, n) /\ Spelled(w2, k2, at2, n)
  BY WordSpelled
<1> HIDE DEF w1, w2
<1>1. w1 \in Seq(Byte) /\ Len(w1) = n /\ \A j \in 1 .. n : w1[j] = k1.memory[at1 + j]
  BY <1>5 DEF Spelled
<1>2. w2 \in Seq(Byte) /\ Len(w2) = n /\ \A j \in 1 .. n : w2[j] = k2.memory[at2 + j]
  BY <1>5 DEF Spelled
<1>3. ASSUME \A j \in 1 .. n : k1.memory[at1 + j] = k2.memory[at2 + j]
      PROVE  w1 = w2
  <2>1. \A j \in 1 .. n : w1[j] = w2[j]
    BY <1>1, <1>2, <1>3
  <2> QED BY <1>1, <1>2, <2>1, SeqEqual
<1>4. ASSUME w1 = w2, NEW j \in 1 .. n PROVE k1.memory[at1 + j] = k2.memory[at2 + j]
  BY <1>1, <1>2, <1>4
<1> QED BY <1>3, <1>4 DEF w1, w2, Agree

(* strcmp finds no difference in the element.                              *)
LEMMA StrCompWords ==
  ASSUME NEW t, NEW k1, GoodKey(t, k1), NEW k2, GoodKey(t, k2), AsString(t),
         NEW i \in 0 .. k1.length - 1, i \in 0 .. k2.length - 1,
         StrComp(k1, Offset(k1, i), k2, Offset(k2, i))
  PROVE  ElementWords(t, k1, i) = ElementWords(t, k2, i)
<1> DEFINE o == Offset(k1, i)
           u == Offset(k2, i)
<1>1. o \in Nat /\ u \in Nat /\ o < Len(k1.memory) /\ u < Len(k2.memory)
  BY OffsetFacts
<1>2. Len(k1.memory) \in Nat /\ Len(k2.memory) \in Nat
  BY KeyFacts
<1>3. PICK n \in 1 .. Len(k1.memory) - o :
        /\ u + n <= Len(k2.memory)
        /\ k1.memory[o + n] = 0
        /\ Word(k1, o, n) = Word(k2, u, n)
  BY DEF StrComp
<1>4. n \in Nat \ {0} /\ n \in Nat /\ o + n <= Len(k1.memory)
  BY <1>1, <1>2
<1> HIDE DEF o, u
<1>5. Agree(k1, o, k2, u, n)
  BY <1>1, <1>3, <1>4, SameWordBytes
<1>6. \A j \in 1 .. n : k1.memory[o + j] = k2.memory[u + j]
  BY <1>5 DEF Agree
<1>7. /\ k1.memory[Offset(k1, i) + n] = 0
      /\ Offset(k2, i) + n <= Len(k2.memory)
      /\ \A j \in 1 .. n : k1.memory[Offset(k1, i) + j] = k2.memory[Offset(k2, i) + j]
  BY <1>3, <1>6 DEF o, u
<1> QED BY <1>4, <1>7, SameString

(* Tuples that agree in the first d bytes of every element agree up to     *)
(* their end.                                                              *)
LEMMA SameBytes ==
  ASSUME NEW t, NEW k1, GoodKey(t, k1), NEW k2, GoodKey(t, k2),
         k1.length = k2.length, k1.data_size = k2.data_size, k1.data_size <= WORD,
         \A i \in 0 .. k1.length - 1 : NumComp(k1, Offset(k1, i), k2, Offset(k2, i))
  PROVE  \A x \in 1 .. k1.length * k1.data_size : k1.memory[x] = k2.memory[x]
<1> DEFINE n == k1.length
           d == k1.data_size
           m1 == k1.memory
           m2 == k2.memory
           S == {j \in 0 .. n : \A x \in 1 .. j * d : m1[x] = m2[x]}
<1>1. n \in Nat /\ d \in Nat \ {0} /\ WORD \in Nat /\ d <= WORD
  BY KeyFacts, Sizes
<1>2. ASSUME NEW i \in 0 .. n - 1, NEW y \in 1 .. d
      PROVE  m1[i * d + y] = m2[i * d + y]
  <2> DEFINE o == Offset(k1, i)
  <2>1. /\ o \in Nat /\ o + WORD <= Len(k1.memory) /\ o + WORD <= Len(k2.memory)
        /\ Offset(k2, i) = o
    BY OffsetFacts DEF Offset
  <2>2. Word(k1, o, WORD) = Word(k2, o, WORD)
    BY <2>1 DEF NumComp
  <2>3. y \in 1 .. WORD
    BY <1>1
  <2> HIDE DEF o
  <2>4. Agree(k1, o, k2, o, WORD)
    BY <1>1, <2>1, <2>2, SameWordBytes
  <2>5. m1[o + y] = m2[o + y]
    BY <2>3, <2>4 DEF Agree
  <2> USE DEF o
  <2>6. o = i * d
    BY DEF Offset
  <2> HIDE DEF o
  <2> QED BY <2>5, <2>6
<1> HIDE DEF n, d, m1, m2
<1>3. 0 \in S
  <2>1. 0 * d = 0
    BY <1>1
  <2>2. 1 .. 0 * d = {}
    BY <2>1
  <2> QED BY <1>1, <2>2
<1>4. ASSUME NEW j \in 1 .. n, j - 1 \in S PROVE j \in S
  <2> DEFINE a == (j - 1) * d
             b == j * d
  <2>1. j - 1 \in Nat /\ (j - 1) + 1 = j /\ j - 1 \in 0 .. n - 1
    BY <1>1
  <2>2. a \in Nat /\ b = a + d
    <3>1. (j - 1) * d \in Nat /\ ((j - 1) + 1) * d = (j - 1) * d + d
      BY <1>1, <2>1, MulMonotone
    <3> QED BY <2>1, <3>1
  <2>3. \A x \in 1 .. a : m1[x] = m2[x]
    BY <1>4
  <2>4. \A y \in 1 .. d : m1[a + y] = m2[a + y]
    BY <1>2, <2>1
  <2> HIDE DEF a, b
  <2>5. ASSUME NEW x \in 1 .. b PROVE m1[x] = m2[x]
    <3>1. CASE x <= a
      BY <2>2, <2>3, <3>1
    <3>2. CASE ~(x <= a)
      <4>1. x - a \in 1 .. d /\ a + (x - a) = x
        BY <1>1, <2>2, <3>2
      <4> QED BY <2>4, <4>1
    <3> QED BY <3>1, <3>2
  <2> QED BY <2>5 DEF b
<1> HIDE DEF S
<1>5. \A j \in 0 .. n : j \in S
  BY <1>1, <1>3, <1>4, UpTo
<1>6. n \in 0 .. n
  BY <1>1
<1>7. \A x \in 1 .. n * d : m1[x] = m2[x]
  BY <1>5, <1>6 DEF S
<1> QED BY <1>7 DEF n, d, m1, m2

LEMMA EqualKeys == Inv => EqualKeysHashEqual
<1> SUFFICES ASSUME Inv, turn = 3, KeyComp(key[1], key[2]),
                    key_type = "UINT_TUPLE_KEY" =>
                      \/ NumbersEnd(key[1])
                      \/ /\ Terminated(key[1])
                         /\ key[1].data_size <= WORD
                         /\ key[2].data_size = key[1].data_size
             PROVE  hash[1] = hash[2]
  BY DEF EqualKeysHashEqual
<1> DEFINE t == key_type
           k1 == key[1]
           k2 == key[2]
           n == k1.length
           d == k1.data_size
<1>1. /\ GoodKey(t, k1) /\ GoodKey(t, k2) /\ t \in KeyType
      /\ hash[1] = Words(t, k1)[k1.length] /\ hash[2] = Words(t, k2)[k2.length]
  BY Finished
<1>2. k2.length = n /\ \A i \in 0 .. n - 1 : ElementComp(k1, k2, i)
  BY DEF KeyComp
<1>3. n \in Nat /\ d \in Nat
  BY <1>1, KeyFacts
<1>4. ASSUME NEW i \in 0 .. n - 1
      PROVE  ElementWords(t, k1, i) = ElementWords(t, k2, i)
  <2> DEFINE o == Offset(k1, i)
             u == Offset(k2, i)
  <2>1. ElementComp(k1, k2, i) /\ i \in 0 .. k2.length - 1
    BY <1>2
  <2>2. CASE t \in {"STR_KEY", "STR_TUPLE_KEY"}
    <3>1. StrComp(k1, Offset(k1, i), k2, Offset(k2, i)) /\ AsString(t)
      BY <2>1, <2>2 DEF ElementComp, AsString
    <3> QED BY <1>1, <2>1, <3>1, StrCompWords
  <2>3. CASE ~AsString(t)
    <3>1. Word(k1, o, WORD) = Word(k2, u, WORD)
      BY <2>1, <2>3 DEF ElementComp, NumComp, AsString
    <3> QED BY <2>1, <2>3, <3>1 DEF ElementWords
  <2>4. CASE t = "UINT_TUPLE_KEY" /\ NumbersEnd(k1)
    <3>1. AsString(t)
      BY <2>4 DEF AsString
    <3>2. NumComp(k1, o, k2, u)
      BY <2>1, <2>4 DEF ElementComp
    <3>3. PICK z \in 1 .. WORD : k1.memory[o + z] = 0
      BY <2>4 DEF NumbersEnd
    <3>4. i \in 0 .. k1.length - 1
      OBVIOUS
    <3>5. /\ o \in Nat /\ u \in Nat
          /\ o + WORD <= Len(k1.memory) /\ u + WORD <= Len(k2.memory)
      <4> HIDE DEF k1, k2
      <4> QED BY <1>1, <2>1, <3>4, OffsetFacts
    <3>6. Word(k1, o, WORD) = Word(k2, u, WORD)
      BY <3>2 DEF NumComp
    <3>7. Len(k1.memory) \in Nat /\ Len(k2.memory) \in Nat
      BY <1>1, KeyFacts
    <3> HIDE DEF k1, k2, o, u, n, d
    <3>8. Agree(k1, o, k2, u, WORD)
      BY <1>1, <3>5, <3>6, Sizes, SameWordBytes
    <3>9. z \in Nat \ {0} /\ u + z <= Len(k2.memory) /\ \A x \in 1 .. z : x \in 1 .. WORD
      BY <3>5, <3>7, Sizes
    <3>10. \A x \in 1 .. z : k1.memory[o + x] = k2.memory[u + x]
      BY <3>8, <3>9 DEF Agree
    <3>11. /\ k1.memory[Offset(k1, i) + z] = 0
           /\ Offset(k2, i) + z <= Len(k2.memory)
           /\ \A x \in 1 .. z :
                k1.memory[Offset(k1, i) + x] = k2.memory[Offset(k2, i) + x]
      BY <3>3, <3>9, <3>10 DEF o, u
    <3> QED BY <1>1, <2>1, <3>1, <3>4, <3>9, <3>11, SameString
  <2>5. CASE /\ t = "UINT_TUPLE_KEY" /\ Terminated(k1)
             /\ d <= WORD /\ k2.data_size = d
    <3> DEFINE end == n * d
               last == Offset(k1, n - 1)
    <3>1. AsString(t)
      BY <2>5 DEF AsString
    <3>2. Offset(k2, i) = o /\ \A j \in 0 .. n - 1 : NumComp(k1, Offset(k1, j), k2, Offset(k2, j))
      BY <1>2, <2>5 DEF ElementComp, Offset
    <3>3. \A x \in 1 .. end : k1.memory[x] = k2.memory[x]
      BY <1>1, <1>2, <2>5, <3>2, SameBytes
    <3>4. PICK z \in 1 .. d : k1.memory[last + z] = 0
      BY <1>3, <2>5 DEF Terminated
    <3>5. o \in Nat /\ last \in Nat /\ o <= last /\ last + d = end
      <4>1. i \in 0 .. k1.length - 1
        OBVIOUS
      <4> HIDE DEF k1
      <4> QED BY <1>1, <4>1, OffsetFacts
    <3>6. end <= Len(k2.memory) /\ Len(k2.memory) \in Nat
      BY <1>1, <1>2, <2>5, KeyFacts
    <3> DEFINE y == last + z - o
    <3> HIDE DEF k1, k2, n, d, o, end, last
    <3>7. y \in Nat \ {0} /\ o + y = last + z /\ o + y <= end /\ o + y <= Len(k2.memory)
      BY <1>3, <3>5, <3>6
    <3> HIDE DEF y
    <3>8. \A x \in 1 .. y : o + x \in 1 .. end
      BY <1>3, <3>5, <3>6, <3>7
    <3>9. \A x \in 1 .. y : k1.memory[o + x] = k2.memory[o + x]
      BY <3>3, <3>8
    <3>10. k1.memory[o + y] = 0
      BY <3>4, <3>7
    <3>11. i \in 0 .. k1.length - 1
      BY DEF n
    <3>12. /\ k1.memory[Offset(k1, i) + y] = 0
           /\ Offset(k2, i) + y <= Len(k2.memory)
           /\ \A x \in 1 .. y : k1.memory[Offset(k1, i) + x] = k2.memory[Offset(k2, i) + x]
      BY <3>2, <3>7, <3>9, <3>10 DEF o
    <3> QED BY <1>1, <2>1, <3>1, <3>7, <3>11, <3>12, SameString
  <2> QED BY <2>2, <2>3, <2>4, <2>5 DEF AsString
<1> HIDE DEF k1, k2
<1>5. Words(t, k1)[k1.length] = Words(t, k2)[k2.length]
  BY <1>1, <1>2, <1>4, SameWords
<1> QED BY <1>1, <1>5

(* Hashing.EqualKeysHashEqual: keys that _hashKeyComp finds equal have the *)
(* same hash, so that a probe for one finds an entry of the other: for all *)
(* strings, numbers, tuples of strings and of signed numbers, and for the  *)
(* tuples of unsigned numbers whose bytes end in time.                     *)
THEOREM EqualKeysMeet == Spec => []EqualKeysHashEqual
BY EqualKeys, InductiveInvariant, PTL

(* The words of a key of numbers are the numbers.                          *)
LEMMA NumberWords ==
  ASSUME NEW t, NEW k, GoodKey(t, k), ~AsString(t)
  PROVE  \A i \in 0 .. k.length :
           /\ Words(t, k)[i] \in Seq(OneWord(t)) /\ Len(Words(t, k)[i]) = i
           /\ \A j \in 1 .. i : Words(t, k)[i][j] = Word(k, Offset(k, j - 1), WORD)
<1> DEFINE n == k.length
           W == Words(t, k)
           T == OneWord(t)
           number == [i \in 0 .. n - 1 |-> Word(k, Offset(k, i), WORD)]
           S == {i \in 0 .. n : /\ Len(W[i]) = i
                                /\ \A j \in 1 .. i : W[i][j] = number[j - 1]}
<1>1. n \in Nat
  BY KeyFacts
<1>2. /\ W[0] = <<>> /\ \A i \in 0 .. n : W[i] \in Seq(T)
      /\ \A i \in 0 .. n - 1 : W[i + 1] = W[i] \o <<number[i]>>
  BY WordsFacts DEF ElementWords
<1>3. \A i \in 0 .. n - 1 : number[i] \in T
  BY NumberTyped
<1>4. \A j \in 1 .. n : number[j - 1] = Word(k, Offset(k, j - 1), WORD)
  BY <1>1
<1> HIDE DEF n, W, T, number
<1>5. 0 \in S
  BY <1>1, <1>2
<1>6. ASSUME NEW i \in 1 .. n, i - 1 \in S PROVE i \in S
  <2> DEFINE s == W[i - 1]
             w == number[i - 1]
  <2>1. i - 1 \in 0 .. n - 1 /\ (i - 1) + 1 = i /\ i \in 0 .. n /\ i - 1 \in 0 .. n
    BY <1>1
  <2>2. s \in Seq(T) /\ w \in T
    BY <1>2, <1>3, <2>1
  <2>3. Len(s) = i - 1 /\ \A j \in 1 .. i - 1 : s[j] = number[j - 1]
    BY <1>6
  <2>4. W[i] = s \o <<w>>
    BY <1>2, <2>1
  <2> HIDE DEF s, w
  <2>5. Len(s \o <<w>>) = i /\ (s \o <<w>>)[i] = w /\ \A j \in 1 .. i - 1 : (s \o <<w>>)[j] = s[j]
    BY <2>1, <2>2, <2>3
  <2>6. ASSUME NEW j \in 1 .. i PROVE W[i][j] = number[j - 1]
    <3>1. CASE j = i
      BY <2>4, <2>5, <3>1 DEF w
    <3>2. CASE j # i
      <4>1. j \in 1 .. i - 1
        BY <2>1, <3>2
      <4> QED BY <2>3, <2>4, <2>5, <4>1
    <3> QED BY <3>1, <3>2
  <2> QED BY <2>1, <2>4, <2>5, <2>6
<1> HIDE DEF S
<1>7. \A i \in 0 .. n : i \in S
  BY <1>1, <1>5, <1>6, UpTo
<1>8. ASSUME NEW i \in 0 .. n
      PROVE  /\ W[i] \in Seq(T) /\ Len(W[i]) = i
             /\ \A j \in 1 .. i : W[i][j] = Word(k, Offset(k, j - 1), WORD)
  <2>1. W[i] \in Seq(T)
    BY <1>2
  <2>2. Len(W[i]) = i /\ \A j \in 1 .. i : W[i][j] = number[j - 1]
    BY <1>7 DEF S
  <2>3. \A j \in 1 .. i : j \in 1 .. n
    BY <1>1
  <2> QED BY <1>4, <2>1, <2>2, <2>3
<1> QED BY <1>8 DEF n, W, T

(* The words of a string are its bytes.                                    *)
LEMMA StringWords ==
  ASSUME NEW t, NEW k, GoodKey(t, k), AsString(t), NEW i \in 0 .. k.length - 1,
         NEW n, n = StringLen(k, Offset(k, i)), NEW f, f = ElementWords(t, k, i)
  PROVE  /\ f \in Seq(OneWord(t)) /\ Len(f) = n
         /\ \A j \in 1 .. n : f[j] = Word(k, Offset(k, i) + (j - 1), 1)
<1>1. n \in Nat
  BY OffsetFacts, StringLenExact
<1>2. n \in 0 .. n
  BY <1>1
<1>3. f = Prefix(k, i, n)
  BY DEF ElementWords
<1> QED BY <1>2, <1>3, PrefixTyped

LEMMA NoIdle == Inv => NoIdleCollision
<1> SUFFICES ASSUME Inv, turn = 3, hash[1] = hash[2],
                    key_type \notin {"STR_TUPLE_KEY", "UINT_TUPLE_KEY"}
             PROVE  KeyComp(key[1], key[2])
  BY DEF NoIdleCollision
<1> DEFINE t == key_type
           k1 == key[1]
           k2 == key[2]
<1>1. /\ GoodKey(t, k1) /\ GoodKey(t, k2) /\ t \in KeyType
      /\ Words(t, k1)[k1.length] = Words(t, k2)[k2.length]
  BY Finished
<1>2. k1.length \in Nat /\ k2.length \in Nat
  BY <1>1, KeyFacts
<1>3. CASE t = "STR_KEY"
  <2> DEFINE o == Offset(k1, 0)
             l1 == StringLen(k1, o)
             l2 == StringLen(k2, o)
             f == ElementWords(t, k1, 0)
             g == ElementWords(t, k2, 0)
  <2>1. AsString(t) /\ t \notin TupleType
    BY <1>3 DEF AsString, TupleType
  <2>2. k1.length = 1 /\ k2.length = 1
    BY <1>1, <2>1, KeyFacts
  <2>3. Offset(k2, 0) = o /\ 0 \in 0 .. k1.length - 1 /\ 0 \in 0 .. k2.length - 1
    <3>1. k1.data_size \in Nat /\ k2.data_size \in Nat
      BY <1>1, KeyFacts
    <3>2. 0 * k1.data_size = 0 /\ 0 * k2.data_size = 0
      <4> HIDE DEF k1, k2
      <4> QED BY <3>1
    <3> QED BY <2>2, <3>2 DEF Offset
  <2>4. o \in Nat /\ o < Len(k1.memory) /\ o < Len(k2.memory)
    BY <1>1, <2>3, OffsetFacts
  <2>5. l1 \in Nat /\ EndsAfter(k1, o, l1)
    BY <1>1, <2>4, StringLenExact
  <2>6. l2 \in Nat /\ EndsAfter(k2, o, l2)
    BY <1>1, <2>4, StringLenExact
  <2>8. f \in Seq(OneWord(t)) /\ Len(f) = l1 /\ \A j \in 1 .. l1 : f[j] = Word(k1, o + (j - 1), 1)
    BY <1>1, <2>1, <2>3, StringWords
  <2>9. g \in Seq(OneWord(t)) /\ Len(g) = l2 /\ \A j \in 1 .. l2 : g[j] = Word(k2, o + (j - 1), 1)
    BY <1>1, <2>1, <2>3, StringWords
  <2>10. Words(t, k1)[1] = f
    <3>1. Words(t, k1)[0] = <<>> /\ Words(t, k1)[0 + 1] = Words(t, k1)[0] \o f
      BY <1>1, <2>3, WordsFacts
    <3> HIDE DEF f
    <3>2. <<>> \o f = f
      BY <2>8, ConcatEmptySeq
    <3> QED BY <3>1, <3>2
  <2>11. Words(t, k2)[1] = g
    <3>1. Words(t, k2)[0] = <<>> /\ Words(t, k2)[0 + 1] = Words(t, k2)[0] \o g
      BY <1>1, <2>3, WordsFacts
    <3> HIDE DEF g
    <3>2. <<>> \o g = g
      BY <2>9, ConcatEmptySeq
    <3> QED BY <3>1, <3>2
  <2>12. f = g
    BY <1>1, <2>2, <2>10, <2>11
  <2>13. l1 = l2
    <3> HIDE DEF f, g, l1, l2
    <3> QED BY <2>8, <2>9, <2>12
  <2>14. \A j \in 1 .. l1 : k1.memory[o + j] = k2.memory[o + j]
    <3> SUFFICES ASSUME NEW j \in 1 .. l1 PROVE k1.memory[o + j] = k2.memory[o + j]
      OBVIOUS
    <3> DEFINE y == j - 1
    <3>1. y \in 0 .. l1 /\ y \in 0 .. l2 /\ o + y + 1 = o + j
      BY <2>4, <2>5, <2>13
    <3>2. Word(k1, o + y, 1) = Word(k2, o + y, 1)
      BY <2>8, <2>9, <2>12, <2>13
    <3> HIDE DEF y
    <3>3. y \in 0 .. StringLen(k1, Offset(k1, 0)) /\ y \in 0 .. StringLen(k2, Offset(k2, 0))
      BY <2>3, <3>1
    <3>4. (Word(k1, o + y, 1) = Word(k2, Offset(k2, 0) + y, 1))
             <=> (k1.memory[o + y + 1] = k2.memory[Offset(k2, 0) + y + 1])
      BY <1>1, <2>1, <2>3, <3>3, SameByte
    <3> QED BY <2>3, <3>1, <3>2, <3>4
  <2> DEFINE n == l1 + 1
  <2>15. /\ n \in Nat \ {0} /\ o + n <= Len(k1.memory) /\ o + n <= Len(k2.memory)
         /\ k1.memory[o + n] = 0 /\ k2.memory[o + n] = 0
    <3>1. /\ o + l1 + 1 <= Len(k1.memory) /\ o + l1 + 1 <= Len(k2.memory)
          /\ k1.memory[o + l1 + 1] = 0 /\ k2.memory[o + l1 + 1] = 0
      BY <2>5, <2>6, <2>13 DEF EndsAfter
    <3> HIDE DEF o, l1
    <3>2. o + (l1 + 1) = o + l1 + 1 /\ l1 + 1 \in Nat \ {0}
      BY <2>4, <2>5
    <3> QED BY <3>1, <3>2
  <2>16. \A j \in 1 .. n : k1.memory[o + j] = k2.memory[o + j]
    <3> SUFFICES ASSUME NEW j \in 1 .. n PROVE k1.memory[o + j] = k2.memory[o + j]
      OBVIOUS
    <3>1. CASE j = n
      BY <2>15, <3>1
    <3>2. CASE j # n
      <4>1. j \in 1 .. l1
        BY <2>5, <3>2
      <4> QED BY <2>14, <4>1
    <3> QED BY <3>1, <3>2
  <2>17. Agree(k1, o, k2, o, n)
    BY <2>16 DEF Agree
  <2>18. Len(k1.memory) \in Nat
    BY <1>1, KeyFacts
  <2> HIDE DEF k1, k2, o, n
  <2>19. n \in 1 .. Len(k1.memory) - o /\ n \in Nat
    BY <2>4, <2>15, <2>18
  <2>20. Word(k1, o, n) = Word(k2, o, n)
    BY <1>1, <2>4, <2>15, <2>17, <2>19, SameWordBytes
  <2>21. StrComp(k1, o, k2, o)
    BY <2>15, <2>19, <2>20 DEF StrComp
  <2>22. ElementComp(k1, k2, 0)
    BY <1>3, <2>3, <2>21 DEF ElementComp, o
  <2>23. \A i \in 0 .. k1.length - 1 : i = 0
    BY <2>2
  <2>24. KeyComp(k1, k2)
    BY <2>2, <2>22, <2>23 DEF KeyComp
  <2> QED BY <2>24 DEF k1, k2
<1>4. CASE t # "STR_KEY"
  <2>1. ~AsString(t) /\ t \notin {"STR_KEY", "STR_TUPLE_KEY"}
    BY <1>4 DEF AsString
  <2>2. k1.length \in 0 .. k1.length /\ k2.length \in 0 .. k2.length
    BY <1>2
  <2>3. /\ Len(Words(t, k1)[k1.length]) = k1.length
        /\ \A j \in 1 .. k1.length :
             Words(t, k1)[k1.length][j] = Word(k1, Offset(k1, j - 1), WORD)
    BY <1>1, <2>1, <2>2, NumberWords
  <2>4. /\ Len(Words(t, k2)[k2.length]) = k2.length
        /\ \A j \in 1 .. k2.length :
             Words(t, k2)[k2.length][j] = Word(k2, Offset(k2, j - 1), WORD)
    BY <1>1, <2>1, <2>2, NumberWords
  <2>5. k1.length = k2.length
    BY <1>1, <2>3, <2>4
  <2>6. ASSUME NEW i \in 0 .. k1.length - 1 PROVE ElementComp(k1, k2, i)
    <3>1. i + 1 \in 1 .. k1.length /\ (i + 1) - 1 = i
      BY <1>2
    <3>2. Word(k1, Offset(k1, i), WORD) = Word(k2, Offset(k2, i), WORD)
      BY <1>1, <2>3, <2>4, <2>5, <3>1
    <3> QED BY <2>1, <3>2 DEF ElementComp, NumComp
  <2> QED BY <2>5, <2>6 DEF KeyComp
<1> QED BY <1>3, <1>4

(* Hashing.NoIdleCollision: strings, numbers and tuples of signed numbers  *)
(* that absorb the same words compare equal, so that different keys meet   *)
(* only where FNV-1a maps different words to one hash.                     *)
THEOREM NoOtherCollision == Spec => []NoIdleCollision
BY NoIdle, InductiveInvariant, PTL

=============================================================================
