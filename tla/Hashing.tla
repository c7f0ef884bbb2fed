------------------------------ MODULE Hashing -------------------------------
(***************************************************************************)
(* fnv1aHash and _hashKeyComp of hash.c, byte by byte: two keys are hashed *)
(* one after the other, as on insertion and on a later lookup, and then    *)
(* compared.                                                               *)
(*                                                                         *)
(* A key is the memory its pointer leads to: length elements of data_size  *)
(* bytes, then whatever lies behind them (one element for the types that   *)
(* are no tuples).  A zero byte is found sooner or later, so that memory   *)
(* ends with one.  A hash stands for the words absorbed so far: each is    *)
(* xor-ed into the state, which is then multiplied by an odd number, so    *)
(* that equal words give equal hashes; that different ones may collide all *)
(* the same is left out.  Memory goes on behind a key for a word at least, *)
(* so that reading one at the start of an element is defined.              *)
(***************************************************************************)
EXTENDS Integers, Sequences

CONSTANTS
  Byte,     \* the values of a byte, 0 among them
  WORD,     \* the bytes of a cds_hash, cds_intkey or cds_uintkey
  Memory,   \* what key pointers may lead to
  Length,   \* the numbers of elements of a tuple
  DataSize  \* the sizes of an element

ASSUME HashingAssumption ==
  /\ 0 \in Byte
  /\ WORD \in Nat \ {0}
  /\ Memory \subseteq Seq(Byte) \ {<<>>}
  /\ \A m \in Memory : m[Len(m)] = 0
  /\ Length \subseteq Nat
  /\ DataSize \subseteq Nat \ {0}
  /\ \A m \in Memory, length \in Length \cup {1}, data_size \in DataSize :
       /\ length * data_size <= Len(m)
       /\ length > 0 => (length - 1) * data_size + WORD <= Len(m)

TupleType == {"STR_TUPLE_KEY", "INT_TUPLE_KEY", "UINT_TUPLE_KEY"}
KeyType == {"STR_KEY", "INT_KEY", "UINT_KEY"} \cup TupleType

VARIABLES
  key_type,   \* the type both keys have
  key,        \* the two keys
  turn,       \* the key being hashed; 3 when both have been
  element,    \* i in _fnv1aHashTuple
  p,          \* the bytes of the element that _fnv1aHashStr has passed
  hash        \* for each key the words absorbed so far

vars == <<key_type, key, turn, element, p, hash>>

(* A string or number is a key of one element.  Each tuple has an element  *)
(* size of its own, which nothing compares.                                *)
Keys(type) ==
  [memory : Memory, data_size : DataSize,
   length : IF type \in TupleType THEN Length ELSE {1}]

Init ==
  /\ key_type \in KeyType
  /\ key \in [{1, 2} -> Keys(key_type)]
  /\ turn = 1
  /\ element = 0
  /\ p = 0
  /\ hash = [k \in {1, 2} |-> <<>>]

-----------------------------------------------------------------------------
(* Hashing.                                                                *)

Hashing == turn \in {1, 2} /\ element < key[turn].length

(* Mutant: tuples of signed numbers are read as strings too.               *)
AllTuplesAsStrings == key_type \in {"STR_KEY"} \cup TupleType

(* The types whose elements are hashed by _fnv1aHashStr.                   *)
HashedAsString == key_type \in {"STR_KEY", "STR_TUPLE_KEY", "UINT_TUPLE_KEY"}

(* Mutant: the elements are counted from one.                              *)
OffsetFromOne(k, i) == (i + 1) * k.data_size

(* The byte at which an element starts.                                    *)
Offset(k, i) == i * k.data_size

(* The word of n bytes from the byte at.                                   *)
Word(k, at, n) == SubSeq(k.memory, at + 1, at + n)

At == Offset(key[turn], element) + p

(* Mutant: the loop looks one byte ahead.                                  *)
StringEndsEarly(k, at) == k.memory[at + 1] = 0 \/ k.memory[at + 2] = 0

StringEnds(k, at) == k.memory[at + 1] = 0

Absorb(word) == hash' = [hash EXCEPT ![turn] = Append(@, word)]

(* Mutant: the pointer is dereferenced as a byte.                          *)
FirstByte == Word(key[turn], At, 1)

Number == Word(key[turn], At, WORD)

(* One round of the loop of _fnv1aHashStr.                                 *)
AbsorbByte ==
  /\ Hashing /\ HashedAsString
  /\ ~StringEnds(key[turn], At)
  /\ Absorb(Word(key[turn], At, 1))
  /\ p' = p + 1
  /\ UNCHANGED <<key_type, key, turn, element>>

NextElement ==
  /\ element' = element + 1
  /\ p' = 0
  /\ UNCHANGED <<key_type, key, turn>>

EndString ==
  /\ Hashing /\ HashedAsString
  /\ StringEnds(key[turn], At)
  /\ NextElement
  /\ UNCHANGED hash

AbsorbNumber ==
  /\ Hashing /\ ~HashedAsString
  /\ Absorb(Number)
  /\ NextElement

(* fnv1aHash returns.                                                      *)
Return ==
  /\ turn \in {1, 2} /\ ~Hashing
  /\ turn' = turn + 1
  /\ element' = 0
  /\ UNCHANGED <<key_type, key, p, hash>>

Next == AbsorbByte \/ EndString \/ AbsorbNumber \/ Return

Spec == Init /\ [][Next]_vars

-----------------------------------------------------------------------------
(* Comparison.                                                             *)

(* strcmp gives 0: the strings agree up to a zero byte in both.            *)
StrComp(k1, at1, k2, at2) ==
  \E n \in 1 .. Len(k1.memory) - at1 :
    /\ at2 + n <= Len(k2.memory)
    /\ k1.memory[at1 + n] = 0
    /\ Word(k1, at1, n) = Word(k2, at2, n)

NumComp(k1, at1, k2, at2) == Word(k1, at1, WORD) = Word(k2, at2, WORD)

ElementComp(k1, k2, i) ==
  IF key_type \in {"STR_KEY", "STR_TUPLE_KEY"}
  THEN StrComp(k1, Offset(k1, i), k2, Offset(k2, i))
  ELSE NumComp(k1, Offset(k1, i), k2, Offset(k2, i))

KeyComp(k1, k2) ==
  /\ k1.length = k2.length
  /\ \A i \in 0 .. k1.length - 1 : ElementComp(k1, k2, i)

-----------------------------------------------------------------------------
(* Properties.                                                             *)

(* A byte string gives words of one byte, a number one of its full width.  *)
TypeOK ==
  /\ turn \in 1 .. 3
  /\ turn # 3 => element \in 0 .. key[turn].length
  /\ p \in Nat
  /\ \A k \in {1, 2} : \A n \in DOMAIN hash[k] :
       Len(hash[k][n]) = IF HashedAsString THEN 1 ELSE WORD

(* Every loop over bytes that starts in the key ends in it: its last       *)
(* element has a zero byte.                                                *)
Terminated(k) ==
  \E n \in 1 .. k.data_size :
    k.length > 0 => k.memory[Offset(k, k.length - 1) + n] = 0

(* Every number of a tuple has a zero byte.                                *)
NumbersEnd(k) ==
  \A i \in 0 .. k.length - 1 : \E n \in 1 .. WORD : k.memory[Offset(k, i) + n] = 0

(* The promise every probing loop rests on (hash.c:231, 284, 331): keys    *)
(* that compare equal have equal hashes, whatever their element sizes.     *)
(* Not so a UINT_TUPLE_KEY, which is compared as numbers and hashed as     *)
(* strings (hash.c:45), so that bytes nothing compared may be hashed.  The *)
(* promise holds there if each number has a zero byte; or if only the last *)
(* has one, when the elements leave no gap between the numbers and are of  *)
(* the same size in both keys.                                             *)
EqualKeysHashEqual ==
  /\ turn = 3
  /\ key_type = "UINT_TUPLE_KEY" =>
       \/ NumbersEnd(key[1])
       \/ /\ Terminated(key[1])
          /\ key[1].data_size <= WORD /\ key[2].data_size = key[1].data_size
  /\ KeyComp(key[1], key[2])
  => hash[1] = hash[2]

(* Hashing reads no byte behind the key, given that strings end in their   *)
(* element and that the elements of a tuple of numbers are full words.     *)
ReadsOwnBytes ==
  LET k == key[turn]
      width == IF HashedAsString THEN 1 ELSE WORD
  IN  /\ turn \in {1, 2} /\ Hashing
      /\ key_type \in TupleType
      /\ IF HashedAsString THEN Terminated(k) ELSE k.data_size >= WORD
      => At + width <= k.length * k.data_size

(* Strings, numbers and tuples of signed numbers that differ absorb        *)
(* different words: such keys collide only where FNV-1a itself does.  (Not *)
(* so the other tuples, in which the ends of the elements leave no trace.) *)
NoIdleCollision ==
  /\ turn = 3
  /\ key_type \notin {"STR_TUPLE_KEY", "UINT_TUPLE_KEY"}
  /\ hash[1] = hash[2]
  => KeyComp(key[1], key[2])

=============================================================================
