---------------------------- MODULE CommonProofs ----------------------------
(***************************************************************************)
(* Facts about the sizing arithmetic of Common, for every pair of widths,  *)
(* and about the path of ProbePath, for every capacity.  The former rest   *)
(* on the powers of two, which Common defines by recursion; the first      *)
(* lemmas replace the induction over numbers that the provers lack by the  *)
(* least element of a set of numbers.                                      *)
(***************************************************************************)
EXTENDS Common, ProbePath, FiniteSetTheorems, TLAPS

(* A set of numbers has a least element: the strict subset ordering is     *)
(* well-founded on the finite sets 0..n.                                   *)
LEMMA LeastNat ==
  ASSUME NEW T \in SUBSET Nat, T # {}
  PROVE  \E x \in T : \A y \in T : x <= y
<1> DEFINE R == StrictSubsetOrdering(Nat)
           S == FiniteSubsetsOf(Nat)
           U == {0 .. n : n \in T}
<1>1. IsWellFoundedOn(R, S)
  BY FS_StrictSubsetOrderingWellFounded
<1>2. U \subseteq S /\ U # {}
  <2>1. \A n \in T : 0 .. n \in SUBSET Nat /\ IsFiniteSet(0 .. n)
    BY FS_Interval
  <2> QED BY <2>1 DEF FiniteSubsetsOf
<1>3. PICK m \in U : \A l \in U : ~(<<l, m>> \in R)
  <2> HIDE DEF R, S, U
  <2> QED BY <1>1, <1>2, WFMin
<1>4. PICK x \in T : m = 0 .. x
  OBVIOUS
<1>5. \A y \in T : x <= y
  <2> SUFFICES ASSUME NEW y \in T, y < x PROVE FALSE
    OBVIOUS
  <2>1. 0 .. y \in U
    OBVIOUS
  <2>2. 0 .. y \subseteq 0 .. x /\ 0 .. y # 0 .. x
    OBVIOUS
  <2>3. <<0 .. y, 0 .. x>> \in R
    BY <2>2 DEF StrictSubsetOrdering
  <2> QED BY <2>1, <2>3, <1>3, <1>4
<1> QED BY <1>5

(* Induction up to N, with the property given as a set.                    *)
LEMMA UpTo ==
  ASSUME NEW N \in Nat, NEW S, 0 \in S, \A i \in 1 .. N : i - 1 \in S => i \in S
  PROVE  \A i \in 0 .. N : i \in S
<1> SUFFICES ASSUME NEW j \in 0 .. N, j \notin S PROVE FALSE
  OBVIOUS
<1> DEFINE T == {i \in 0 .. N : i \notin S}
<1>1. PICK x \in T : \A y \in T : x <= y
  <2>1. T \in SUBSET Nat /\ T # {}
    OBVIOUS
  <2> HIDE DEF T
  <2> QED BY <2>1, LeastNat
<1>2. x \in 1 .. N /\ x - 1 \in 0 .. N /\ x - 1 \notin T
  BY <1>1
<1> QED BY <1>1, <1>2

(* f is defined over 0..n by a first value and a step from each value to   *)
(* the next.                                                               *)
Recursive(f, n, C, c0, step) ==
  /\ f \in [0 .. n -> C]
  /\ f[0] = c0
  /\ \A i \in 1 .. n : f[i] = step[i - 1][f[i - 1]]

Steps(n, C) == [0 .. n - 1 -> [C -> C]]

(* A recursive definition whose step stays within C has a solution: what   *)
(* the CHOOSE of a recursive function needs.                               *)
LEMMA Recursion ==
  ASSUME NEW C, NEW c0 \in C, NEW N \in Nat, NEW step \in Steps(N, C)
  PROVE  \E f : Recursive(f, N, C, c0, step)
<1> DEFINE Solves(f, n) == Recursive(f, n, C, c0, step)
           S == {n \in 0 .. N : \E f : Solves(f, n)}
<1> USE DEF Recursive, Steps
<1>1. 0 \in S
  <2> DEFINE f == [i \in 0 .. 0 |-> c0]
  <2>1. f \in [0 .. 0 -> C] /\ Solves(f, 0)
    OBVIOUS
  <2> HIDE DEF f
  <2> QED BY <2>1
<1>2. ASSUME NEW n \in 1 .. N, n - 1 \in S PROVE n \in S
  <2>1. PICK f : Solves(f, n - 1)
    BY <1>2
  <2> DEFINE last == step[n - 1][f[n - 1]]
             g == [i \in 0 .. n |-> IF i = n THEN last ELSE f[i]]
  <2>2. f[n - 1] \in C /\ n - 1 \in 0 .. N
    BY <2>1
  <2>3. last \in C
    BY <2>2
  <2>4. g \in [0 .. n -> C] /\ g[0] = c0
    BY <2>1, <2>3
  <2>5. ASSUME NEW i \in 1 .. n PROVE g[i] = step[i - 1][g[i - 1]]
    <3>1. CASE i = n
      <4>1. n \in 0 .. n /\ n - 1 \in 0 .. n /\ n - 1 # n
        OBVIOUS
      <4>2. g[n] = last /\ g[n - 1] = f[n - 1]
        BY <4>1
      <4> QED BY <4>2, <3>1
    <3>2. CASE i # n
      <4>1. i \in 1 .. n - 1 /\ i - 1 \in 0 .. n /\ i - 1 # n
        BY <3>2
      <4>2. g[i] = f[i] /\ g[i - 1] = f[i - 1]
        BY <4>1, <3>2
      <4> QED BY <4>1, <4>2, <2>1
    <3> QED BY <3>1, <3>2
  <2>6. Solves(g, n)
    BY <2>4, <2>5
  <2> HIDE DEF g
  <2> QED BY <2>4, <2>6
<1>3. N \in S
  <2> HIDE DEF S
  <2>1. \A i \in 0 .. N : i \in S
    BY <1>1, <1>2, UpTo
  <2> QED BY <2>1
<1> QED BY <1>3

-----------------------------------------------------------------------------
(* Powers of two.                                                          *)

(* The recursive definition of Pow2 has the function it describes.         *)
LEMMA Pow2Def ==
  /\ Pow2 \in [0 .. MAX_POW2 -> Nat \ {0}]
  /\ Pow2[0] = 1
  /\ \A n \in 1 .. MAX_POW2 : Pow2[n] = 2 * Pow2[n - 1]
<1> DEFINE P == Nat \ {0}
           IsPow2(f) ==
             f = [n \in 0 .. MAX_POW2 |-> IF n = 0 THEN 1 ELSE 2 * f[n - 1]]
           step == [i \in 0 .. MAX_POW2 - 1 |-> [x \in P |-> 2 * x]]
           one == 1
<1>1. MAX_POW2 \in Nat
  BY WidthAssumption
<1>2. step \in Steps(MAX_POW2, P) /\ one \in P
  BY DEF Steps
<1>3. PICK f : Recursive(f, MAX_POW2, P, one, step)
  <2> HIDE DEF step, P, one
  <2> QED BY <1>1, <1>2, Recursion
<1>4. \A n \in 0 .. MAX_POW2 : f[n] = IF n = 0 THEN 1 ELSE 2 * f[n - 1]
  <2>1. f[0] = 1
    BY <1>3 DEF Recursive
  <2>2. ASSUME NEW n \in 1 .. MAX_POW2 PROVE f[n] = 2 * f[n - 1]
    <3>1. n - 1 \in 0 .. MAX_POW2 - 1 /\ n - 1 \in 0 .. MAX_POW2
      BY <1>1
    <3>2. f[n - 1] \in P /\ f[n] = step[n - 1][f[n - 1]]
      <4> HIDE DEF step, P
      <4> QED BY <1>3, <3>1 DEF Recursive
    <3> QED BY <3>1, <3>2
  <2> QED BY <1>1, <2>1, <2>2
<1>5. IsPow2(f)
  <2>1. f = [n \in 0 .. MAX_POW2 |-> f[n]]
    BY <1>3 DEF Recursive
  <2> QED BY <1>4, <2>1
<1>6. IsPow2(Pow2)
  <2> HIDE DEF IsPow2
  <2>1. IsPow2(CHOOSE g : IsPow2(g))
    BY <1>5
  <2> USE DEF IsPow2
  <2> QED BY <2>1 DEF Pow2
<1>7. Pow2[0] = 1 /\ \A n \in 1 .. MAX_POW2 : Pow2[n] = 2 * Pow2[n - 1]
  <2>1. \A n \in 0 .. MAX_POW2 : Pow2[n] = IF n = 0 THEN 1 ELSE 2 * Pow2[n - 1]
    <3> HIDE DEF Pow2
    <3> QED BY <1>6
  <2> QED BY <1>1, <2>1
<1>8. \A n \in 0 .. MAX_POW2 : Pow2[n] \in P
  <2> DEFINE S == {m \in 0 .. MAX_POW2 : Pow2[m] \in P}
  <2>1. 0 \in S
    BY <1>1, <1>7
  <2>2. \A i \in 1 .. MAX_POW2 : i - 1 \in S => i \in S
    BY <1>1, <1>7
  <2>3. \A n \in 0 .. MAX_POW2 : n \in S
    <3> HIDE DEF S
    <3> QED BY <1>1, <2>1, <2>2, UpTo
  <2> QED BY <2>3
<1> QED BY <1>6, <1>7, <1>8

(* They are strictly increasing.                                           *)
LEMMA Pow2Increasing ==
  ASSUME NEW m \in 0 .. MAX_POW2, NEW n \in 0 .. MAX_POW2, m < n
  PROVE  Pow2[m] < Pow2[n]
<1> DEFINE S == {k \in 0 .. MAX_POW2 : k > m => Pow2[m] < Pow2[k]}
<1>1. MAX_POW2 \in Nat
  BY WidthAssumption
<1>2. 0 \in S
  BY <1>1
<1>3. ASSUME NEW i \in 1 .. MAX_POW2, i - 1 \in S PROVE i \in S
  <2>1. Pow2[i] = 2 * Pow2[i - 1] /\ Pow2[i - 1] \in Nat \ {0}
    BY <1>1, Pow2Def
  <2>2. CASE i - 1 = m
    BY <1>1, <2>1, <2>2
  <2>3. CASE i - 1 # m
    <3>1. i > m => i - 1 > m
      BY <2>3
    <3>2. Pow2[m] \in Nat
      BY Pow2Def
    <3> QED BY <1>1, <1>3, <2>1, <3>1, <3>2
  <2> QED BY <2>2, <2>3
<1>4. n \in S
  <2> HIDE DEF S
  <2>1. \A i \in 0 .. MAX_POW2 : i \in S
    BY <1>1, <1>2, <1>3, UpTo
  <2> QED BY <2>1
<1> QED BY <1>4

(* Doubling the power n gives the power n + 1, unless that is SizeSpan,    *)
(* and then it gives zero.                                                 *)
LEMMA DoublePow2 ==
  ASSUME NEW n \in 0 .. MAX_POW2 - 1, Double(Pow2[n]) > Pow2[n]
  PROVE  n + 1 \in 0 .. MAX_POW2 - 1 /\ Double(Pow2[n]) = Pow2[n + 1]
<1>1. MAX_POW2 \in Nat /\ n + 1 \in 1 .. MAX_POW2
  BY WidthAssumption
<1>2. /\ Pow2[n + 1] = 2 * Pow2[n]
      /\ Pow2[n] \in Nat \ {0} /\ SizeSpan \in Nat \ {0}
  BY <1>1, Pow2Def DEF SizeSpan
<1>3. CASE n + 1 = MAX_POW2
  <2>1. Double(Pow2[n]) = SizeSpan % SizeSpan
    BY <1>2, <1>3 DEF Double, SizeSpan
  <2>2. SizeSpan % SizeSpan = 0
    BY <1>2
  <2> QED BY <1>2, <2>1, <2>2
<1>4. CASE n + 1 # MAX_POW2
  <2>1. Pow2[n + 1] < SizeSpan
    BY <1>1, <1>4, Pow2Increasing DEF SizeSpan
  <2>2. \A x \in Nat : x < SizeSpan => x % SizeSpan = x
    BY <1>2
  <2> QED BY <1>1, <1>2, <1>4, <2>1, <2>2 DEF Double
<1> QED BY <1>3, <1>4

(* The exponent _log2 gives, and the one the creators make of it: when it  *)
(* fits, its power exceeds the request.                                    *)
LEMMA Log2Exceeds ==
  ASSUME NEW x \in Nat, NEW log \in Log2(x)
  PROVE  /\ log \in Nat
         /\ log + 1 < MAX_POW2 => x < Pow2[log + 1]
<1> DEFINE exits == {l \in 1 .. MAX_POW2 - 1 : x < Pow2[l]}
<1>1. MAX_POW2 \in Nat \ {0}
  BY WidthAssumption
<1>2. CASE exits # {}
  <2>1. exits \in SUBSET Nat
    BY <1>1
  <2>2. PICK least \in exits : \A l \in exits : least <= l
    <3> HIDE DEF exits
    <3> QED BY <1>2, <2>1, LeastNat
  <2>3. (CHOOSE l \in exits : \A k \in exits : l <= k) \in exits
    <3> HIDE DEF exits
    <3> QED BY <2>2
  <2>4. log + 1 \in exits /\ log \in Int
    <3>1. log = (CHOOSE l \in exits : \A k \in exits : l <= k) - 1
      BY <1>2 DEF Log2
    <3> QED BY <1>1, <2>3, <3>1
  <2> QED BY <1>1, <2>4
<1>3. CASE exits = {}
  <2>1. log = MAX_POW2 - 1 \/ log = MAX_POW2
    BY <1>3 DEF Log2
  <2> QED BY <1>1, <2>1
<1> QED BY <1>2, <1>3

(* 1 << pow is a number of cds_size other than zero.                       *)
LEMMA IntShiftInRange ==
  ASSUME NEW pow \in Nat
  PROVE  IntShift(pow) \in 1 .. SizeSpan - 1
<1> DEFINE count == pow % INT_BITS
<1>1. MAX_POW2 \in Nat \ {0} /\ INT_BITS \in 2 .. MAX_POW2
  BY WidthAssumption
<1>2. count \in 0 .. MAX_POW2 - 1
  BY <1>1
<1> HIDE DEF count
<1>3. Pow2[count] \in Nat \ {0} /\ SizeSpan \in Nat
  <2>1. count \in 0 .. MAX_POW2 /\ MAX_POW2 \in 0 .. MAX_POW2
    BY <1>1, <1>2
  <2> QED BY <2>1, Pow2Def DEF SizeSpan
<1>4. Pow2[count] < SizeSpan
  BY <1>1, <1>2, Pow2Increasing DEF SizeSpan
<1>5. IntShift(pow) = Pow2[count] \/ IntShift(pow) = SizeSpan - Pow2[count]
  BY DEF IntShift, count
<1> QED BY <1>3, <1>4, <1>5

(* Where int is as wide as cds_size it is the power itself.                *)
LEMMA IntShiftExact ==
  ASSUME INT_BITS = MAX_POW2, NEW pow \in 0 .. MAX_POW2 - 1
  PROVE  IntShift(pow) = Pow2[pow]
<1>1. MAX_POW2 \in Nat \ {0, 1} /\ pow % INT_BITS = pow
  BY WidthAssumption
<1>2. SizeSpan = 2 * Pow2[MAX_POW2 - 1] /\ Pow2[MAX_POW2 - 1] \in Nat
  <2>1. MAX_POW2 \in 1 .. MAX_POW2 /\ MAX_POW2 - 1 \in 0 .. MAX_POW2
    BY <1>1
  <2> QED BY <2>1, Pow2Def DEF SizeSpan
<1> QED BY <1>1, <1>2 DEF IntShift

(* Where it is not, it is the power only below the two top bits of int.    *)
LEMMA IntShiftIsPower ==
  ASSUME NEW pow \in 1 .. MAX_POW2 - 1
  PROVE  IntShift(pow) = Pow2[pow] <=> INT_BITS = MAX_POW2 \/ pow <= INT_BITS - 2
<1> DEFINE count == pow % INT_BITS
<1>1. /\ MAX_POW2 \in Nat \ {0, 1} /\ INT_BITS \in 2 .. MAX_POW2
      /\ pow \in 0 .. MAX_POW2
  BY WidthAssumption
<1>2. count \in 0 .. INT_BITS - 1 /\ count \in 0 .. MAX_POW2 - 1
  BY <1>1
<1>3. pow <= INT_BITS - 1 => count = pow
  BY <1>1
<1> HIDE DEF count
<1>4. IntShift(pow) = IF count = INT_BITS - 1 THEN SizeSpan - Pow2[count] ELSE Pow2[count]
  BY DEF IntShift, count
<1>5. CASE INT_BITS = MAX_POW2
  <2>1. pow \in 0 .. MAX_POW2 - 1
    BY <1>1
  <2> QED BY <1>5, <2>1, IntShiftExact
<1>6. CASE pow <= INT_BITS - 2
  BY <1>1, <1>3, <1>4, <1>6
<1>7. CASE INT_BITS # MAX_POW2 /\ ~(pow <= INT_BITS - 2)
  <2>1. CASE count = INT_BITS - 1
    <3>1. /\ INT_BITS - 1 \in 0 .. MAX_POW2 /\ MAX_POW2 - 1 \in 0 .. MAX_POW2
          /\ MAX_POW2 \in 1 .. MAX_POW2 /\ INT_BITS - 1 < MAX_POW2 - 1
      BY <1>1, <1>7
    <3>2. /\ SizeSpan = 2 * Pow2[MAX_POW2 - 1]
          /\ Pow2[INT_BITS - 1] < Pow2[MAX_POW2 - 1]
          /\ Pow2[INT_BITS - 1] \in Nat /\ Pow2[MAX_POW2 - 1] \in Nat /\ Pow2[pow] \in Nat
      BY <1>1, <3>1, Pow2Def, Pow2Increasing DEF SizeSpan
    <3>3. Pow2[pow] <= Pow2[MAX_POW2 - 1]
      <4>1. CASE pow = MAX_POW2 - 1
        BY <3>2, <4>1
      <4>2. CASE pow # MAX_POW2 - 1
        <5>1. pow < MAX_POW2 - 1
          BY <1>1, <4>2
        <5> QED BY <1>1, <3>1, <3>2, <5>1, Pow2Increasing
      <4> QED BY <4>1, <4>2
    <3>4. IntShift(pow) = SizeSpan - Pow2[INT_BITS - 1]
      BY <1>4, <2>1
    <3> QED BY <1>7, <3>2, <3>3, <3>4
  <2>2. CASE count # INT_BITS - 1
    <3>1. count < pow /\ count \in 0 .. MAX_POW2
      BY <1>1, <1>2, <1>3, <1>7, <2>2
    <3>2. Pow2[count] < Pow2[pow] /\ Pow2[count] \in Nat /\ Pow2[pow] \in Nat
      BY <1>1, <3>1, Pow2Def, Pow2Increasing
    <3> QED BY <1>4, <1>7, <2>2, <3>2
  <2> QED BY <2>1, <2>2
<1> QED BY <1>5, <1>6, <1>7

(* What a creator may settle on.                                           *)
LEMMA CapacitiesInRange ==
  ASSUME NEW min_capacity \in Nat, NEW capacity \in Capacities(min_capacity)
  PROVE  capacity \in 1 .. SizeSpan - 1
<1>1. PICK log \in Log2(min_capacity) : capacity = IntShift(log + 1)
  BY DEF Capacities, Exponents
<1>2. log + 1 \in Nat
  BY Log2Exceeds
<1> QED BY <1>1, <1>2, IntShiftInRange


(* Every capacity a creator can build a container with is a power of two,  *)
(* in the 64-bit build too: where the shift overflows int, the result is   *)
(* either a smaller power or more than any allocator hands out.            *)
LEMMA CapacitiesArePowers ==
  ASSUME NEW min_capacity \in Nat,
         NEW capacity \in Capacities(min_capacity), Allocatable(capacity)
  PROVE  \E n \in 0 .. MAX_POW2 - 1 : capacity = Pow2[n]
<1>1. MAX_POW2 \in Nat /\ INT_BITS \in 2 .. MAX_POW2
  BY WidthAssumption
<1>2. PICK log \in Log2(min_capacity) :
        log + 1 < MAX_POW2 /\ capacity = IntShift(log + 1)
  BY DEF Capacities, Exponents
<1>3. log \in Nat
  BY Log2Exceeds
<1> DEFINE count == (log + 1) % INT_BITS
<1>4. count \in 0 .. INT_BITS - 1
  BY <1>1, <1>3
<1> HIDE DEF count
<1>5. /\ count \in 0 .. MAX_POW2 - 1
      /\ SizeSpan = 2 * Pow2[MAX_POW2 - 1]
      /\ Pow2[count] \in Nat /\ Pow2[MAX_POW2 - 1] \in Nat
  <2>1. MAX_POW2 \in 1 .. MAX_POW2 /\ MAX_POW2 - 1 \in 0 .. MAX_POW2
    BY <1>1
  <2> QED BY <1>1, <1>4, <2>1, Pow2Def DEF SizeSpan
<1>6. CASE count # INT_BITS - 1
  <2>1. capacity = Pow2[count]
    BY <1>2, <1>6 DEF IntShift, count
  <2> QED BY <1>5, <2>1
<1>7. CASE count = INT_BITS - 1
  <2>1. capacity = SizeSpan - Pow2[count]
    BY <1>2, <1>7 DEF IntShift, count
  <2>2. Pow2[MAX_POW2 - 1] <= Pow2[count]
    BY <1>5, <2>1 DEF Allocatable
  <2>3. count = MAX_POW2 - 1
    <3> SUFFICES ASSUME count < MAX_POW2 - 1 PROVE FALSE
      BY <1>1, <1>5
    <3>1. Pow2[count] < Pow2[MAX_POW2 - 1]
      BY <1>1, <1>5, Pow2Increasing
    <3> QED BY <1>5, <2>2, <3>1
  <2>4. capacity = Pow2[MAX_POW2 - 1]
    BY <1>5, <2>1, <2>3
  <2> QED BY <1>1, <2>4
<1> QED BY <1>6, <1>7

-----------------------------------------------------------------------------
(* The probe path, for every capacity: it visits each slot once, FirstIn   *)
(* is the first slot of a set on it, and a lookup that stops at vacant     *)
(* slots finds what no vacant slot lies in front of.                       *)

Slots(capacity) == 0 .. capacity - 1

(* Slots and their subsets are finite.                                     *)
LEMMA SlotsFinite ==
  ASSUME NEW capacity \in Nat, NEW S \in SUBSET Slots(capacity)
  PROVE  /\ IsFiniteSet(Slots(capacity)) /\ Cardinality(Slots(capacity)) = capacity
         /\ IsFiniteSet(S) /\ Cardinality(S) \in Nat /\ Cardinality(S) <= capacity
<1>1. /\ IsFiniteSet(0 .. capacity - 1)
      /\ Cardinality(0 .. capacity - 1) = capacity
  <2>1. 0 \in Int /\ capacity - 1 \in Int
    OBVIOUS
  <2> QED BY <2>1, FS_Interval
<1>2. IsFiniteSet(S) /\ Cardinality(S) <= Cardinality(Slots(capacity))
  BY <1>1, FS_Subset DEF Slots
<1>3. Cardinality(S) \in Nat
  BY <1>2, FS_CardinalityType
<1> QED BY <1>1, <1>2, <1>3 DEF Slots

(* The path from any slot meets every slot.                                *)
LEMMA ProbeOnto ==
  ASSUME NEW capacity \in Nat \ {0}, NEW start \in Slots(capacity),
         NEW i \in Slots(capacity)
  PROVE  \E d \in Slots(capacity) : Probe(start, d, capacity) = i
<1> DEFINE d == IF start <= i THEN i - start ELSE i - start + capacity
<1>1. d \in Slots(capacity) /\ Probe(start, d, capacity) = i
  BY DEF Slots, Probe
<1> QED BY <1>1

(* It stays within the table and meets no slot twice.                      *)
LEMMA ProbeInjective ==
  ASSUME NEW capacity \in Nat \ {0}, NEW start \in Slots(capacity)
  PROVE  /\ \A d \in Slots(capacity) : Probe(start, d, capacity) \in Slots(capacity)
         /\ \A d, e \in Slots(capacity) :
              Probe(start, d, capacity) = Probe(start, e, capacity) => d = e
BY DEF Slots, Probe

(* FirstIn is the first slot of S on the path.                             *)
LEMMA FirstInIsFirst ==
  ASSUME NEW capacity \in Nat \ {0}, NEW start \in Slots(capacity),
         NEW S \in SUBSET Slots(capacity), S # {}
  PROVE  \E d \in Slots(capacity) :
           /\ FirstIn(S, start, capacity) = Probe(start, d, capacity)
           /\ FirstIn(S, start, capacity) \in S
           /\ \A e \in Slots(capacity) : e < d => Probe(start, e, capacity) \notin S
<1> DEFINE dist == {d \in Slots(capacity) : Probe(start, d, capacity) \in S}
           least == CHOOSE d \in dist : \A e \in dist : d <= e
<1>1. dist \in SUBSET Nat /\ dist # {}
  <2>1. PICK i \in S : i \in Slots(capacity)
    OBVIOUS
  <2>2. PICK d \in Slots(capacity) : Probe(start, d, capacity) = i
    BY <2>1, ProbeOnto
  <2>3. d \in dist
    BY <2>1, <2>2
  <2> QED BY <2>3 DEF Slots
<1>2. \E d \in dist : \A e \in dist : d <= e
  <2> HIDE DEF dist
  <2> QED BY <1>1, LeastNat
<1>3. least \in dist /\ \A e \in dist : least <= e
  <2> HIDE DEF dist
  <2> QED BY <1>2
<1>4. FirstIn(S, start, capacity) = Probe(start, least, capacity)
  BY DEF FirstIn, Slots
<1>5. \A e \in Slots(capacity) : e < least => e \notin dist
  <2>1. least \in Int /\ \A e \in Slots(capacity) : e \in Int
    BY <1>1, <1>3 DEF Slots
  <2> HIDE DEF dist, least
  <2> QED BY <1>3, <2>1
<1> HIDE DEF least
<1> QED BY <1>3, <1>4, <1>5

(* No slot of V lies on the path from start before it comes to i.          *)
Clear(V, start, i, capacity) ==
  \A d, e \in Slots(capacity) :
    Probe(start, d, capacity) = i /\ e < d => Probe(start, e, capacity) \notin V

(* A probe that stops at vacant slots (V) and at those that hold the key   *)
(* (K) ends at one of the latter, if there is any in front of which no     *)
(* slot is vacant.                                                         *)
LEMMA ChainFinds ==
  ASSUME NEW capacity \in Nat \ {0}, NEW start \in Slots(capacity),
         NEW V \in SUBSET Slots(capacity), NEW K \in SUBSET Slots(capacity),
         NEW i \in K, Clear(V, start, i, capacity)
  PROVE  FirstIn(V \cup K, start, capacity) \in K
<1>1. PICK stop \in Slots(capacity) :
        /\ FirstIn(V \cup K, start, capacity) = Probe(start, stop, capacity)
        /\ Probe(start, stop, capacity) \in V \cup K
        /\ \A e \in Slots(capacity) : e < stop => Probe(start, e, capacity) \notin V \cup K
  <2>1. V \cup K \in SUBSET Slots(capacity) /\ V \cup K # {}
    OBVIOUS
  <2> QED BY <2>1, FirstInIsFirst
<1>2. PICK d \in Slots(capacity) : Probe(start, d, capacity) = i
  BY ProbeOnto
<1>3. stop \in Int /\ d \in Int
  BY DEF Slots
<1>4. ~(d < stop)
  BY <1>1, <1>2
<1>5. CASE stop < d
  BY <1>1, <1>2, <1>5 DEF Clear
<1>6. CASE stop = d
  BY <1>1, <1>2, <1>6
<1> QED BY <1>3, <1>4, <1>5, <1>6

(* A probe that would stop at a slot of P anyway does so when it stops at  *)
(* fewer other slots.                                                      *)
LEMMA FirstInSubset ==
  ASSUME NEW capacity \in Nat \ {0}, NEW start \in Slots(capacity),
         NEW S \in SUBSET Slots(capacity), NEW P \in SUBSET S,
         FirstIn(S, start, capacity) \in P
  PROVE  FirstIn(P, start, capacity) = FirstIn(S, start, capacity)
<1>1. PICK d \in Slots(capacity) :
        /\ FirstIn(S, start, capacity) = Probe(start, d, capacity)
        /\ \A e \in Slots(capacity) : e < d => Probe(start, e, capacity) \notin S
  <2>1. S # {}
    OBVIOUS
  <2> QED BY <2>1, FirstInIsFirst
<1>2. PICK f \in Slots(capacity) :
        /\ FirstIn(P, start, capacity) = Probe(start, f, capacity)
        /\ FirstIn(P, start, capacity) \in P
        /\ \A e \in Slots(capacity) : e < f => Probe(start, e, capacity) \notin P
  <2>1. P \in SUBSET Slots(capacity) /\ P # {}
    OBVIOUS
  <2> QED BY <2>1, FirstInIsFirst
<1>3. d \in Int /\ f \in Int
  BY DEF Slots
<1>4. Probe(start, f, capacity) \in S
  BY <1>2
<1>5. Probe(start, d, capacity) \in P
  BY <1>1
<1>6. ~(f < d)
  BY <1>1, <1>4
<1>7. ~(d < f)
  BY <1>2, <1>5
<1>8. d = f
  BY <1>3, <1>6, <1>7
<1> QED BY <1>1, <1>2, <1>8

=============================================================================
