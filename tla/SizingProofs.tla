---------------------------- MODULE SizingProofs ----------------------------
(***************************************************************************)
(* The loop of _log2 and the shift after it, for every pair of widths and  *)
(* every request: what the loop has seen so far says which power of two it *)
(* will leave with.                                                        *)
(***************************************************************************)
EXTENDS Sizing, CommonProofs

(* The powers up to n are no larger than x.                                *)
Passed(x, n) == \A l \in 1 .. n : l < MAX_POW2 => Pow2[l] <= x

(* The loop has left with the exponent of the request.                     *)
Exact ==
  /\ log \in 0 .. MAX_POW2
  /\ Passed(request, log)
  /\ log + 1 < MAX_POW2 => request < Pow2[log + 1]

Inv ==
  /\ TypeOK
  /\ pc = "idle" => request = 0 /\ capacity = 0
  /\ pc = "loop" => log >= 1 /\ Passed(request, log - 1)
  /\ pc = "shift" => Exact
  /\ pc = "done" =>
       \/ request = 0 /\ capacity = 0
       \/ /\ Exact
          /\ capacity = IF TooLarge(Exponent(log)) THEN 0 ELSE IntShift(Exponent(log))
  /\ pc = "undefined" => Exact /\ ~TooLarge(Exponent(log)) /\ Exponent(log) >= INT_BITS

LEMMA Widths == MAX_POW2 \in Nat \ {0, 1} /\ SizeSpan \in Nat \ {0}
BY WidthAssumption, Pow2Def DEF SizeSpan

LEMMA ShiftedOut ==
  ASSUME NEW x \in Nat, NEW d \in Nat \ {0}
  PROVE  /\ x \div d \in Nat
         /\ x \div d = 0 <=> x < d
OBVIOUS

LEMMA InitInv == Init => Inv
BY Widths DEF Init, Inv, TypeOK, Requests

LEMMA StepInv ==
  ASSUME Inv, Log2Step
  PROVE  Inv'
<1>1. /\ MAX_POW2 \in Nat \ {0, 1} /\ request \in Nat
      /\ log \in 1 .. MAX_POW2 + 1 /\ Passed(request, log - 1)
  BY Widths DEF Inv, TypeOK, Requests, Log2Step
<1>2. PICK bits \in Shifted(request, log) :
        IF LoopOn(bits) THEN log' = log + 1 /\ UNCHANGED pc
                        ELSE log' = log - 1 /\ pc' = "shift"
  BY DEF Log2Step
<1>3. log < MAX_POW2 => (bits = 0 <=> request < Pow2[log])
  <2> SUFFICES ASSUME log < MAX_POW2 PROVE bits = 0 <=> request < Pow2[log]
    OBVIOUS
  <2>1. log \in 0 .. MAX_POW2
    BY <1>1
  <2>2. Pow2[log] \in Nat \ {0}
    BY <2>1, Pow2Def
  <2>3. bits = request \div Pow2[log]
    BY <1>2 DEF Shifted
  <2> QED BY <1>1, <2>2, <2>3, ShiftedOut
<1>4. log < MAX_POW2 => Pow2[log] \in Nat
  BY <1>1, Pow2Def
<1>5. request' = request /\ capacity' = capacity /\ pc = "loop"
  BY DEF Log2Step
<1>6. CASE LoopOn(bits)
  <2>1. bits # 0 /\ log <= MAX_POW2 /\ log' = log + 1 /\ pc' = "loop"
    BY <1>2, <1>5, <1>6 DEF LoopOn
  <2>2. Passed(request, log)
    <3> SUFFICES ASSUME NEW l \in 1 .. log, l < MAX_POW2 PROVE Pow2[l] <= request
      BY DEF Passed
    <3>1. CASE l = log
      BY <1>1, <1>3, <1>4, <2>1, <3>1
    <3>2. CASE l # log
      <4>1. l \in 1 .. log - 1
        BY <1>1, <3>2
      <4> QED BY <1>1, <4>1 DEF Passed
    <3> QED BY <3>1, <3>2
  <2>3. Passed(request', log' - 1)
    <3>1. log' - 1 = log
      BY <1>1, <2>1
    <3> QED BY <1>5, <2>2, <3>1 DEF Passed
  <2>4. log' >= 1 /\ log' \in 0 .. MAX_POW2 + 1
    BY <1>1, <2>1
  <2> QED BY <1>1, <1>5, <2>1, <2>3, <2>4 DEF Inv, TypeOK
<1>7. CASE ~LoopOn(bits)
  <2>1. log' = log - 1 /\ pc' = "shift"
    BY <1>2, <1>7
  <2>2. Passed(request', log')
    BY <1>1, <1>5, <2>1 DEF Passed
  <2>3. log' + 1 = log /\ log' \in 0 .. MAX_POW2
    BY <1>1, <2>1
  <2>4. log < MAX_POW2 => request < Pow2[log]
    BY <1>1, <1>3, <1>7 DEF LoopOn
  <2>5. Exact'
    BY <1>5, <2>2, <2>3, <2>4 DEF Exact
  <2> QED BY <1>1, <1>5, <2>1, <2>3, <2>5 DEF Inv, TypeOK
<1> QED BY <1>6, <1>7

LEMMA NextInv == Inv /\ [Next]_vars => Inv'
<1> SUFFICES ASSUME Inv, [Next]_vars PROVE Inv'
  OBVIOUS
<1>1. ASSUME NEW min_capacity \in Requests, Call(min_capacity) PROVE Inv'
  <2>1. \A l : l \notin 1 .. 1 - 1
    OBVIOUS
  <2> QED BY <1>1, <2>1, Widths DEF Call, Inv, TypeOK, Passed
<1>2. CASE Log2Step
  BY <1>2, StepInv
<1>3. CASE Shift
  <2>1. Exact /\ TypeOK
    BY <1>3 DEF Shift, Inv
  <2>2. Exact' /\ log' = log /\ request' = request
    BY <1>3, <2>1 DEF Shift, Exact, Passed
  <2>3. CASE pc' = "undefined"
    BY <1>3, <2>1, <2>2, <2>3 DEF Shift, Inv, TypeOK, TooLarge, Exponent
  <2>4. CASE pc' # "undefined"
    <3>1. /\ pc' = "done"
          /\ capacity' = IF TooLarge(Exponent(log)) THEN 0 ELSE IntShift(Exponent(log))
      BY <1>3, <2>4 DEF Shift
    <3>2. capacity' \in Requests
      <4>1. Exponent(log) \in Nat
        BY <2>1 DEF Exact, Exponent
      <4>2. IntShift(Exponent(log)) \in 1 .. SizeSpan - 1
        BY <4>1, IntShiftInRange
      <4> QED BY <3>1, <4>2, Widths DEF Requests
    <3> QED BY <2>1, <2>2, <3>1, <3>2 DEF Inv, TypeOK, TooLarge, Exponent
  <2> QED BY <2>3, <2>4
<1>4. CASE Return
  BY <1>4, Widths DEF Return, Inv, TypeOK, Requests
<1>5. CASE RefuseZero
  BY <1>5 DEF RefuseZero, Inv, TypeOK
<1>6. CASE Stopped \/ UNCHANGED vars
  BY <1>6 DEF Stopped, vars, Inv, TypeOK, Exact, Passed, TooLarge, Exponent
<1> QED BY <1>1, <1>2, <1>3, <1>4, <1>5, <1>6 DEF Next

LEMMA Invariance == Spec => []Inv
BY InitInv, NextInv, PTL DEF Spec

-----------------------------------------------------------------------------
(* Theorems.                                                               *)

(* The counter stays within the shifts the loop may attempt, those that    *)
(* are undefined included, and no capacity exceeds cds_size.               *)
THEOREM TypeCorrect == Spec => []TypeOK
<1>1. Inv => TypeOK
  BY DEF Inv
<1> QED BY Invariance, <1>1, PTL

LEMMA ExactIsLog2 ==
  ASSUME TypeOK, Exact
  PROVE  log \in Log2(request)
<1> DEFINE exits == {l \in 1 .. MAX_POW2 - 1 : request < Pow2[l]}
<1>1. MAX_POW2 \in Nat \ {0, 1} /\ log \in 0 .. MAX_POW2 /\ request \in Nat
  BY Widths DEF Exact, TypeOK, Requests
<1>2. \A l \in exits : log + 1 <= l
  <2> SUFFICES ASSUME NEW l \in exits, ~(log + 1 <= l) PROVE FALSE
    OBVIOUS
  <2>1. l \in 1 .. log /\ l < MAX_POW2 /\ l \in 0 .. MAX_POW2
    BY <1>1
  <2>2. Pow2[l] <= request /\ request < Pow2[l] /\ Pow2[l] \in Nat
    BY <2>1, Pow2Def DEF Exact, Passed
  <2> QED BY <1>1, <2>2
<1>3. CASE log + 1 < MAX_POW2
  <2>1. log + 1 \in exits
    BY <1>1, <1>3 DEF Exact
  <2>2. (CHOOSE l \in exits : \A k \in exits : l <= k) = log + 1
    <3>1. exits \subseteq Int
      OBVIOUS
    <3> HIDE DEF exits
    <3>2. \A l \in exits : (\A k \in exits : l <= k) => l = log + 1
      BY <1>1, <1>2, <2>1, <3>1
    <3> QED BY <1>2, <2>1, <3>2
  <2>3. Log2(request) = {(CHOOSE l \in exits : \A k \in exits : l <= k) - 1}
    BY <2>1 DEF Log2
  <2> HIDE DEF exits
  <2> QED BY <1>1, <2>2, <2>3
<1>4. CASE ~(log + 1 < MAX_POW2)
  <2>1. exits = {}
    BY <1>1, <1>2, <1>4
  <2>2. log = MAX_POW2 - 1 \/ log = MAX_POW2
    BY <1>1, <1>4
  <2> QED BY <2>1, <2>2 DEF Log2
<1> QED BY <1>3, <1>4

(* What the other modules use for a creator's prologue is what the loop    *)
(* and the shift give, in both builds, undefined shifts included.          *)
THEOREM CapacitiesAgree == Spec => []Agrees
<1>1. Inv => Agrees
  <2> SUFFICES ASSUME Inv PROVE Agrees
    OBVIOUS
  <2>1. ASSUME Exact PROVE log \in Log2(request) /\ log \in Nat /\ log + 1 \in Nat
    BY <2>1, ExactIsLog2 DEF Inv, Exact
  <2>2. ASSUME Exact, ~TooLarge(Exponent(log))
        PROVE  log + 1 \in Exponents(request)
    BY <2>1, <2>2, Widths DEF Exponents, TooLarge, Exponent
  <2>3. ASSUME pc = "done"
        PROVE  IF capacity = 0 THEN request = 0 \/ \E l \in Log2(request) : l + 1 >= MAX_POW2
                               ELSE capacity \in Capacities(request)
    <3>1. CASE request = 0 /\ capacity = 0
      BY <3>1
    <3>2. CASE ~(request = 0 /\ capacity = 0)
      <4>1. /\ Exact
            /\ capacity = IF TooLarge(Exponent(log)) THEN 0 ELSE IntShift(Exponent(log))
        BY <2>3, <3>2 DEF Inv
      <4>2. CASE TooLarge(Exponent(log))
        BY <2>1, <4>1, <4>2 DEF TooLarge, Exponent
      <4>3. CASE ~TooLarge(Exponent(log))
        <5>1. capacity = IntShift(log + 1)
          BY <4>1, <4>3 DEF Exponent
        <5>2. capacity \in 1 .. SizeSpan - 1
          BY <2>1, <4>1, <5>1, IntShiftInRange
        <5> QED BY <2>2, <4>1, <4>3, <5>1, <5>2 DEF Capacities
      <4> QED BY <4>2, <4>3
    <3> QED BY <3>1, <3>2
  <2>4. ASSUME pc = "undefined" PROVE ShiftUndefined(request)
    <3>1. Exact /\ ~TooLarge(Exponent(log)) /\ log + 1 >= INT_BITS
      BY <2>4 DEF Inv, Exponent
    <3> QED BY <2>2, <3>1 DEF ShiftUndefined
  <2> QED BY <2>3, <2>4 DEF Agrees
<1> QED BY Invariance, <1>1, PTL

(* For which requests the capacity is the least power of two above the     *)
(* request, in every build, and that a request is refused only where there *)
(* is none.                                                                *)
THEOREM LeastCapacity == Spec => []CapacityLeast
<1>1. Inv => CapacityLeast
  <2> DEFINE larger == {q \in Powers : q > request}
  <2> SUFFICES ASSUME Inv, pc = "done", request # 0
               PROVE  IF larger = {} THEN capacity = 0
                      ELSE /\ capacity # 0
                           /\ LeastPower(capacity, larger) <=>
                                INT_BITS = MAX_POW2 \/ request < Pow2[INT_BITS - 2]
    BY DEF CapacityLeast
  <2>1. /\ MAX_POW2 \in Nat \ {0, 1} /\ log \in 0 .. MAX_POW2 /\ Exact
        /\ request \in Nat \ {0} /\ INT_BITS \in 2 .. MAX_POW2
    BY Widths, WidthAssumption DEF Inv, Exact, TypeOK, Requests
  <2>2. \A n \in 0 .. MAX_POW2 - 1 : Pow2[n] > request => log + 1 <= n
    <3> SUFFICES ASSUME NEW n \in 0 .. MAX_POW2 - 1, Pow2[n] > request,
                        ~(log + 1 <= n)
                 PROVE  FALSE
      OBVIOUS
    <3>1. n # 0
      BY <2>1, Pow2Def
    <3>2. n \in 1 .. log /\ n < MAX_POW2 /\ n \in 0 .. MAX_POW2
      BY <2>1, <3>1
    <3>3. Pow2[n] <= request /\ Pow2[n] \in Nat
      BY <2>1, <3>2, Pow2Def DEF Exact, Passed
    <3> QED BY <2>1, <3>3
  <2>3. CASE log + 1 < MAX_POW2
    <3>1. log + 1 \in 1 .. MAX_POW2 - 1 /\ log + 1 \in 0 .. MAX_POW2
      BY <2>1, <2>3
    <3> DEFINE power == Pow2[log + 1]
    <3>2. power \in Nat /\ power \in larger
      BY <2>1, <2>3, <3>1, Pow2Def DEF Exact, Powers
    <3>3. \A q \in larger : q \in Nat /\ power <= q
      <4> SUFFICES ASSUME NEW n \in 0 .. MAX_POW2 - 1, Pow2[n] > request
                   PROVE  Pow2[n] \in Nat /\ power <= Pow2[n]
        BY DEF Powers
      <4>1. log + 1 <= n /\ n \in 0 .. MAX_POW2
        BY <2>1, <2>2
      <4>2. Pow2[n] \in Nat
        BY <4>1, Pow2Def
      <4>3. CASE log + 1 = n
        BY <4>2, <4>3
      <4>4. CASE log + 1 # n
        <5>1. log + 1 < n
          BY <2>1, <4>1, <4>4
        <5>2. power < Pow2[n]
          BY <3>1, <4>1, <5>1, Pow2Increasing
        <5> QED BY <3>2, <4>2, <5>2
      <4> QED BY <4>3, <4>4
    <3>4. LeastPower(capacity, larger) <=> capacity = power
      <4> HIDE DEF larger, power
      <4>1. ASSUME LeastPower(capacity, larger) PROVE capacity = power
        BY <3>2, <3>3, <4>1 DEF LeastPower
      <4>2. LeastPower(power, larger)
        BY <3>2, <3>3 DEF LeastPower
      <4> QED BY <4>1, <4>2
    <3>5. capacity = power <=> INT_BITS = MAX_POW2 \/ log + 1 <= INT_BITS - 2
      <4>1. capacity = IntShift(log + 1)
        BY <2>1, <2>3 DEF Inv, TooLarge, Exponent
      <4> QED BY <3>1, <4>1, IntShiftIsPower
    <3>6. request < Pow2[INT_BITS - 2] <=> log + 1 <= INT_BITS - 2
      <4>1. INT_BITS - 2 \in 0 .. MAX_POW2 - 1 /\ INT_BITS - 2 \in 0 .. MAX_POW2
        BY <2>1
      <4>2. Pow2[INT_BITS - 2] \in Nat
        BY <4>1, Pow2Def
      <4>3. ASSUME request < Pow2[INT_BITS - 2] PROVE log + 1 <= INT_BITS - 2
        BY <2>1, <2>2, <4>1, <4>2, <4>3
      <4>4. ASSUME log + 1 <= INT_BITS - 2 PROVE request < Pow2[INT_BITS - 2]
        <5>1. Pow2[INT_BITS - 2] \in Powers /\ request < power
          BY <3>2, <4>1 DEF Powers
        <5>2. CASE log + 1 = INT_BITS - 2
          BY <5>1, <5>2
        <5>3. CASE log + 1 # INT_BITS - 2
          <6>1. log + 1 < INT_BITS - 2
            BY <2>1, <4>4, <5>3
          <6>2. power < Pow2[INT_BITS - 2]
            BY <3>1, <4>1, <6>1, Pow2Increasing
          <6> QED BY <2>1, <3>2, <4>2, <5>1, <6>2
        <5> QED BY <5>2, <5>3
      <4> QED BY <4>3, <4>4
    <3>7. larger # {}
      BY <3>2
    <3>8. capacity # 0
      <4>1. capacity = IntShift(log + 1) /\ log + 1 \in Nat
        BY <2>1, <2>3 DEF Inv, TooLarge, Exponent
      <4> QED BY <4>1, IntShiftInRange
    <3> HIDE DEF larger, power
    <3> QED BY <3>4, <3>5, <3>6, <3>7, <3>8
  <2>4. CASE ~(log + 1 < MAX_POW2)
    <3>1. larger = {}
      BY <2>1, <2>2, <2>4 DEF Powers
    <3>2. capacity = 0
      BY <2>1, <2>4 DEF Inv, TooLarge, Exponent
    <3> QED BY <3>1, <3>2
  <2> QED BY <2>3, <2>4
<1> QED BY Invariance, <1>1, PTL

=============================================================================
