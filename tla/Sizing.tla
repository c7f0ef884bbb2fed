------------------------------- MODULE Sizing -------------------------------
(***************************************************************************)
(* How a creator turns a requested minimum into a capacity, one machine    *)
(* operation per step: the loop of _log2 (common.c) and the prologue of    *)
(* htCreate, setCreate and vectorCreate, up to the allocation.  The other  *)
(* modules use the operators of Common; the invariant Agrees shows that    *)
(* those give what this loop gives.                                        *)
(***************************************************************************)
EXTENDS Common

VARIABLES
  pc,         \* "idle", "loop" (in _log2), "shift" (back in the creator),
              \* "done", or "undefined" after an undefined 1 << pow
  request,    \* min_capacity
  log,        \* the counter of _log2, then the value it returned
  capacity    \* 0 until there is one, and when the creator refuses

vars == <<pc, request, log, capacity>>

Requests == 0 .. SizeSpan - 1

Init ==
  /\ pc = "idle"
  /\ request = 0
  /\ log = 0
  /\ capacity = 0

(* htCreate and vectorCreate look at the request first; setCreate does     *)
(* not, and calls _log2(0).                                                *)
RefuseZero ==
  /\ pc = "idle"
  /\ pc' = "done"
  /\ UNCHANGED <<request, log, capacity>>

Call(min_capacity) ==
  /\ pc = "idle"
  /\ request' = min_capacity
  /\ log' = 1
  /\ pc' = "loop"
  /\ UNCHANGED capacity

(* The values x >> count may have: the shift by the full width is          *)
(* undefined, and yields zero or, where the machine takes the count modulo *)
(* the width, x itself.                                                    *)
Shifted(x, count) ==
  IF count < MAX_POW2 THEN {x \div Pow2[count]}
  ELSE {0, x \div Pow2[count - MAX_POW2]}

(* Mutant: the bound on the counter is forgotten.                          *)
LoopOnForever(bits) == bits # 0

(* The condition of the loop, the bits left over being those of x >> log.  *)
LoopOn(bits) == bits # 0 /\ log <= MAX_POW2

(* Mutant: the counter is never incremented.                               *)
NoIncrement ==
  /\ pc = "loop"
  /\ \E bits \in Shifted(request, log) :
       IF LoopOn(bits) THEN UNCHANGED <<log, pc>>
                       ELSE /\ log' = log - 1
                            /\ pc' = "shift"
  /\ UNCHANGED <<request, capacity>>

Log2Step ==
  /\ pc = "loop"
  /\ \E bits \in Shifted(request, log) :
       IF LoopOn(bits) THEN /\ log' = log + 1
                            /\ UNCHANGED pc
                       ELSE /\ log' = log - 1
                            /\ pc' = "shift"
  /\ UNCHANGED <<request, capacity>>

(* Mutant: the exponent of the request itself, one too small.              *)
ExponentTight(log2) == log2

Exponent(log2) == log2 + 1

(* Mutant: the largest exponent is refused too.                            *)
TooLargeEarly(pow) == pow >= MAX_POW2 - 1

TooLarge(pow) == pow >= MAX_POW2

(* The exponent is tested against the width of cds_size, not that of the   *)
(* int that is shifted: the shift may be undefined, and then anything may  *)
(* happen next to what the shift instruction does.                         *)
Shift ==
  /\ pc = "shift"
  /\ \/ /\ pc' = "done"
        /\ capacity' = IF TooLarge(Exponent(log)) THEN 0 ELSE IntShift(Exponent(log))
     \/ /\ ~TooLarge(Exponent(log)) /\ Exponent(log) >= INT_BITS
        /\ pc' = "undefined"
        /\ UNCHANGED capacity
  /\ UNCHANGED <<request, log>>

(* The next call starts afresh.                                            *)
Return ==
  /\ pc = "done"
  /\ pc' = "idle"
  /\ request' = 0 /\ log' = 0 /\ capacity' = 0

(* The program has stopped.                                                *)
Stopped ==
  /\ pc = "undefined"
  /\ UNCHANGED vars

Next ==
  \/ RefuseZero
  \/ \E min_capacity \in Requests : Call(min_capacity)
  \/ Log2Step
  \/ Shift
  \/ Return
  \/ Stopped

(* A call is not interrupted and a machine step always completes.          *)
Spec == Init /\ [][Next]_vars /\ WF_vars(Log2Step) /\ WF_vars(Shift)

-----------------------------------------------------------------------------

(* The counter of _log2 stays within the shifts the loop may attempt, and  *)
(* no capacity exceeds cds_size.                                           *)
TypeOK ==
  /\ pc \in {"idle", "loop", "shift", "done", "undefined"}
  /\ request \in Requests
  /\ log \in 0 .. MAX_POW2 + 1
  /\ capacity \in Requests

Powers == {Pow2[n] : n \in 0 .. MAX_POW2 - 1}

LeastPower(power, S) == power \in S /\ \A q \in S : power <= q

(* hash.h:150 and linear.c:78: the capacity is the least power of two      *)
(* larger than the minimum the client asked for.  A creator refuses a      *)
(* request (other than zero) exactly when cds_size holds no such power.    *)
(* It gives that power to every request where int is as wide as cds_size,  *)
(* and otherwise exactly to those below a quarter of the span of int:      *)
(* 1 << pow has a wrong value for all the others.                          *)
CapacityLeast ==
  pc = "done" /\ request # 0 =>
    LET larger == {q \in Powers : q > request}
    IN  IF larger = {} THEN capacity = 0
        ELSE /\ capacity # 0
             /\ LeastPower(capacity, larger) <=>
                  INT_BITS = MAX_POW2 \/ request < Pow2[INT_BITS - 2]

(* The operators that the models of the containers use allow whatever the  *)
(* loop of _log2 and the shift lead to, a request of zero, which only      *)
(* setCreate goes on with, and an undefined shift included.                *)
Agrees ==
  /\ pc = "done" =>
       IF capacity = 0 THEN request = 0 \/ \E l \in Log2(request) : l + 1 >= MAX_POW2
                       ELSE capacity \in Capacities(request)
  /\ pc = "undefined" => ShiftUndefined(request)

(* Every request is answered: the loop of _log2 ends for every value of    *)
(* the argument, including those for which a shift is undefined.           *)
Answered == pc = "loop" ~> pc \in {"done", "undefined"}

=============================================================================
