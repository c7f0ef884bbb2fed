------------------------------- MODULE Common -------------------------------
(***************************************************************************)
(* The sizing arithmetic every container of the library shares: common.c,  *)
(* common.h and the capacity prologue of the three creators.               *)
(*                                                                         *)
(* cds_size is an unsigned integer of MAX_POW2 bits (_MAX_POW2_ is 64 or   *)
(* 32 in the source) and int has INT_BITS bits (32), so the 64-bit build   *)
(* has INT_BITS < MAX_POW2 and the 32-bit build INT_BITS = MAX_POW2.  The  *)
(* model checker runs the same definitions with both widths scaled down.   *)
(***************************************************************************)
EXTENDS Integers

CONSTANTS
  MAX_POW2,   \* width in bits of cds_size
  INT_BITS    \* width in bits of int, the type of the literal 1 in 1 << pow

ASSUME WidthAssumption ==
  /\ MAX_POW2 \in Nat \ {0, 1}
  /\ INT_BITS \in 2 .. MAX_POW2

(* A recursive function, so that the prover can unfold it.                 *)
Pow2[n \in 0 .. MAX_POW2] == IF n = 0 THEN 1 ELSE 2 * Pow2[n - 1]

(* cds_size arithmetic is modulo SizeSpan.                                 *)
SizeSpan == Pow2[MAX_POW2]

(* Mutant: growth by half.                                                 *)
GrowByHalf(capacity) == (capacity + capacity \div 2) % SizeSpan

(* capacity << 1, in cds_size.                                             *)
Double(capacity) == (2 * capacity) % SizeSpan

(* _log2: the loop leaves with the first log at which x >> log is zero.  A *)
(* request with its top bit set reaches x >> 64, a shift by the width,     *)
(* which is undefined: the loop may leave there or one round later.        *)
Log2(x) ==
  LET exits == {log \in 1 .. MAX_POW2 - 1 : x < Pow2[log]}
  IN  IF exits # {}
      THEN {(CHOOSE log \in exits : \A l \in exits : log <= l) - 1}
      ELSE {MAX_POW2 - 1, MAX_POW2}

(* 1 << pow, computed in int and then widened to cds_size.  At pow =       *)
(* INT_BITS-1 compilers set the sign bit and the widening copies it        *)
(* upwards.  Beyond that the shift is undefined: the shift instruction     *)
(* takes the count modulo the width, as here, and what else may happen is  *)
(* up to the caller of this operator, see ShiftUndefined.                  *)
IntShift(pow) ==
  LET count == pow % INT_BITS
  IN  IF count = INT_BITS - 1 THEN SizeSpan - Pow2[count] ELSE Pow2[count]

(* The exponents a creator goes on with: it refuses those that do not fit. *)
Exponents(min_capacity) ==
  {pow \in {log + 1 : log \in Log2(min_capacity)} : pow < MAX_POW2}

(* The capacities a creator may settle on for a requested minimum; none    *)
(* when the exponent does not fit, in which case the creator returns NULL. *)
Capacities(min_capacity) == {IntShift(pow) : pow \in Exponents(min_capacity)}

(* The creator comes to a shift that is undefined.                         *)
ShiftUndefined(min_capacity) == \E pow \in Exponents(min_capacity) : pow >= INT_BITS

(* Every allocator refuses half of the address space (PTRDIFF_MAX) or more.*)
Allocatable(size) == size < Pow2[MAX_POW2 - 1]

(* The threshold _EXPANSION_RATE_CHECK = 0.85: capacity * 0.85 <= count.   *)
ExpansionDue(capacity, count) == 85 * capacity <= 100 * count

=============================================================================
