------------------------------- MODULE Vector -------------------------------
(***************************************************************************)
(* The dynamic array of linear.c on a heap: creation, copying, growth      *)
(* through realloc, and the pointers into the buffer that vectorGetAt,     *)
(* vectorUpdate and vectorToArr hand to the client.  One action per call.  *)
(*                                                                         *)
(* The client has one variable per Handle and remembers the last pointer a *)
(* call gave it.  A Datum is the value of one element of DATA_SIZE bytes,  *)
(* Garbage that of one nobody has written.  A call that dereferences a     *)
(* null vector, writes outside of a block or comes to an undefined shift   *)
(* has the result Undefined, and the client makes no further call; where   *)
(* the code may go on regardless, that is another outcome of the call.     *)
(***************************************************************************)
EXTENDS Common, Sequences, FiniteSets

CONSTANTS
  Datum, Handle,
  Buffer,         \* the addresses malloc and realloc choose from
  NULL, Garbage, Undefined,
  DATA_SIZE,      \* the bytes of one element
  MinCapacity,    \* the minimum capacities a client may ask for
  Arrays,         \* the arrays it may create a vector from
  Index           \* the indices it may ask for

ASSUME VectorAssumption ==
  /\ NULL \notin Datum \cup Buffer
  /\ NULL \notin [capacity : Nat, length : Nat, container : Buffer]
  /\ \A n \in 0 .. SizeSpan, base \in {0, 1} :
       NULL \notin [base .. base + n - 1 -> Datum \cup {Garbage}]
  /\ Garbage \notin Datum
  /\ Undefined \notin BOOLEAN
  /\ DATA_SIZE \in Nat \ {0}
  /\ MinCapacity \subseteq Nat
  /\ Arrays \subseteq Seq(Datum)
  /\ \A arr \in Arrays : Len(arr) * DATA_SIZE < Pow2[MAX_POW2 - 1]
  /\ Index \subseteq Nat

VARIABLES
  vec,    \* for each handle the struct Vector, or NULL
  heap,   \* the elements of each buffer, NULL for one that is not allocated
  ptr,    \* the pointer the client got last: a buffer and an index, or NULL
  ret     \* the call made last, the element it was about, and its result

vars == <<vec, heap, ptr, ret>>

-----------------------------------------------------------------------------
(* The allocator.                                                          *)

Live(b) == heap[b] # NULL

(* malloc and realloc take a number of bytes, which wraps in cds_size.     *)
Bytes(capacity) == (capacity * DATA_SIZE) % SizeSpan

Wraps(capacity) == capacity * DATA_SIZE >= SizeSpan

(* The whole elements that fit into the bytes asked for.                   *)
Room(capacity) == Bytes(capacity) \div DATA_SIZE

Blank(capacity) == [i \in 0 .. Room(capacity) - 1 |-> Garbage]

(* p points to an element of an allocated buffer of the heap m.            *)
Points(m, p) == m[p.buffer] # NULL /\ p.index \in DOMAIN m[p.buffer]

(* What reading through p may find: outside of every buffer, any bytes.    *)
Read(m, p) == IF Points(m, p) THEN {m[p.buffer][p.index]} ELSE Datum

-----------------------------------------------------------------------------
(* The API.                                                                *)

Init ==
  /\ vec = [h \in Handle |-> NULL]
  /\ heap = [b \in Buffer |-> NULL]
  /\ ptr = NULL
  /\ ret = [call |-> "none", at |-> NULL, result |-> NULL]

ReturnsAt(call, h, index, result) ==
  ret' = [call |-> call, at |-> <<h, index>>, result |-> result]

Returns(call, result) == ret' = [call |-> call, at |-> NULL, result |-> result]

(* vectorPrepend of data, or of an element with its place.                 *)
Adds(at, result) ==
  ret' = [call |-> "vectorPrepend", at |-> at, result |-> result]

Ready == ret.result # Undefined

(* A call that does what is undefined.                                     *)
Fault(call) ==
  /\ Returns(call, Undefined)
  /\ UNCHANGED <<vec, heap, ptr>>

Refuse(call, result) ==
  /\ Returns(call, result)
  /\ UNCHANGED <<vec, heap, ptr>>

(* vectorCreate, with the elements its caller then moves into the buffer.  *)
New(h, min_capacity, arr) ==
  /\ min_capacity # 0
  /\ \E capacity \in Capacities(min_capacity), b \in Buffer :
       /\ ~Live(b)
       /\ Allocatable(Bytes(capacity))
       /\ Len(arr) <= Room(capacity)
       /\ vec' = [vec EXCEPT ![h] = [capacity |-> capacity, length |-> Len(arr),
                                     container |-> b]]
       /\ heap' = [heap EXCEPT ![b] =
                     [i \in 0 .. Room(capacity) - 1 |->
                        IF i < Len(arr) THEN arr[i + 1] ELSE Garbage]]
  /\ UNCHANGED ptr

(* vectorCreate shifts by too much, or its caller moves more elements into *)
(* the buffer than it has room for.                                        *)
Overruns(min_capacity, arr) ==
  /\ min_capacity # 0
  /\ \/ ShiftUndefined(min_capacity)
     \/ \E capacity \in Capacities(min_capacity) :
          Allocatable(Bytes(capacity)) /\ Len(arr) > Room(capacity)

VectorCreate(h, min_capacity) ==
  /\ Ready /\ vec[h] = NULL
  /\ \/ Refuse("vectorCreate", FALSE)
     \/ Overruns(min_capacity, <<>>) /\ Fault("vectorCreate")
     \/ New(h, min_capacity, <<>>) /\ Returns("vectorCreate", TRUE)

(* A null array leaves the new vector empty.                               *)
VectorFromArray(h, arr) ==
  /\ Ready /\ vec[h] = NULL
  /\ \/ Refuse("vectorFromArray", FALSE)
     \/ Overruns(Len(arr), arr) /\ Fault("vectorFromArray")
     \/ /\ \/ New(h, Len(arr), arr)
           \/ New(h, Len(arr), <<>>)
        /\ Returns("vectorFromArray", TRUE)

(* The result of vectorCreate is not checked.                              *)
VectorFromValues(h, values) ==
  /\ Ready /\ vec[h] = NULL
  /\ \/ Fault("vectorFromValues")
     \/ New(h, Len(values), values) /\ Returns("vectorFromValues", TRUE)

(* Mutant: a copy that shares the buffer of the original.                  *)
VectorCopyShallow(h, source) ==
  /\ Ready /\ vec[h] = NULL
  /\ vec[source] # NULL
  /\ vec' = [vec EXCEPT ![h] = vec[source]]
  /\ Returns("vectorCopy", TRUE)
  /\ UNCHANGED <<heap, ptr>>

VectorCopy(h, source) ==
  /\ Ready /\ vec[h] = NULL
  /\ \/ vec[source] = NULL /\ Fault("vectorCopy")
     \/ vec[source] # NULL /\ Refuse("vectorCopy", FALSE)
     \/ /\ vec[source] # NULL
        /\ \E b \in Buffer :
             /\ ~Live(b)
             /\ vec' = [vec EXCEPT ![h] = [vec[source] EXCEPT !.container = b]]
             /\ heap' = [heap EXCEPT ![b] =
                  [i \in DOMAIN Blank(vec[source].capacity) |->
                     IF i < vec[source].length
                     THEN heap[vec[source].container][i] ELSE Garbage]]
        /\ Returns("vectorCopy", TRUE)
        /\ UNCHANGED ptr

VectorDelete(h) ==
  /\ Ready
  /\ \/ vec[h] = NULL /\ Refuse("vectorDelete", NULL)
     \/ /\ vec[h] # NULL
        /\ vec' = [vec EXCEPT ![h] = NULL]
        /\ heap' = [heap EXCEPT ![vec[h].container] = NULL]
        /\ Returns("vectorDelete", NULL)
        /\ UNCHANGED ptr

(* Mutant: the index just past the elements is accepted.                   *)
CheckIndexLoose(h, index) == vec[h] # NULL /\ index <= vec[h].length

CheckIndex(h, index) == vec[h] # NULL /\ index < vec[h].length

Pointer(h, index) == [buffer |-> vec[h].container, index |-> index]

(* The result is what the pointer shows when the call returns.             *)
VectorGetAt(h, index) ==
  /\ Ready
  /\ \/ /\ ~CheckIndex(h, index)
        /\ ptr' = NULL
        /\ ReturnsAt("vectorGetAt", h, index, NULL)
     \/ /\ CheckIndex(h, index)
        /\ ptr' = Pointer(h, index)
        /\ \E data \in Read(heap, ptr') : ReturnsAt("vectorGetAt", h, index, data)
  /\ UNCHANGED <<vec, heap>>

VectorToArr(h) ==
  /\ Ready
  /\ \/ vec[h] = NULL /\ Fault("vectorToArr")
     \/ /\ vec[h] # NULL
        /\ ptr' = Pointer(h, 0)
        /\ Returns("vectorToArr", TRUE)
        /\ UNCHANGED <<vec, heap>>

(* The contents after realloc, which keeps the elements of the old buffer. *)
Reallocated(old, capacity) ==
  [i \in DOMAIN Blank(capacity) |-> IF i \in DOMAIN old THEN old[i] ELSE Garbage]

(* Mutant: the struct keeps the old capacity.                              *)
ExpandedUnrecorded(v) ==
  LET capacity == Double(v.capacity)
      grown == Reallocated(heap[v.container], capacity)
  IN  {[struct |-> v, memory |-> heap]} \cup
      IF /\ ExpansionDue(v.capacity, v.length)
         /\ capacity > v.capacity
         /\ Allocatable(Bytes(capacity))
      THEN {[struct |-> [v EXCEPT !.container = b],
             memory |-> [[heap EXCEPT ![v.container] = NULL] EXCEPT ![b] = grown]] :
              b \in {c \in Buffer : ~Live(c)} \cup {v.container}}
      ELSE {}

(* The structs and heaps _vectorExpand may leave: the old ones when there  *)
(* is no need, the doubled capacity overflows or realloc fails; a larger   *)
(* buffer in place; or one that has moved, the old one being freed.  The   *)
(* number of bytes never wraps here, so that realloc never gets a zero:    *)
(* see CapacityBacked.                                                     *)
Expanded(v) ==
  LET capacity == Double(v.capacity)
      grown == Reallocated(heap[v.container], capacity)
  IN  {[struct |-> v, memory |-> heap]} \cup
      IF /\ ExpansionDue(v.capacity, v.length)
         /\ capacity > v.capacity
         /\ Allocatable(Bytes(capacity))
      THEN {[struct |-> [v EXCEPT !.capacity = capacity, !.container = b],
             memory |-> [[heap EXCEPT ![v.container] = NULL] EXCEPT ![b] = grown]] :
              b \in {c \in Buffer : ~Live(c)} \cup {v.container}}
      ELSE {}

(* Mutant: the capacity is not looked at again after the expansion.        *)
FitsUnchecked(v) == TRUE

Fits(v) == v.length + 1 <= v.capacity

(* Mutant: the element is counted before it is stored.                     *)
PrependedCountedFirst(h, grown, data, at) ==
  LET v == grown.struct
      slots == DOMAIN grown.memory[v.container]
  IN  /\ \/ /\ ~Fits(v)
            /\ vec' = [vec EXCEPT ![h] = v]
            /\ heap' = grown.memory
            /\ Adds(at, FALSE)
         \/ /\ Fits(v) /\ v.length + 1 \in slots
            /\ vec' = [vec EXCEPT ![h] = [v EXCEPT !.length = v.length + 1]]
            /\ heap' = [grown.memory EXCEPT ![v.container][v.length + 1] = data]
            /\ Adds(at, TRUE)
         \/ /\ Fits(v) /\ v.length + 1 \notin slots
            /\ Adds(at, Undefined)
            /\ UNCHANGED <<vec, heap>>
      /\ UNCHANGED ptr

(* The slot just behind the elements takes the data, if the buffer has it. *)
Prepended(h, grown, data, at) ==
  LET v == grown.struct
      slots == DOMAIN grown.memory[v.container]
  IN  /\ \/ /\ ~Fits(v)
            /\ vec' = [vec EXCEPT ![h] = v]
            /\ heap' = grown.memory
            /\ Adds(at, FALSE)
         \/ /\ Fits(v) /\ v.length \in slots
            /\ vec' = [vec EXCEPT ![h] = [v EXCEPT !.length = v.length + 1]]
            /\ heap' = [grown.memory EXCEPT ![v.container][v.length] = data]
            /\ Adds(at, TRUE)
         \/ /\ Fits(v) /\ v.length \notin slots
            /\ Adds(at, Undefined)
            /\ UNCHANGED <<vec, heap>>
      /\ UNCHANGED ptr

(* Data from outside of every vector.                                      *)
VectorPrepend(h, data) ==
  /\ Ready
  /\ \/ vec[h] = NULL /\ Fault("vectorPrepend")
     \/ /\ vec[h] # NULL
        /\ \E grown \in Expanded(vec[h]) : Prepended(h, grown, data, <<h, data>>)

(* p points to an element of the vector v.                                 *)
ElementOf(p, v) == v # NULL /\ p.buffer = v.container /\ p.index < v.length

(* Data from an element the client has a good pointer to, of this vector   *)
(* or another.  It is read after the expansion, which may have freed the   *)
(* buffer it is in: then it is whatever is found there, or worse.          *)
VectorPrependElement(h) ==
  /\ Ready /\ vec[h] # NULL
  /\ ptr # NULL
  /\ \E source \in Handle, grown \in Expanded(vec[h]) :
       LET at == <<h, source, ptr.index>>
       IN  /\ ElementOf(ptr, vec[source])
           /\ \/ \E data \in Read(grown.memory, ptr) : Prepended(h, grown, data, at)
              \/ /\ ~Points(grown.memory, ptr) /\ Fits(grown.struct)
                 /\ Adds(at, Undefined)
                 /\ UNCHANGED <<vec, heap, ptr>>

(* The pointer returned is the one to the slot that was overwritten.       *)
VectorUpdate(h, data, index) ==
  /\ Ready
  /\ \/ /\ ~CheckIndex(h, index)
        /\ ptr' = NULL
        /\ ReturnsAt("vectorUpdate", h, index, NULL)
        /\ UNCHANGED <<vec, heap>>
     \/ /\ CheckIndex(h, index)
        /\ heap' = [heap EXCEPT ![vec[h].container][index] = data]
        /\ ptr' = Pointer(h, index)
        /\ ReturnsAt("vectorUpdate", h, index, data)
        /\ UNCHANGED vec

(* The program has stopped.                                                *)
Stopped ==
  /\ ~Ready
  /\ UNCHANGED vars

Next ==
  \/ \E h \in Handle, min_capacity \in MinCapacity : VectorCreate(h, min_capacity)
  \/ \E h \in Handle, arr \in Arrays : VectorFromArray(h, arr)
  \/ \E h \in Handle, values \in Arrays : VectorFromValues(h, values)
  \/ \E h, source \in Handle : VectorCopy(h, source)
  \/ \E h \in Handle : VectorDelete(h)
  \/ \E h \in Handle, index \in Index : VectorGetAt(h, index)
  \/ \E h \in Handle : VectorToArr(h)
  \/ \E h \in Handle, data \in Datum : VectorPrepend(h, data)
  \/ \E h \in Handle : VectorPrependElement(h)
  \/ \E h \in Handle, data \in Datum, index \in Index :
       VectorUpdate(h, data, index)
  \/ Stopped

Spec == Init /\ [][Next]_vars

-----------------------------------------------------------------------------
(* Properties.                                                             *)

Held == {h \in Handle : vec[h] # NULL}

(* Every variable has its type, no vector is longer than its capacity, and *)
(* no call hands out an element nobody has written.                        *)
TypeOK ==
  /\ \A h \in Held :
       /\ vec[h] \in [capacity : Nat \ {0}, length : Nat, container : Buffer]
       /\ vec[h].length <= vec[h].capacity
  /\ \A b \in Buffer : Live(b) =>
       heap[b] \in [DOMAIN heap[b] -> Datum \cup {Garbage}]
  /\ ptr \in {NULL} \cup [buffer : Buffer, index : Nat]
  /\ ret.result \in BOOLEAN \cup Datum \cup {NULL, Undefined}

(* Each vector has a live buffer of its own.                               *)
Separate ==
  /\ \A h \in Held : Live(vec[h].container)
  /\ \A h, g \in Held : vec[h].container = vec[g].container => h = g

(* Ownership: the live buffers and the vectors correspond one to one, so   *)
(* that no copy, growth or deletion leaks a buffer, frees one twice or     *)
(* leaves two vectors on the same elements.                                *)
OwnBuffers ==
  /\ Separate
  /\ \A b \in Buffer : Live(b) => \E h \in Held : vec[h].container = b

(* linear.h:57 and 130: the capacity of a vector is the number of elements *)
(* its buffer can take, unless capacity * data_size wrapped when it was    *)
(* created.  From then on no growth or copy can make it wrap, although     *)
(* _vectorExpand looks at the capacity and not at the product.             *)
Backed(h) == DOMAIN heap[vec[h].container] = 0 .. vec[h].capacity - 1

CapacityBacked ==
  [][\A h \in Handle :
       /\ vec'[h] # NULL
       /\ IF vec[h] = NULL THEN ~Wraps(vec'[h].capacity) ELSE Backed(h)
       => Backed(h)']_vars

Into(p, v) == v # NULL /\ p.buffer = v.container /\ p.index < v.capacity

(* A pointer that vectorGetAt, vectorUpdate or vectorToArr returned stays  *)
(* good until its vector is deleted or has changed its capacity: what the  *)
(* client can observe with vectorCapacity is enough to know.               *)
PointerStable ==
  [][\A h \in Handle :
       /\ ptr # NULL /\ ptr' = ptr
       /\ Into(ptr, vec[h])
       /\ vec'[h] # NULL /\ vec'[h].capacity = vec[h].capacity
       => Into(ptr, vec'[h])]_vars

(* An element given to vectorPrepend is the one that is added, whatever    *)
(* vector it is in, as long as the vector it is added to does not grow in  *)
(* that very call.  An element of another vector is added even then.       *)
ElementKept ==
  [][\A h \in Handle :
       /\ VectorPrependElement(h) /\ ret'.result = TRUE
       /\ vec'[h].capacity = vec[h].capacity \/ ~ElementOf(ptr, vec[h])
       => heap'[vec'[h].container][vec[h].length] = heap[ptr.buffer][ptr.index]]_vars

(* The vectors implement ValueLists: whatever moves in the heap, each is   *)
(* the list of the values put into it.                                     *)
Elements(h) ==
  IF vec[h] = NULL THEN NULL
  ELSE [i \in 1 .. vec[h].length |-> heap[vec[h].container][i - 1]]

(* The handles whose vector has less room than its capacity says.          *)
Short == [h \in Handle |-> vec[h] # NULL /\ Wraps(vec[h].capacity)]

(* The requests a creator has no good capacity for, and yet an answer.     *)
Unsafe ==
  {n \in 1 .. SizeSpan - 1 :
     \/ ShiftUndefined(n)
     \/ \E capacity \in Capacities(n) :
          Wraps(capacity) /\ Allocatable(Bytes(capacity))}

Overlarge == (MinCapacity \cup {Len(arr) : arr \in Arrays}) \cap Unsafe # {}

Lists == INSTANCE ValueLists WITH
  lists <- [h \in Handle |-> Elements(h)], short <- Short

ImplementsLists == Lists!Spec

=============================================================================
