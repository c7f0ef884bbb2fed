------------------------------- MODULE Tuple --------------------------------
(***************************************************************************)
(* The tuple of linear.c and the conversions between vectors and tuples,   *)
(* on the heap that Vector models.  One action per call; the calls about   *)
(* vectors are those of Vector.  The client has one variable for a tuple   *)
(* next to its vectors.  A call that dereferences a null vector or tuple,  *)
(* or that makes a vector Vector calls undefined, has the result Undefined,*)
(* and the client makes no further call.                                   *)
(***************************************************************************)
EXTENDS Vector

ASSUME TupleAssumption ==
  NULL \notin [data_size : {0, DATA_SIZE}, length : Nat, container : Buffer]

VARIABLE tuple    \* the struct Tuple, NULL when the client holds none

tupleVars == <<vars, tuple>>

-----------------------------------------------------------------------------

TupleInit == Init /\ tuple = NULL

(* A call that leaves everything as it is.                                 *)
Unmoved(call, result) == Refuse(call, result) /\ UNCHANGED tuple

(* Mutant: the length is set before the element size is looked at.         *)
NewTupleUnsized(data_size, values) ==
  \E b \in Buffer :
    /\ ~Live(b)
    /\ tuple' = [data_size |-> data_size, length |-> Len(values), container |-> b]
    /\ heap' = [heap EXCEPT ![b] = IF data_size = 0 THEN <<>>
                                   ELSE [i \in 0 .. Len(values) - 1 |-> values[i + 1]]]
    /\ UNCHANGED vec

(* A block of its own, of no bytes for an empty tuple, whose element size  *)
(* is recorded as zero.                                                    *)
NewTuple(data_size, values) ==
  LET length == IF data_size = 0 THEN 0 ELSE Len(values)
  IN  \E b \in Buffer :
        /\ ~Live(b)
        /\ tuple' = [data_size |-> IF length = 0 THEN 0 ELSE data_size,
                     length |-> length, container |-> b]
        /\ heap' = [heap EXCEPT ![b] = [i \in 0 .. length - 1 |-> values[i + 1]]]
        /\ UNCHANGED vec

(* Two allocations, either of which may fail; malloc may also give nothing *)
(* for a block of no bytes.                                                *)
Make(call, data_size, values) ==
  /\ Ready /\ tuple = NULL
  /\ \/ Unmoved(call, FALSE)
     \/ /\ NewTuple(data_size, values)
        /\ Returns(call, TRUE)
        /\ UNCHANGED ptr

TupleCreate(data_size, values) == Make("tupleCreate", data_size, values)

(* A null array makes an empty tuple.                                      *)
TupleFromArray(arr) ==
  \/ Make("tupleFromArray", DATA_SIZE, arr)
  \/ Make("tupleFromArray", DATA_SIZE, <<>>)

Values(s) == [i \in 1 .. s.length |-> heap[s.container][i - 1]]

VectorToTuple(h) ==
  \/ Ready /\ tuple = NULL /\ vec[h] = NULL /\ Unmoved("vectorToTuple", Undefined)
  \/ vec[h] # NULL /\ Make("vectorToTuple", DATA_SIZE, Values(vec[h]))

(* The new vector is made by vectorFromArray, which refuses a length of 0. *)
TupleToVector(h) ==
  /\ Ready /\ vec[h] = NULL
  /\ \/ tuple = NULL /\ Unmoved("tupleToVector", Undefined)
     \/ tuple # NULL /\ Unmoved("tupleToVector", FALSE)
     \/ /\ tuple # NULL
        /\ Overruns(tuple.length, Values(tuple))
        /\ Unmoved("tupleToVector", Undefined)
     \/ /\ tuple # NULL
        /\ New(h, tuple.length, Values(tuple))
        /\ Returns("tupleToVector", TRUE)
        /\ UNCHANGED tuple

(* Mutant: the struct is freed and its block is not.                       *)
TupleDeleteLeaky ==
  /\ Ready
  /\ tuple' = NULL
  /\ Refuse("tupleDelete", NULL)

TupleDelete ==
  /\ Ready
  /\ \/ tuple = NULL /\ Unmoved("tupleDelete", NULL)
     \/ /\ tuple # NULL
        /\ tuple' = NULL
        /\ heap' = [heap EXCEPT ![tuple.container] = NULL]
        /\ Returns("tupleDelete", NULL)
        /\ UNCHANGED <<vec, ptr>>

(* Mutant: the index just past the elements is accepted.                   *)
CheckTupleIndexLoose(index) == tuple # NULL /\ index <= tuple.length

CheckTupleIndex(index) == tuple # NULL /\ index < tuple.length

TupleGetAt(index) ==
  /\ Ready
  /\ \/ /\ ~CheckTupleIndex(index)
        /\ ptr' = NULL
        /\ ReturnsAt("tupleGetAt", NULL, index, NULL)
     \/ /\ CheckTupleIndex(index)
        /\ ptr' = [buffer |-> tuple.container, index |-> index]
        /\ \E data \in Read(heap, ptr') : ReturnsAt("tupleGetAt", NULL, index, data)
  /\ UNCHANGED <<vec, heap, tuple>>

TupleToArr ==
  /\ Ready
  /\ \/ tuple = NULL /\ Unmoved("tupleToArr", Undefined)
     \/ /\ tuple # NULL
        /\ ptr' = [buffer |-> tuple.container, index |-> 0]
        /\ Returns("tupleToArr", TRUE)
        /\ UNCHANGED <<vec, heap, tuple>>

TupleCalls ==
  \/ \E data_size \in {0, DATA_SIZE}, values \in Arrays : TupleCreate(data_size, values)
  \/ \E arr \in Arrays : TupleFromArray(arr)
  \/ \E h \in Handle : VectorToTuple(h)
  \/ \E h \in Handle : TupleToVector(h)
  \/ TupleDelete
  \/ \E index \in Index : TupleGetAt(index)
  \/ TupleToArr

TupleNext ==
  \/ TupleCalls
  \/ Next /\ UNCHANGED tuple

TupleSpec == TupleInit /\ [][TupleNext]_tupleVars

-----------------------------------------------------------------------------
(* Properties.                                                             *)

(* The tuple has its type: exactly the elements it counts are in its       *)
(* block, and it has an element size if and only if it has elements.       *)
TupleTypeOK ==
  tuple # NULL =>
    /\ tuple \in [data_size : {0, DATA_SIZE}, length : Nat, container : Buffer]
    /\ tuple.data_size = 0 <=> tuple.length = 0
    /\ DOMAIN heap[tuple.container] = 0 .. tuple.length - 1
    /\ \A i \in DOMAIN heap[tuple.container] : heap[tuple.container][i] \in Datum

Owns(s, b) == s # NULL /\ s.container = b

(* Ownership across the two kinds of container: each allocated block       *)
(* belongs to exactly one vector or tuple, so that no conversion shares a  *)
(* block, leaks one or leads to one being freed twice.                     *)
OneOwner ==
  \A b \in Buffer :
    LET vectors == {h \in Handle : Owns(vec[h], b)}
    IN  IF ~Live(b) THEN vectors = {} /\ ~Owns(tuple, b)
        ELSE IF Owns(tuple, b) THEN vectors = {}
        ELSE \E h \in Handle : vectors = {h}

(* The tuple implements FrozenLists: README.md:5 calls it immutable.       *)
(* FrozenLists says what the code does, which is not what linear.h says of *)
(* a null argument (see ConversionsDefined), and what it says nothing of:  *)
(* an empty tuple never becomes a vector.                                  *)
Frozen == INSTANCE FrozenLists WITH
  lists <- [h \in Handle |-> Elements(h)],
  short <- Short,
  frozen <- IF tuple = NULL THEN NULL ELSE Values(tuple)

ImplementsFrozenLists == Frozen!FrozenSpec

(* linear.h:148-149 and 199-200: a conversion gives the new container or,  *)
(* if unsuccessful, NULL.  Given no container to convert it does neither:  *)
(* it reads through the null pointer (linear.c:242 and 335).               *)
ConversionsDefined ==
  ret.call \in {"vectorToTuple", "tupleToVector"} => ret.result # Undefined

=============================================================================
