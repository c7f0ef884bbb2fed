------------------------------- MODULE SLList -------------------------------
(***************************************************************************)
(* The singly linked list of linear.c: its nodes on a heap, the two ends   *)
(* the struct points to, and the length it records.  One action per call.  *)
(*                                                                         *)
(* A node stores the pointer the client passes; Datum are such pointers    *)
(* and NULL stands for a null one.  A call that dereferences a null        *)
(* pointer has the result Undefined, and the client makes no further call. *)
(* sllDelete frees the nodes and not the struct, so that the client may go *)
(* on with the list it has deleted, or create one in its place.            *)
(***************************************************************************)
EXTENDS Common, FiniteSets

CONSTANTS
  Datum,
  Node,           \* the addresses malloc chooses from
  NULL, Undefined

ASSUME SLListAssumption ==
  /\ NULL \notin Datum \cup Node
  /\ NULL \notin [length : Nat, head : Node \cup {NULL}, tail : Node \cup {NULL}]
  /\ NULL \notin [data : Datum, next : Node \cup {NULL}]
  /\ IsFiniteSet(Node)

VARIABLES
  list,    \* the struct SLList, NULL when the client holds none
  node,    \* the SLLNode at each address, NULL where none is allocated
  ret      \* the call made last and its result

vars == <<list, node, ret>>

Live == {n \in Node : node[n] # NULL}

(* The node reached from n by following next i times.                      *)
Reached(n) ==
  LET at[i \in 0 .. Cardinality(Node)] ==
        IF i = 0 THEN n ELSE IF at[i - 1] = NULL THEN NULL ELSE node[at[i - 1]].next
  IN  at

(* The nodes of the list.                                                  *)
Chain == {n \in Live : \E i \in 0 .. Cardinality(Node) : Reached(list.head)[i] = n}

(* length is a cds_size.                                                   *)
Counted(length) == (length + 1) % SizeSpan

-----------------------------------------------------------------------------
(* The API.                                                                *)

Init ==
  /\ list = NULL
  /\ node = [n \in Node |-> NULL]
  /\ ret = [call |-> "none", result |-> NULL]

Ready == ret.result # Undefined

Returns(call, result) == ret' = [call |-> call, result |-> result]

Unchanged(call, result) == Returns(call, result) /\ UNCHANGED <<list, node>>

(* malloc fails, or gives a struct.                                        *)
SllCreate ==
  /\ Ready
  /\ list # NULL => list.head = NULL
  /\ list' \in {NULL, [length |-> 0, head |-> NULL, tail |-> NULL]}
  /\ Returns("sllCreate", list' # NULL)
  /\ UNCHANGED node

(* Mutant: head still points to the first node.                            *)
EmptiedKeepsHead == list

(* tail and length stay as they are.                                       *)
Emptied == [list EXCEPT !.head = NULL]

SllDelete ==
  /\ Ready
  /\ \/ list = NULL /\ Unchanged("sllDelete", Undefined)
     \/ /\ list # NULL
        /\ list' = Emptied
        /\ node' = [n \in Node |-> IF n \in Chain THEN NULL ELSE node[n]]
        /\ Returns("sllDelete", NULL)

(* Mutant: the new node does not point to the old head.                    *)
PushFrontUnlinked(data) ==
  \E n \in Node \ Live :
    /\ node' = [node EXCEPT ![n] = [data |-> data, next |-> NULL]]
    /\ list' = [list EXCEPT !.head = n, !.length = Counted(@),
                            !.tail = IF list.head = NULL THEN n ELSE @]

(* Mutant: tail follows every new head.                                    *)
PushFrontMovesTail(data) ==
  \E n \in Node \ Live :
    /\ node' = [node EXCEPT ![n] = [data |-> data, next |-> list.head]]
    /\ list' = [list EXCEPT !.head = n, !.length = Counted(@), !.tail = n]

PushFront(data) ==
  \E n \in Node \ Live :
    /\ node' = [node EXCEPT ![n] = [data |-> data, next |-> list.head]]
    /\ list' = [list EXCEPT !.head = n, !.length = Counted(@),
                            !.tail = IF list.head = NULL THEN n ELSE @]

(* Refused for null data and when malloc fails.                            *)
SllPrepend(data) ==
  /\ Ready
  /\ \/ list = NULL /\ Unchanged("sllPrepend", Undefined)
     \/ list # NULL /\ Unchanged("sllPrepend", FALSE)
     \/ /\ list # NULL /\ data # NULL
        /\ PushFront(data)
        /\ Returns("sllPrepend", TRUE)

(* Mutant: tail stays where it was.                                        *)
PushBackBehind(data) ==
  \E n \in Node \ Live :
    /\ node' = [node EXCEPT ![n] = [data |-> data, next |-> NULL],
                            ![list.tail].next = n]
    /\ UNCHANGED list

(* Behind a known tail; the length is not counted.                         *)
PushBack(data) ==
  \E n \in Node \ Live :
    /\ node' = [node EXCEPT ![n] = [data |-> data, next |-> NULL],
                            ![list.tail].next = n]
    /\ list' = [list EXCEPT !.tail = n]

(* The result of the allocation is not checked: when it fails tail becomes *)
(* a null pointer, which the next append dereferences.                     *)
LoseTail ==
  /\ node' = [node EXCEPT ![list.tail].next = NULL]
  /\ list' = [list EXCEPT !.tail = NULL]

SllAppend(data) ==
  /\ Ready
  /\ \/ list = NULL /\ Unchanged("sllAppend", Undefined)
     \/ /\ list # NULL
        /\ list.head = NULL \/ data = NULL
        /\ Unchanged("sllAppend", FALSE)
     \/ /\ list # NULL /\ data # NULL
        /\ \/ list.head = NULL /\ PushFront(data) /\ Returns("sllAppend", TRUE)
           \/ /\ list.head # NULL /\ list.tail = NULL
              /\ Unchanged("sllAppend", Undefined)
           \/ /\ list.head # NULL /\ list.tail # NULL
              /\ PushBack(data) \/ LoseTail
              /\ Returns("sllAppend", TRUE)

(* The program has stopped.                                                *)
Stopped ==
  /\ ~Ready
  /\ UNCHANGED vars

Next ==
  \/ SllCreate
  \/ SllDelete
  \/ \E data \in Datum \cup {NULL} : SllPrepend(data)
  \/ \E data \in Datum \cup {NULL} : SllAppend(data)
  \/ Stopped

Spec == Init /\ [][Next]_vars

-----------------------------------------------------------------------------
(* Properties.                                                             *)

(* The struct and the nodes have their types, and neither head nor a next  *)
(* points to memory that has been freed (tail may, in an empty list).      *)
TypeOK ==
  /\ \/ list = NULL
     \/ list \in [length : 0 .. SizeSpan - 1, head : Live \cup {NULL},
                  tail : Node \cup {NULL}]
  /\ \A n \in Live : node[n] \in [data : Datum, next : Live \cup {NULL}]
  /\ ret.result \in BOOLEAN \cup {NULL, Undefined}

(* The chain from head ends and holds all nodes that are allocated: no     *)
(* call closes a cycle, loses a node or frees one twice.                   *)
ChainExact ==
  IF list = NULL THEN Live = {}
  ELSE /\ Chain = Live
       /\ Reached(list.head)[Cardinality(Live)] = NULL

(* In a list that is not empty tail is its last node, unless an append had *)
(* no memory; it is never a node that was freed or one in the middle.      *)
TailIsLast ==
  list # NULL /\ list.head # NULL /\ list.tail # NULL =>
    list.tail \in Chain /\ node[list.tail].next = NULL

(* The list implements AppendList, which says what each call adds, when an *)
(* element is silently dropped and when a call crashes.                    *)
Items ==
  [i \in 1 .. Cardinality(Chain) |-> node[Reached(list.head)[i - 1]].data]

Abstract == INSTANCE AppendList WITH
  open <- list # NULL,
  items <- IF list = NULL THEN <<>> ELSE Items,
  length <- IF list = NULL THEN 0 ELSE list.length,
  torn <- list # NULL /\ list.head # NULL /\ list.tail = NULL

ImplementsAppendList == Abstract!Spec

=============================================================================
