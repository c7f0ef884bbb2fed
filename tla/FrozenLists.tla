---------------------------- MODULE FrozenLists -----------------------------
(***************************************************************************)
(* What tuples add to ValueLists: one list that never changes between the  *)
(* call that makes it and the one that deletes it, whatever happens to the *)
(* vector it was made from or to the one it was copied to.                 *)
(***************************************************************************)
EXTENDS ValueLists

CONSTANT Unsafe    \* the lengths no vector of which need have room

VARIABLE frozen    \* the values of the tuple, NULL when the client holds none

frozenVars == <<vars, frozen>>

FrozenInit == Init /\ frozen = NULL

(* A failed call makes nothing.                                            *)
Freeze(call, list) ==
  /\ frozen = NULL
  /\ \/ frozen' = list /\ Returns(call, TRUE)
     \/ frozen' = NULL /\ Returns(call, FALSE)
  /\ UNCHANGED <<lists, short>>

(* Elements without a size make an empty tuple.                            *)
FreezeNew ==
  \E values \in Arrays :
    \/ Freeze("tupleCreate", values) \/ Freeze("tupleCreate", <<>>)
    \/ Freeze("tupleFromArray", values) \/ Freeze("tupleFromArray", <<>>)

FreezeVector(h) ==
  \/ Open(h) /\ Freeze("vectorToTuple", lists[h])
  \/ /\ ~Open(h)
     /\ Returns("vectorToTuple", Undefined)
     /\ UNCHANGED <<lists, short, frozen>>

(* An empty tuple never becomes a vector.                                  *)
Thaw(h) ==
  /\ ~Open(h)
  /\ \/ /\ frozen \notin {NULL, <<>>}
        /\ Becomes(h, frozen)
        /\ MayBeShort(h, Len(frozen) \in Unsafe)
        /\ Returns("tupleToVector", TRUE)
     \/ /\ frozen # NULL
        /\ UNCHANGED <<lists, short>>
        /\ Returns("tupleToVector", FALSE)
     \/ /\ frozen # NULL => Len(frozen) \in Unsafe
        /\ UNCHANGED <<lists, short>>
        /\ Returns("tupleToVector", Undefined)
  /\ UNCHANGED frozen

Discard ==
  /\ frozen' = NULL
  /\ Returns("tupleDelete", NULL)
  /\ UNCHANGED <<lists, short>>

ShowAt(index) ==
  /\ ReturnsAt("tupleGetAt", NULL, index,
       IF frozen # NULL /\ index < Len(frozen) THEN frozen[index + 1] ELSE NULL)
  /\ UNCHANGED <<lists, short, frozen>>

ShowAll ==
  /\ Returns("tupleToArr", IF frozen = NULL THEN Undefined ELSE TRUE)
  /\ UNCHANGED <<lists, short, frozen>>

FrozenNext ==
  \/ Next /\ UNCHANGED frozen
  \/ /\ Ready
     /\ \/ FreezeNew \/ Discard \/ ShowAll
        \/ \E h \in Handle : FreezeVector(h) \/ Thaw(h)
        \/ \E index \in Index : ShowAt(index)

FrozenSpec == FrozenInit /\ [][FrozenNext]_frozenVars

=============================================================================
