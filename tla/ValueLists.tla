----------------------------- MODULE ValueLists -----------------------------
(***************************************************************************)
(* What the vector API promises: independent lists of values, one per      *)
(* handle.  There is no heap and no capacity here; a call may fail for     *)
(* want of memory, and a failed call changes nothing.  All that is left of *)
(* the sizes is that a list made on too large a request may be short of    *)
(* room, so that adding to it need not end well.                           *)
(***************************************************************************)
EXTENDS Naturals, Sequences

CONSTANTS
  Datum, Handle, Index, Arrays, NULL, Undefined,
  Overlarge    \* the client may make too large a request

VARIABLES
  lists,    \* the values each handle stands for, NULL when it holds no vector
  short,    \* whether its list is short of room
  ret       \* the call made last, what it was about, and its result

vars == <<lists, short, ret>>

Init ==
  /\ lists = [h \in Handle |-> NULL]
  /\ short = [h \in Handle |-> FALSE]
  /\ ret = [call |-> "none", at |-> NULL, result |-> NULL]

ReturnsAt(call, h, index, result) ==
  ret' = [call |-> call, at |-> <<h, index>>, result |-> result]

Returns(call, result) == ret' = [call |-> call, at |-> NULL, result |-> result]

Adds(at, result) ==
  ret' = [call |-> "vectorPrepend", at |-> at, result |-> result]

Ready == ret.result # Undefined

Open(h) == lists[h] # NULL

Becomes(h, list) == lists' = [lists EXCEPT ![h] = list]

MayBeShort(h, cause) == \E b \in {FALSE, cause} : short' = [short EXCEPT ![h] = b]

(* A new vector is empty, or holds the values it is made from.             *)
Create(h) ==
  /\ \/ /\ \/ \E call \in {"vectorCreate", "vectorFromArray"} :
                Returns(call, FALSE) \/ (Overlarge /\ Returns(call, Undefined))
           \/ Returns("vectorFromValues", Undefined)
        /\ UNCHANGED <<lists, short>>
     \/ /\ \E call \in {"vectorCreate", "vectorFromArray"} : Returns(call, TRUE)
        /\ Becomes(h, <<>>)
        /\ MayBeShort(h, Overlarge)
     \/ /\ \E call \in {"vectorFromArray", "vectorFromValues"} : Returns(call, TRUE)
        /\ \E arr \in Arrays : Becomes(h, arr)
        /\ MayBeShort(h, Overlarge)
  /\ ~Open(h)

Copy(h, source) ==
  /\ \/ /\ Returns("vectorCopy", TRUE)
        /\ Open(source)
        /\ Becomes(h, lists[source])
        /\ short' = [short EXCEPT ![h] = short[source]]
     \/ /\ Returns("vectorCopy", IF Open(source) THEN FALSE ELSE Undefined)
        /\ UNCHANGED <<lists, short>>
  /\ ~Open(h)

Delete(h) ==
  /\ Returns("vectorDelete", NULL)
  /\ Becomes(h, NULL)
  /\ short' = [short EXCEPT ![h] = FALSE]

(* Indices start at zero.                                                  *)
Within(h, index) == Open(h) /\ index < Len(lists[h])

GetAt(h, index) ==
  /\ ReturnsAt("vectorGetAt", h, index,
       IF Within(h, index) THEN lists[h][index + 1] ELSE NULL)
  /\ UNCHANGED <<lists, short>>

ToArr(h) ==
  /\ Returns("vectorToArr", IF Open(h) THEN TRUE ELSE Undefined)
  /\ UNCHANGED <<lists, short>>

(* Data is added at the end, despite the name of the call.                 *)
Extend(h, data, at) ==
  /\ Open(h)
  /\ \/ Adds(at, TRUE) /\ Becomes(h, Append(lists[h], data))
     \/ Adds(at, FALSE) /\ UNCHANGED lists
     \/ Adds(at, Undefined) /\ short[h] /\ UNCHANGED lists
  /\ UNCHANGED short

Prepend(h, data) ==
  \/ Extend(h, data, <<h, data>>)
  \/ Returns("vectorPrepend", Undefined) /\ ~Open(h) /\ UNCHANGED <<lists, short>>

(* An element of another list is added as it is; one of the very list it   *)
(* is added to may have moved by then.                                     *)
PrependElement(h, source, index) ==
  /\ Within(source, index)
  /\ \/ \E data \in Datum :
          /\ Extend(h, data, <<h, source, index>>)
          /\ source # h => data = lists[source][index + 1]
     \/ /\ Adds(<<h, source, index>>, Undefined)
        /\ source = h
        /\ UNCHANGED <<lists, short>>

Update(h, data, index) ==
  /\ IF Within(h, index)
     THEN /\ ReturnsAt("vectorUpdate", h, index, data)
          /\ Becomes(h, [lists[h] EXCEPT ![index + 1] = data])
     ELSE ReturnsAt("vectorUpdate", h, index, NULL) /\ UNCHANGED lists
  /\ UNCHANGED short

Next ==
  /\ Ready
  /\ \/ \E h \in Handle : Create(h) \/ Delete(h) \/ ToArr(h)
     \/ \E h, source \in Handle :
          \/ Copy(h, source)
          \/ Open(source) /\ \E i \in DOMAIN lists[source] :
               PrependElement(h, source, i - 1)
     \/ \E h \in Handle, data \in Datum : Prepend(h, data)
     \/ \E h \in Handle, index \in Index :
          GetAt(h, index) \/ \E data \in Datum : Update(h, data, index)

Spec == Init /\ [][Next]_vars

=============================================================================
