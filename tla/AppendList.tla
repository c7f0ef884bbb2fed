----------------------------- MODULE AppendList -----------------------------
(***************************************************************************)
(* What the linked list of linear.c amounts to, without nodes: a sequence  *)
(* that grows at either end.  Its length is a count of the elements added  *)
(* to the front or to the empty list, never reset by a deletion; and it    *)
(* is torn after an append for which there was no memory: the element is   *)
(* lost although the call reports success, and the next append crashes.    *)
(***************************************************************************)
EXTENDS Common, Sequences

CONSTANTS Datum, NULL, Undefined

VARIABLES
  open,     \* the client holds a list
  items,    \* its elements
  length,   \* the length it records
  torn,     \* an append has lost its element
  ret       \* the call made last and its result

vars == <<open, items, length, torn, ret>>

Returns(call, result) == ret' = [call |-> call, result |-> result]

Init ==
  /\ ~open /\ ~torn
  /\ items = <<>>
  /\ length = 0
  /\ ret = [call |-> "none", result |-> NULL]

Create ==
  /\ items = <<>>
  /\ open' \in BOOLEAN
  /\ length' = 0
  /\ Returns("sllCreate", open')
  /\ UNCHANGED <<items, torn>>

Delete ==
  /\ open
  /\ items' = <<>>
  /\ ~torn'
  /\ Returns("sllDelete", NULL)
  /\ UNCHANGED <<open, length>>

(* Without a list every call but sllCreate crashes.                        *)
Crash ==
  /\ \/ ~open /\ \E call \in {"sllDelete", "sllPrepend", "sllAppend"} :
                   Returns(call, Undefined)
     \/ torn /\ Returns("sllAppend", Undefined)
  /\ UNCHANGED <<open, items, length, torn>>

(* An append is refused for want of memory only while the list is empty.   *)
Refuse(data) ==
  /\ open
  /\ \/ Returns("sllPrepend", FALSE)
     \/ (items = <<>> \/ data = NULL) /\ Returns("sllAppend", FALSE)
  /\ UNCHANGED <<open, items, length, torn>>

AddFirst(data) ==
  /\ open
  /\ items' = <<data>> \o items
  /\ length' = (length + 1) % SizeSpan
  /\ Returns("sllPrepend", TRUE) \/ (items = <<>> /\ Returns("sllAppend", TRUE))
  /\ UNCHANGED <<open, torn>>

AddLast(data) ==
  /\ open /\ ~torn
  /\ items # <<>>
  /\ \/ items' = Append(items, data) /\ ~torn'
     \/ UNCHANGED items /\ torn'
  /\ Returns("sllAppend", TRUE)
  /\ UNCHANGED <<open, length>>

Next ==
  /\ ret.result # Undefined
  /\ \/ Create \/ Delete \/ Crash
     \/ \E data \in Datum \cup {NULL} : Refuse(data)
     \/ \E data \in Datum : AddFirst(data) \/ AddLast(data)

Spec == Init /\ [][Next]_vars

=============================================================================
