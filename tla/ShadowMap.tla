----------------------------- MODULE ShadowMap ------------------------------
(***************************************************************************)
(* What the hash table API promises its client, without slots, probing or  *)
(* capacities.  It is a map with one defect: once something has been       *)
(* popped, setting a key that is present may add a second datum instead of *)
(* replacing the first.  The older one is then hidden: it comes back when  *)
(* the key is popped, and an expansion may exchange it with the visible    *)
(* one.  Until the first pop the API is exactly a map.                     *)
(***************************************************************************)
EXTENDS Integers

CONSTANTS
  Key, Datum, NULL, Unfinished, Undefined,
  Overlarge    \* the client may ask for a table larger than an int can count

VARIABLES
  open,      \* the client holds a table
  visible,   \* the datum htGet returns for each key, or NULL
  bound,     \* how often each datum is bound to each key, visible or hidden
  marked,    \* a pop has left marks that no later call has cleared
  ret        \* the call made last, with its key and its result

vars == <<open, visible, bound, marked, ret>>

Returns(call, key, result) ==
  ret' = [call |-> call, key |-> key, result |-> result]

Ready == ret.result \notin {Unfinished, Undefined}

Nothing == [data \in Datum |-> 0]

Add(bag, data) == [bag EXCEPT ![data] = @ + 1]
Remove(bag, data) == [bag EXCEPT ![data] = @ - 1]

IsEmpty ==
  /\ visible = [key \in Key |-> NULL]
  /\ bound = [key \in Key |-> Nothing]
  /\ ~marked

(* A key with data bound to it shows one of them.                          *)
Shows(datum, bag) ==
  IF bag = Nothing THEN datum = NULL ELSE datum # NULL /\ bag[datum] > 0

Init ==
  /\ ~open
  /\ IsEmpty
  /\ ret = [call |-> "none", key |-> NULL, result |-> NULL]

Create ==
  /\ Ready /\ ~open
  /\ \/ open' \in BOOLEAN /\ Returns("htCreate", NULL, open')
     \/ Overlarge /\ ~open' /\ Returns("htCreate", NULL, Undefined)
  /\ UNCHANGED <<visible, bound, marked>>

Delete ==
  /\ Ready
  /\ Returns("htDelete", NULL, NULL)
  /\ ~open' /\ IsEmpty'

(* Only a table that carries marks may fail to answer, and only about a    *)
(* key that is absent.                                                     *)
MayHang(key) == marked /\ visible[key] = NULL

Search(key) ==
  /\ Ready
  /\ \/ Returns("htSearch", key,
          IF open /\ key # NULL THEN visible[key] # NULL ELSE FALSE)
     \/ /\ open /\ key # NULL
        /\ MayHang(key)
        /\ Returns("htSearch", key, Unfinished)
  /\ UNCHANGED <<open, visible, bound, marked>>

Get(key) ==
  /\ Ready /\ open
  /\ \/ Returns("htGet", key, visible[key])
     \/ MayHang(key) /\ Returns("htGet", key, Unfinished)
  /\ UNCHANGED <<open, visible, bound, marked>>

(* The call answers FALSE to null arguments and when the table cannot grow.*)
Refuse(key) ==
  /\ Ready
  /\ Returns("htSet", key, FALSE)
  /\ UNCHANGED <<open, visible, bound, marked>>

(* The other keys keep their data; only an expansion, which clears the     *)
(* marks, may change which of them is visible.                             *)
OthersKept(key) ==
  \A k \in Key \ {key} :
    /\ bound'[k] = bound[k]
    /\ visible'[k] = visible[k] \/ (~marked' /\ Shows(visible'[k], bound[k]))

(* The key gets a first datum, or its visible datum is replaced, or, in a  *)
(* marked table, it is hidden behind the new one.  After an expansion it   *)
(* may be another datum of the key that is replaced.                       *)
Set(key, data) ==
  /\ Ready /\ open
  /\ Returns("htSet", key, TRUE)
  /\ visible'[key] = data
  /\ \/ /\ visible[key] = NULL \/ marked
        /\ bound'[key] = Add(bound[key], data)
     \/ \E old \in Datum :
          /\ bound[key][old] > 0
          /\ old = visible[key] \/ ~marked'
          /\ bound'[key] = Add(Remove(bound[key], old), data)
  /\ OthersKept(key)
  /\ marked' => marked
  /\ UNCHANGED open

(* Popping a key returns its visible datum and uncovers a hidden one, if   *)
(* there is any.                                                           *)
Pop(key) ==
  /\ Ready /\ open
  /\ \/ /\ visible[key] # NULL
        /\ Returns("htPop", key, visible[key])
        /\ bound' = [bound EXCEPT ![key] = Remove(@, visible[key])]
        /\ Shows(visible'[key], bound'[key])
        /\ visible' = [visible EXCEPT ![key] = visible'[key]]
        /\ marked'
     \/ /\ visible[key] = NULL
        /\ \/ Returns("htPop", key, NULL)
           \/ MayHang(key) /\ Returns("htPop", key, Unfinished)
        /\ UNCHANGED <<visible, bound, marked>>
  /\ UNCHANGED open

Next ==
  \/ Create
  \/ Delete
  \/ \E key \in Key \cup {NULL} : Search(key) \/ Refuse(key)
  \/ \E key \in Key : Get(key) \/ Pop(key)
  \/ \E key \in Key, data \in Datum : Set(key, data)

Spec == Init /\ [][Next]_vars

=============================================================================
