------------------------------ MODULE IdQueue ------------------------------
(* What memory/type_/util.go promises to short-term memory: the ids of the *)
(* memory in the order of their first insertion, each one once.            *)
EXTENDS Naturals, Sequences

CONSTANT Ids

VARIABLES
    order,   \* the ids, oldest first
    ret      \* what the last operation returned, as a sequence of ids

Members(s) == {s[i] : i \in DOMAIN s}

(* s without its k-th element.                                             *)
Without(s, k) == [i \in 1..(Len(s) - 1) |-> IF i < k THEN s[i] ELSE s[i + 1]]

(* Nothing happens for an id that is already there.                        *)
PushBack(id) ==
    /\ order' = IF id \in Members(order) THEN order ELSE Append(order, id)
    /\ ret' = <<>>

PopFront ==
    /\ order' = IF order = <<>> THEN order ELSE Tail(order)
    /\ ret' = IF order = <<>> THEN <<>> ELSE <<order[1]>>

(* Returns id when it was there.                                           *)
Remove(id) ==
    \/ /\ id \notin Members(order)
       /\ ret' = <<>> /\ UNCHANGED order
    \/ \E k \in DOMAIN order :
          /\ order[k] = id
          /\ order' = Without(order, k)
          /\ ret' = <<id>>

Values == ret' = order /\ UNCHANGED order

Reset == order' = <<>> /\ ret' = <<>>

Init == order = <<>> /\ ret = <<>>

Next ==
    \/ \E id \in Ids : PushBack(id) \/ Remove(id)
    \/ PopFront \/ Values \/ Reset

Spec == Init /\ [][Next]_<<order, ret>>
=============================================================================
