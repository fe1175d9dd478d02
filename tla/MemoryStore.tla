---------------------------- MODULE MemoryStore ----------------------------
(* What a store of memory items promises: every user has a map from memory *)
(* ids to contents, of bounded size.  An id is made from the content at    *)
(* Add (GenerateMemoryID), so adding a content again overwrites whatever   *)
(* Update made of it.  An error answer may hide a change that was made.    *)
EXTENDS Naturals, FiniteSets

CONSTANTS Clients, Users, Contents, Capacity

VARIABLES
    items,   \* [Users -> map from ids to contents]
    answer   \* [Clients -> the last answer: what was done with success, or "err"]

Init ==
    /\ items = [u \in Users |-> <<>>]
    /\ answer = [k \in Clients |-> "none"]

Stored(u) == DOMAIN items[u]

Answer(k, A) == \E a \in A : answer' = [answer EXCEPT ![k] = a]

Add(k, u, m) ==
    /\ m \in Stored(u) \/ Cardinality(Stored(u)) < Capacity
    /\ items' = [items EXCEPT ![u] =
            [i \in Stored(u) \cup {m} |-> IF i = m THEN m ELSE items[u][i]]]
    /\ Answer(k, {"added", "err"})

Update(k, u, i, m) ==
    /\ i \in Stored(u)
    /\ items' = [items EXCEPT ![u][i] = m]
    /\ Answer(k, {"updated", "err"})

Remove(k, u, I) ==
    /\ items' = [items EXCEPT ![u] = [i \in Stored(u) \ I |-> items[u][i]]]
    /\ Answer(k, {"removed", "err"})

Fail(k) == UNCHANGED items /\ Answer(k, {"err"})

Next == \E k \in Clients :
    \/ Fail(k)
    \/ \E u \in Users, m \in Contents : Add(k, u, m)
    \/ \E u \in Users, i, m \in Contents : Update(k, u, i, m)
    \/ \E u \in Users : \E I \in {{i} : i \in Contents} \cup {Contents} : Remove(k, u, I)

Spec == Init /\ [][Next]_<<items, answer>>
=============================================================================
