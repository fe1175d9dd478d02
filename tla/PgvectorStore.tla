--------------------------- MODULE PgvectorStore ---------------------------
(***************************************************************************)
(* memory/store/pgvector/pgvector.go and sql.go: memory items in one table *)
(* of a PostgreSQL database that several clients use at the same time.     *)
(*                                                                         *)
(* Add is one INSERT ... SELECT ... WHERE ... ON CONFLICT statement.  At   *)
(* the isolation level of the default transaction (read committed) its     *)
(* WHERE is decided on the snapshot taken when it starts, and the conflict *)
(* clause on the row as it is when the statement writes: two steps.  The   *)
(* other statements change the rows they find.  A statement may fail, and  *)
(* the connection may be lost after it took effect.                        *)
(*                                                                         *)
(* Abstracted: a content stands for content, topics and metadata; the id   *)
(* GenerateMemoryID computes from it and the user is the content itself;   *)
(* embeddings and timestamps are left out.                                 *)
(***************************************************************************)
EXTENDS Integers, FiniteSets

CONSTANTS
    Clients,      \* callers of the store, in any process
    Users, Contents,
    memoryLimit   \* option memoryLimit; 0 for none

ASSUME PgvectorAssumption ==
    /\ IsFiniteSet(Clients) /\ Clients # {}
    /\ IsFiniteSet(Contents)
    /\ memoryLimit \in Nat

VARIABLES
    softDelete,  \* option softDelete: rows are marked, not removed
    rows,    \* [Users -> map from memory_id to the row: content, deleted]
    pend,    \* [Clients -> the Add whose statement has started, or none]
    answer   \* [Clients -> the last answer]

vars == <<softDelete, rows, pend, answer>>

NoAdd == [user |-> "", content |-> "", admitted |-> FALSE]

Init ==
    /\ softDelete \in BOOLEAN
    /\ rows = [u \in Users |-> <<>>]
    /\ pend = [k \in Clients |-> NoAdd]
    /\ answer = [k \in Clients |-> "none"]

Idle(k) == pend[k] = NoAdd

(* The rows the queries of Get, List, Update and Delete see: the filter    *)
(* "deleted_at IS NULL" is part of them only with softDelete, and without  *)
(* it no row is ever marked.                                               *)
Live(u) == {i \in DOMAIN rows[u] : ~rows[u][i].deleted}

(* Rejected before a statement is sent: the embedding service failed or    *)
(* its vector has another dimension, or the metadata cannot be encoded.    *)
Rejected(k) ==
    /\ Idle(k)
    /\ answer' = [answer EXCEPT ![k] = "err"]
    /\ UNCHANGED <<softDelete, rows, pend>>

(* Mutant: the limit is compared with <=. *)
AdmitsOneMore(u, m) ==
    \/ memoryLimit = 0
    \/ m \in Live(u)
    \/ Cardinality(Live(u)) <= memoryLimit

Admits(u, m) ==
    \/ memoryLimit = 0
    \/ m \in Live(u)
    \/ Cardinality(Live(u)) < memoryLimit

AddStart(k, u, m) ==
    /\ Idle(k)
    /\ pend' = [pend EXCEPT ![k] = [user |-> u, content |-> m, admitted |-> Admits(u, m)]]
    /\ UNCHANGED <<softDelete, rows, answer>>

(* Mutant: the conflict clause leaves deleted_at as it is. *)
UpsertKeepsMark(u, m) ==
    rows' = [rows EXCEPT ![u] = [i \in DOMAIN rows[u] \cup {m} |->
        IF i = m THEN [content |-> m, deleted |-> m \in DOMAIN rows[u] /\ rows[u][m].deleted]
        ELSE rows[u][i]]]

Upsert(u, m) ==
    rows' = [rows EXCEPT ![u] = [i \in DOMAIN rows[u] \cup {m} |->
        IF i = m THEN [content |-> m, deleted |-> FALSE] ELSE rows[u][i]]]

(* The statement ends: it inserted or updated a row, or none was affected  *)
(* and Add reports the limit; or the database returned an error.           *)
AddEnd(k) ==
    LET p == pend[k] IN
    /\ ~Idle(k)
    /\ \/ /\ p.admitted
          /\ Upsert(p.user, p.content)
          /\ \E a \in {"added", "err"} : answer' = [answer EXCEPT ![k] = a]
       \/ /\ answer' = [answer EXCEPT ![k] = "err"]
          /\ UNCHANGED rows
    /\ pend' = [pend EXCEPT ![k] = NoAdd]
    /\ UNCHANGED softDelete

(* UPDATE of a live row; no row affected is an error. *)
Update(k, u, i, m) ==
    /\ Idle(k)
    /\ i \in Live(u)
    /\ rows' = [rows EXCEPT ![u][i].content = m]
    /\ \E a \in {"updated", "err"} : answer' = [answer EXCEPT ![k] = a]
    /\ UNCHANGED <<softDelete, pend>>

Erase(u, I) ==
    IF softDelete
    THEN [i \in DOMAIN rows[u] |->
            [content |-> rows[u][i].content, deleted |-> rows[u][i].deleted \/ i \in I]]
    ELSE [i \in DOMAIN rows[u] \ I |-> rows[u][i]]

(* Delete answers with success whether the row exists or not. *)
Delete(k, u, i) ==
    /\ Idle(k)
    /\ rows' = [rows EXCEPT ![u] = Erase(u, {i})]
    /\ \E a \in {"removed", "err"} : answer' = [answer EXCEPT ![k] = a]
    /\ UNCHANGED <<softDelete, pend>>

Clear(k, u) ==
    /\ Idle(k)
    /\ rows' = [rows EXCEPT ![u] = Erase(u, Contents)]
    /\ \E a \in {"removed", "err"} : answer' = [answer EXCEPT ![k] = a]
    /\ UNCHANGED <<softDelete, pend>>

Next == \E k \in Clients :
    \/ Rejected(k) \/ AddEnd(k)
    \/ \E u \in Users, m \in Contents : AddStart(k, u, m) \/ Delete(k, u, m)
    \/ \E u \in Users, i, m \in Contents : Update(k, u, i, m)
    \/ \E u \in Users : Clear(k, u)

Spec == Init /\ [][Next]_vars

-----------------------------------------------------------------------------
(* The type of every variable. *)
TypeOK ==
    /\ softDelete \in BOOLEAN
    /\ rows = [u \in Users |-> rows[u]]
    /\ \A u \in Users :
        /\ DOMAIN rows[u] \subseteq Contents
        /\ rows[u] \in [DOMAIN rows[u] -> [content : Contents, deleted : BOOLEAN]]
    /\ pend \in [Clients -> {NoAdd} \cup
                            [user : Users, content : Contents, admitted : BOOLEAN]]
    /\ answer \in [Clients -> {"none", "added", "updated", "removed", "err"}]

(* The contents an admitted Add of a client is about to store. *)
Pending(u) ==
    {pend[k].content : k \in {l \in Clients : pend[l].admitted /\ pend[l].user = u}}

(* The count in the statement of Add is taken before its row is written,   *)
(* so clients can exceed the limit of a user together, but by less than    *)
(* their number, and what they are still writing is within that bound too. *)
LimitExceededByClients ==
    memoryLimit > 0 => \A u \in Users :
        Cardinality(Live(u) \cup Pending(u)) < memoryLimit + Cardinality(Clients)

(* What the queries see is a memory store with the capacity that bound     *)
(* gives: whatever the interleaving, marked rows stay hidden until their   *)
(* content is added again, an Add that succeeds makes the item visible and *)
(* no statement touches the items of another user.                         *)
Visible == [u \in Users |-> [i \in Live(u) |-> rows[u][i].content]]

Store == INSTANCE MemoryStore WITH
    items <- Visible,
    Capacity <- IF memoryLimit = 0 THEN Cardinality(Contents)
                ELSE memoryLimit + Cardinality(Clients) - 1

Implements == Store!Spec
=============================================================================
