--------------------------- MODULE InMemoryStore ---------------------------
(***************************************************************************)
(* memory/store/inmem/inmem.go: memory items in a map per user, every      *)
(* operation under the lock of the store.  An operation is an action with  *)
(* its answer as a parameter, for the modules that call it.                *)
(*                                                                         *)
(* Abstracted: a content stands for content, topics and metadata, and for  *)
(* the id GenerateMemoryID computes from them and the user; timestamps are *)
(* left out.                                                               *)
(***************************************************************************)
EXTENDS Naturals, FiniteSets

CONSTANTS
    Users, Contents,
    NoUser,       \* the empty userID
    memoryLimit   \* option memoryLimit

ASSUME InMemoryAssumption ==
    /\ IsFiniteSet(Contents)
    /\ memoryLimit \in Nat
    /\ NoUser \notin Users

VARIABLE memories  \* [Users -> map from memory ids to contents]

NewInMemoryStore == memories = [u \in Users |-> <<>>]

Entries(u) == DOMAIN memories[u]

(* The map f after f[i] = m. *)
Put(f, i, m) == [j \in DOMAIN f \cup {i} |-> IF j = i THEN m ELSE f[j]]

Refuse(res) == res = "err" /\ UNCHANGED memories

(* Mutant: the limit is compared with >. *)
FullOneLate(u) == Cardinality(Entries(u)) > memoryLimit

(* The limit counts before it is known whether the entry is a new one. *)
Full(u) == Cardinality(Entries(u)) >= memoryLimit

StoreAdd(u, m, res) ==
    IF u = NoUser \/ Full(u) THEN Refuse(res)
    ELSE /\ res = "ok"
         /\ memories' = [memories EXCEPT ![u] = Put(@, m, m)]

(* Mutant: a missing entry is created. *)
StoreUpdateUpserts(u, i, m, res) ==
    /\ res = "ok"
    /\ memories' = [memories EXCEPT ![u] = Put(@, i, m)]

StoreUpdate(u, i, m, res) ==
    IF i \notin Entries(u) THEN Refuse(res)
    ELSE /\ res = "ok"
         /\ memories' = [memories EXCEPT ![u][i] = m]

StoreDelete(u, i, res) ==
    IF i \notin Entries(u) THEN Refuse(res)
    ELSE /\ res = "ok"
         /\ memories' = [memories EXCEPT ![u] = [j \in Entries(u) \ {i} |-> @[j]]]

(* Mutant: the map of all users is dropped. *)
StoreClearAll(u, res) ==
    /\ res = "ok"
    /\ memories' = [v \in Users |-> <<>>]

StoreClear(u, res) ==
    /\ res = "ok"
    /\ memories' = [memories EXCEPT ![u] = <<>>]
=============================================================================
