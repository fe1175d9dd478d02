----------------------------- MODULE GraphStore -----------------------------
(***************************************************************************)
(* memory/store/neo4jgraph/graph.go: entities and relationships of several *)
(* users in one Neo4j database, used by concurrent clients.                *)
(*                                                                         *)
(* Neo4j is external: a transaction that fails leaves no trace, a write of *)
(* a matched node is made under its lock, and MERGE of a node is a match   *)
(* followed by a creation.  createIndexes makes indexes, not uniqueness    *)
(* constraints, so two transactions can both match nothing and both        *)
(* create.  MERGE of a relationship locks its two nodes.                   *)
(*                                                                         *)
(* Abstracted: names, types and timestamps of entities; the store methods  *)
(* of StoreManager, which panic ("implement me"); connectivity.            *)
(***************************************************************************)
EXTENDS Naturals, FiniteSets

CONSTANTS
    Clients, Users, Ids,
    Types,      \* valid relationship types
    MaxNodes,   \* bound: nodes of the database
    MaxRels,    \* bound: relationships of the database
    MaxDepth,   \* bound: maxDepth of FindRelatedEntities
    MaxReaders, \* bound: calls of GetStats at the same time
    None        \* a blank argument; no node

ASSUME GraphStoreAssumption ==
    /\ {MaxNodes, MaxRels, MaxReaders} \subseteq Nat
    /\ MaxDepth \in Nat \ {0}
    /\ None \notin Users \cup Ids \cup Types \cup Nat \cup [user : Users, id : Ids]
    /\ IsFiniteSet(Clients)

VARIABLES
    nodes,  \* the properties id and user_id of each node
    rels,   \* relationships: from, type, to
    cl      \* the clients

vars == <<nodes, rels, cl>>

Keys == 1..MaxNodes

Matching(u, e) == {k \in Keys : nodes[k] = [user |-> u, id |-> e]}

OfUser(u) == {k \in Keys : nodes[k] # None /\ nodes[k].user = u}

Idle == [pc |-> "idle"]

Init ==
    /\ nodes = [k \in Keys |-> None]
    /\ rels = {}
    /\ cl = [c \in Clients |-> Idle]

checkEntity(u, e) == u # None /\ e # None

(* A write for user u has been committed: the counts being made by others  *)
(* may be of different graphs.                                             *)
Dirty(u) ==
    [d \in Clients |-> IF cl[d].pc = "stats" /\ cl[d].user = u
                       THEN [cl[d] EXCEPT !.dirty = TRUE] ELSE cl[d]]

-----------------------------------------------------------------------------
(* Mutant: the properties of the caller are copied over the fixed ones. *)
PropsCallerLast(u, e, p) == [user |-> IF p = None THEN u ELSE p, id |-> e]

(* The properties an entity is given: those of the caller, of which p is   *)
(* the user_id, and over them the arguments.                               *)
Props(u, e, p) == [user |-> u, id |-> e]

(* Mutant: CREATE in the place of MERGE. *)
AddEntityCreates(c, u, e, p) ==
    /\ cl[c] = Idle
    /\ checkEntity(u, e)
    /\ cl' = [cl EXCEPT ![c] = [pc |-> "create", user |-> u, id |-> e, props |-> Props(u, e, p)]]
    /\ UNCHANGED <<nodes, rels>>

(* MERGE matches.  One node has its properties set; Single refuses more    *)
(* than one record and the transaction is rolled back.                     *)
AddEntity(c, u, e, p) ==
    /\ cl[c] = Idle
    /\ checkEntity(u, e)
    /\ LET m == Matching(u, e) IN
       \/ /\ m = {}
          /\ cl' = [cl EXCEPT ![c] =
                [pc |-> "create", user |-> u, id |-> e, props |-> Props(u, e, p)]]
          /\ UNCHANGED nodes
       \/ /\ Cardinality(m) = 1
          /\ nodes' = [k \in Keys |-> IF k \in m THEN Props(u, e, p) ELSE nodes[k]]
          /\ cl' = Dirty(u)
    /\ UNCHANGED rels

(* MERGE matched nothing and creates. *)
MergeCreate(c) ==
    /\ cl[c].pc = "create"
    /\ \E k \in Keys :
        /\ nodes[k] = None
        /\ \A j \in 1..k - 1 : nodes[j] # None
        /\ nodes' = [nodes EXCEPT ![k] = cl[c].props]
    /\ cl' = [Dirty(cl[c].user) EXCEPT ![c] = Idle]
    /\ UNCHANGED rels

validRelationshipType(t) == t \in Types

(* Mutant: the number of records is not looked at. *)
AddRelationshipAll(c, u, e1, e2, t) ==
    /\ cl[c] = Idle
    /\ u # None /\ e1 # None /\ e2 # None /\ validRelationshipType(t)
    /\ Cardinality(rels) < MaxRels
    /\ rels' = rels \cup {[from |-> i, type |-> t, to |-> j] : i \in Matching(u, e1), j \in Matching(u, e2)}
    /\ cl' = Dirty(u)
    /\ UNCHANGED nodes

(* Single: the two matches must give one pair of nodes. *)
AddRelationship(c, u, e1, e2, t) ==
    /\ cl[c] = Idle
    /\ u # None /\ e1 # None /\ e2 # None /\ validRelationshipType(t)
    /\ Cardinality(rels) < MaxRels
    /\ Cardinality(Matching(u, e1)) = 1 /\ Cardinality(Matching(u, e2)) = 1
    /\ rels' = rels \cup {[from |-> i, type |-> t, to |-> j] : i \in Matching(u, e1), j \in Matching(u, e2)}
    /\ cl' = Dirty(u)
    /\ UNCHANGED nodes

(* DETACH DELETE of the nodes in m. *)
DetachDelete(u, m) ==
    /\ nodes' = [k \in Keys |-> IF k \in m THEN None ELSE nodes[k]]
    /\ rels' = {r \in rels : {r.from, r.to} \cap m = {}}
    /\ cl' = Dirty(u)

(* An error if no node is deleted. *)
DeleteEntity(c, u, e) ==
    /\ cl[c] = Idle
    /\ checkEntity(u, e)
    /\ Matching(u, e) # {}
    /\ DetachDelete(u, Matching(u, e))

ClearAll(c, u) ==
    /\ cl[c] = Idle
    /\ u # None
    /\ DetachDelete(u, OfUser(u))

-----------------------------------------------------------------------------
(* GetStats counts in read transactions of their own, in the order of a    *)
(* range over a map.                                                       *)
Queries == {"total_nodes", "total_relationships", "entity_nodes", "memory_nodes"}

(* Mutant: the pattern has no direction and matches a relationship twice. *)
CountUndirected(q, u) ==
    CASE q = "total_relationships" ->
            Cardinality({<<r.from, r.to>> : r \in {x \in rels : {x.from, x.to} \subseteq OfUser(u)}})
          + Cardinality({<<r.to, r.from>> : r \in {x \in rels : {x.from, x.to} \subseteq OfUser(u)}})
      [] q = "memory_nodes" -> 0
      [] OTHER -> Cardinality(OfUser(u))

(* Every node is an Entity: nothing creates a Memory node. *)
Count(q, u) ==
    CASE q = "total_relationships" -> Cardinality({r \in rels : {r.from, r.to} \subseteq OfUser(u)})
      [] q = "memory_nodes" -> 0
      [] OTHER -> Cardinality(OfUser(u))

GetStats(c, u) ==
    /\ cl[c] = Idle
    /\ u # None
    /\ Cardinality({d \in Clients : cl[d].pc = "stats"}) < MaxReaders
    /\ cl' = [cl EXCEPT ![c] = [pc |-> "stats", user |-> u, dirty |-> FALSE,
                                got |-> [q \in Queries |-> None]]]
    /\ UNCHANGED <<nodes, rels>>

StatsQuery(c, q) ==
    /\ cl[c].pc = "stats"
    /\ cl[c].got[q] = None
    /\ cl' = [cl EXCEPT ![c].got[q] = Count(q, cl[c].user)]
    /\ UNCHANGED <<nodes, rels>>

StatsReturn(c) ==
    /\ cl[c].pc = "stats"
    /\ \A q \in Queries : cl[c].got[q] # None
    /\ cl' = [cl EXCEPT ![c] = Idle]
    /\ UNCHANGED <<nodes, rels>>

(* A transaction or the counting fails; nothing has been written. *)
Fails(c) ==
    /\ cl[c] # Idle
    /\ cl' = [cl EXCEPT ![c] = Idle]
    /\ UNCHANGED <<nodes, rels>>

-----------------------------------------------------------------------------
(* The other reads are queries that leave no trace.  Direction is decided  *)
(* by comparing ids; from is the side the matched node is on.              *)
GetEntityRelationships(u, e) ==
    {[rel |-> x[1], node |-> x[2], other |-> x[3],
      direction |-> IF nodes[x[1].from].id = e THEN "outgoing" ELSE "incoming"] :
        x \in {y \in rels \X Matching(u, e) \X OfUser(u) :
            \/ y[1].from = y[2] /\ y[1].to = y[3]
            \/ y[1].to = y[2] /\ y[1].from = y[3]}}

(* Of a path: its last node, its relationships and the nodes it passes. *)
Starts(u, e) == {[last |-> k, used |-> {}, passed |-> {k}] : k \in Matching(u, e)}

Usable(p, types) == {r \in rels \ p.used : r.type \in types /\ p.last \in {r.from, r.to}}

Extend(p, r) ==
    [last |-> IF r.from = p.last THEN r.to ELSE r.from,
     used |-> p.used \cup {r}, passed |-> p.passed \cup {r.from, r.to}]

Further(ps, types) == ps \cup UNION {{Extend(p, r) : r \in Usable(p, types)} : p \in ps}

(* Paths of at most n different relationships from the matched nodes. *)
Paths(u, e, types, n) ==
    LET P[d \in 0..n] ==
            IF d = 0 THEN Starts(u, e)
            ELSE Further(P[d - 1], types)
    IN  P[n]

(* The query restricts the ends of a path to the user and to different     *)
(* ids, not the nodes in between.                                          *)
FindRelatedEntities(u, e, types, n) ==
    {p \in Paths(u, e, types, n) : p.last \in OfUser(u) /\ nodes[p.last].id # e}

-----------------------------------------------------------------------------
Next ==
    \E c \in Clients :
        \/ \E u \in Users \cup {None}, e \in Ids \cup {None}, p \in Users \cup {None} : AddEntity(c, u, e, p)
        \/ MergeCreate(c)
        \/ \E u \in Users, e1, e2 \in Ids, t \in Types : AddRelationship(c, u, e1, e2, t)
        \/ \E u \in Users, e \in Ids : DeleteEntity(c, u, e)
        \/ \E u \in Users : ClearAll(c, u) \/ GetStats(c, u)
        \/ \E q \in Queries : StatsQuery(c, q)
        \/ StatsReturn(c)
        \/ Fails(c)

Spec == Init /\ [][Next]_vars

-----------------------------------------------------------------------------
(* Creators of the entity whose MERGE has matched nothing. *)
Creating(u, e) == {c \in Clients : cl[c].pc = "create" /\ cl[c].user = u /\ cl[c].id = e}

(* "Use MERGE to create or update the entity node based on the unique      *)
(* combination of user_id and id": the combination is unique up to the     *)
(* number of clients that add it at once.  Later calls add no further      *)
(* node, they fail until the entity is deleted.                            *)
DuplicatesByClients ==
    \A u \in Users, e \in Ids :
        Cardinality(Matching(u, e)) + Cardinality(Creating(u, e)) <= Cardinality(Clients)

(* What the reads show of a user: a path from one entity to another passes *)
(* no node of somebody else, although the query restricts its ends only,   *)
(* whatever properties callers give to entities; and the direction of a    *)
(* relationship is right, although it is decided by comparing ids, which   *)
(* duplicates share.                                                       *)
ReadsRight ==
    \A u \in Users, e \in Ids :
        /\ \A p \in FindRelatedEntities(u, e, Types, MaxDepth) : p.passed \subseteq OfUser(u)
        /\ \A x \in GetEntityRelationships(u, e) :
            (x.direction = "outgoing") = (x.rel.from = x.node)

(* The four counts of GetStats are those of the graph unless a write for   *)
(* the user came between them.                                             *)
StatsCoherent ==
    \A c \in Clients :
        cl[c].pc = "stats" /\ ~cl[c].dirty =>
            LET own == OfUser(cl[c].user)
                is(q, n) == cl[c].got[q] \in {None, n}
            IN  /\ is("total_nodes", Cardinality(own)) /\ is("entity_nodes", Cardinality(own))
                /\ is("total_relationships",
                      Cardinality({r \in rels : r.from \in own \/ r.to \in own}))
=============================================================================
