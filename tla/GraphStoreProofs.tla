-------------------------- MODULE GraphStoreProofs --------------------------
(***************************************************************************)
(* Proofs about GraphStore: how many nodes of one entity concurrent calls  *)
(* of AddEntity can leave, what paths and directions the reads show, and   *)
(* when the counts of GetStats agree; for any numbers of clients, users,   *)
(* entities and nodes, and paths of any length.                            *)
(***************************************************************************)
EXTENDS GraphStore, TLAPS, FiniteSetTheorems, WellFoundedInduction

Nodes == [user : Users, id : Ids]

Relationships == [from : Keys, type : Types, to : Keys]

(* Clients between a match of MERGE and its creation, and in GetStats.     *)
Adding == {[pc |-> "create", user |-> n.user, id |-> n.id, props |-> n] : n \in Nodes}

Counting == [pc : {"stats"}, user : Users, dirty : BOOLEAN, got : [Queries -> Nat \cup {None}]]

TypeOK ==
    /\ nodes \in [Keys -> Nodes \cup {None}]
    /\ rels \in SUBSET Relationships /\ IsFiniteSet(rels)
    /\ cl \in [Clients -> {Idle} \cup Adding \cup Counting]

(* A relationship joins nodes of one user, different entities unless it is *)
(* a loop: AddRelationship insists on one match of either end.             *)
JoinsOneUser ==
    \A r \in rels :
        /\ nodes[r.from] # None /\ nodes[r.to] # None
        /\ nodes[r.from].user = nodes[r.to].user
        /\ nodes[r.from].id = nodes[r.to].id => r.from = r.to

-----------------------------------------------------------------------------
(* Records of the clients.                                                 *)

LEMMA ClientRecords ==
    /\ Idle.pc = "idle" /\ Idle \notin Adding /\ Idle \notin Counting
    /\ \A x \in Adding : x.pc = "create" /\ x.user \in Users /\ x.id \in Ids
                         /\ x.props = [user |-> x.user, id |-> x.id]
    /\ \A x \in Counting : x.pc = "stats" /\ x.user \in Users
                           /\ x.got \in [Queries -> Nat \cup {None}]
<1>1. Idle.pc = "idle"
  BY DEF Idle
<1>2. ASSUME NEW x \in Adding
      PROVE  /\ x.pc = "create" /\ x.user \in Users /\ x.id \in Ids
             /\ x.props = [user |-> x.user, id |-> x.id]
  <2>1. PICK n \in Nodes : x = [pc |-> "create", user |-> n.user, id |-> n.id, props |-> n]
    BY DEF Adding
  <2>2. n.user \in Users /\ n.id \in Ids /\ n = [user |-> n.user, id |-> n.id]
    BY DEF Nodes
  <2> QED
    BY <2>1, <2>2
<1>3. ASSUME NEW x \in Counting
      PROVE  x.pc = "stats" /\ x.user \in Users /\ x.got \in [Queries -> Nat \cup {None}]
  BY DEF Counting
<1> QED
  BY <1>1, <1>2, <1>3

LEMMA NodeRecords ==
    ASSUME NEW u \in Users, NEW e \in Ids
    PROVE  /\ [user |-> u, id |-> e] \in Nodes /\ [user |-> u, id |-> e] # None
           /\ [pc |-> "create", user |-> u, id |-> e, props |-> [user |-> u, id |-> e]] \in Adding
<1>1. [user |-> u, id |-> e] \in Nodes /\ None \notin Nodes
  BY GraphStoreAssumption DEF Nodes
<1> DEFINE n == [user |-> u, id |-> e]
<1>2. n.user = u /\ n.id = e
  OBVIOUS
<1> QED
  BY <1>1, <1>2 DEF Adding

LEMMA MatchingFinite ==
    /\ IsFiniteSet(Keys)
    /\ \A S \in SUBSET Keys : IsFiniteSet(S) /\ Cardinality(S) \in Nat
    /\ \A S \in SUBSET Clients : /\ IsFiniteSet(S) /\ Cardinality(S) \in Nat
                                 /\ Cardinality(S) <= Cardinality(Clients)
    /\ Cardinality(Clients) \in Nat
<1>1. IsFiniteSet(Keys)
  <2>1. MaxNodes \in Int /\ 1 \in Int
    BY GraphStoreAssumption
  <2> QED
    BY <2>1, FS_Interval DEF Keys
<1> QED
  BY <1>1, FS_Subset, FS_CardinalityType, GraphStoreAssumption

(* Matching one node.                                                      *)
LEMMA OneMatch ==
    ASSUME NEW S \in SUBSET Keys, Cardinality(S) = 1
    PROVE  \E k \in Keys : S = {k}
<1>1. IsFiniteSet(S)
  BY MatchingFinite
<1>2. PICK k : S = {k}
  BY <1>1, FS_Singleton
<1> QED
  BY <1>2

(* What Dirty does to a client.                                            *)
LEMMA DirtyClients ==
    ASSUME TypeOK, NEW u
    PROVE  /\ Dirty(u) \in [Clients -> {Idle} \cup Adding \cup Counting]
           /\ \A d \in Clients :
                /\ cl[d] \notin Counting => Dirty(u)[d] = cl[d]
                /\ cl[d] \in Counting =>
                     /\ Dirty(u)[d] \in Counting
                     /\ Dirty(u)[d].user = cl[d].user /\ Dirty(u)[d].got = cl[d].got
                     /\ ~Dirty(u)[d].dirty => ~cl[d].dirty /\ cl[d].user # u
<1> SUFFICES ASSUME NEW d \in Clients
             PROVE  /\ Dirty(u)[d] \in {Idle} \cup Adding \cup Counting
                    /\ cl[d] \notin Counting => Dirty(u)[d] = cl[d]
                    /\ cl[d] \in Counting =>
                         /\ Dirty(u)[d] \in Counting
                         /\ Dirty(u)[d].user = cl[d].user /\ Dirty(u)[d].got = cl[d].got
                         /\ ~Dirty(u)[d].dirty => ~cl[d].dirty /\ cl[d].user # u
  BY DEF Dirty
<1>1. CASE cl[d] \notin Counting
  <2>1. cl[d] \in {Idle} \cup Adding
    BY <1>1 DEF TypeOK
  <2>2. cl[d].pc # "stats"
    BY <2>1, ClientRecords
  <2> QED
    BY <1>1, <2>1, <2>2 DEF Dirty
<1>2. CASE cl[d] \in Counting
  <2>1. CASE cl[d].user = u
    <3>1. Dirty(u)[d] = [cl[d] EXCEPT !.dirty = TRUE]
      BY <1>2, <2>1, ClientRecords DEF Dirty
    <3> QED
      BY <1>2, <3>1 DEF Counting
  <2>2. CASE cl[d].user # u
    <3>1. Dirty(u)[d] = cl[d]
      BY <2>2 DEF Dirty
    <3> QED
      BY <1>2, <2>2, <3>1
  <2> QED
    BY <2>1, <2>2
<1> QED
  BY <1>1, <1>2
-----------------------------------------------------------------------------
(* The actions, by what they do to the graph and to the clients.           *)

(* AddEntity of a user and an id that are given.                           *)
LEMMA AddEntityStep ==
    ASSUME TypeOK, NEW c \in Clients, NEW u \in Users \cup {None}, NEW e \in Ids \cup {None},
           NEW p, AddEntity(c, u, e, p)
    PROVE  /\ u \in Users /\ e \in Ids /\ cl[c] = Idle /\ nodes' = nodes /\ rels' = rels
           /\ \/ /\ Matching(u, e) = {}
                 /\ cl' = [cl EXCEPT ![c] = [pc |-> "create", user |-> u, id |-> e,
                                             props |-> [user |-> u, id |-> e]]]
              \/ cl' = Dirty(u)
<1>1. u \in Users /\ e \in Ids
  BY DEF AddEntity, checkEntity
<1>2. ASSUME nodes' = [k \in Keys |-> IF k \in Matching(u, e) THEN Props(u, e, p) ELSE nodes[k]]
      PROVE  nodes' = nodes
  <2>1. \A k \in Keys : nodes'[k] = nodes[k]
    BY <1>2 DEF Props, Matching
  <2> QED
    BY <1>2, <2>1 DEF TypeOK
<1> QED
  BY <1>1, <1>2 DEF AddEntity, Props

(* The creation of MERGE, in a free place.                                 *)
LEMMA MergeCreateStep ==
    ASSUME TypeOK, NEW c \in Clients, MergeCreate(c)
    PROVE  /\ cl[c] \in Adding /\ rels' = rels
           /\ cl' = [Dirty(cl[c].user) EXCEPT ![c] = Idle]
           /\ \E k \in Keys : /\ nodes[k] = None
                             /\ nodes' = [nodes EXCEPT ![k] = [user |-> cl[c].user, id |-> cl[c].id]]
<1>1. cl[c] \in Adding
  BY ClientRecords DEF MergeCreate, TypeOK
<1>2. cl[c].props = [user |-> cl[c].user, id |-> cl[c].id]
  BY <1>1, ClientRecords
<1> QED
  BY <1>1, <1>2 DEF MergeCreate

(* AddRelationship joins the one match of either end.                      *)
LEMMA AddRelationshipStep ==
    ASSUME TypeOK, NEW c \in Clients, NEW u \in Users, NEW e1 \in Ids, NEW e2 \in Ids,
           NEW t \in Types, AddRelationship(c, u, e1, e2, t)
    PROVE  /\ nodes' = nodes /\ cl[c] = Idle /\ cl' = Dirty(u)
           /\ \E i, j \in Keys :
                /\ Matching(u, e1) = {i} /\ Matching(u, e2) = {j}
                /\ rels' = rels \cup {[from |-> i, type |-> t, to |-> j]}
<1>1. Matching(u, e1) \in SUBSET Keys /\ Matching(u, e2) \in SUBSET Keys
  BY DEF Matching
<1>2. PICK i \in Keys : Matching(u, e1) = {i}
  BY <1>1, OneMatch DEF AddRelationship
<1>3. PICK j \in Keys : Matching(u, e2) = {j}
  BY <1>1, OneMatch DEF AddRelationship
<1>4. {[from |-> a, type |-> t, to |-> b] : a \in Matching(u, e1), b \in Matching(u, e2)}
        = {[from |-> i, type |-> t, to |-> j]}
  BY <1>2, <1>3
<1> QED
  BY <1>2, <1>3, <1>4 DEF AddRelationship

(* DETACH DELETE of nodes of a user.                                       *)
LEMMA DeleteStep ==
    ASSUME NEW c \in Clients, NEW u \in Users,
           (\E e \in Ids : DeleteEntity(c, u, e)) \/ ClearAll(c, u)
    PROVE  cl[c] = Idle /\ \E m \in SUBSET OfUser(u) : DetachDelete(u, m)
<1>1. ASSUME NEW e \in Ids, DeleteEntity(c, u, e)
      PROVE  cl[c] = Idle /\ \E m \in SUBSET OfUser(u) : DetachDelete(u, m)
  <2>1. Matching(u, e) \subseteq OfUser(u)
    <3> SUFFICES ASSUME NEW k \in Keys, nodes[k] = [user |-> u, id |-> e]
                 PROVE  nodes[k] # None /\ nodes[k].user = u
      BY DEF Matching, OfUser
    <3>1. nodes[k].user = u
      OBVIOUS
    <3> QED
      BY <3>1, NodeRecords
  <2> QED
    BY <1>1, <2>1 DEF DeleteEntity
<1> QED
  BY <1>1 DEF ClearAll

(* GetStats and the end of a call change one client.                       *)
LEMMA StatsStep ==
    ASSUME TypeOK, NEW c \in Clients,
           \/ \E u \in Users : GetStats(c, u)
           \/ \E q \in Queries : StatsQuery(c, q)
           \/ StatsReturn(c)
           \/ Fails(c)
    PROVE  /\ nodes' = nodes /\ rels' = rels
           /\ \E x \in {Idle} \cup Counting : cl' = [cl EXCEPT ![c] = x]
<1>1. CASE \E u \in Users : GetStats(c, u)
  <2>1. PICK u \in Users : GetStats(c, u)
    BY <1>1
  <2>2. [pc |-> "stats", user |-> u, dirty |-> FALSE, got |-> [q \in Queries |-> None]] \in Counting
    BY DEF Counting
  <2> QED
    BY <2>1, <2>2 DEF GetStats
<1>2. CASE \E q \in Queries : StatsQuery(c, q)
  <2>1. PICK q \in Queries : StatsQuery(c, q)
    BY <1>2
  <2>2. cl[c] \in Counting
    BY <2>1, ClientRecords DEF StatsQuery, TypeOK
  <2>3. Count(q, cl[c].user) \in Nat
    <3>1. OfUser(cl[c].user) \in SUBSET Keys
      BY DEF OfUser
    <3>2. Cardinality(OfUser(cl[c].user)) \in Nat
      BY <3>1, MatchingFinite
    <3>3. Cardinality({r \in rels : {r.from, r.to} \subseteq OfUser(cl[c].user)}) \in Nat
      BY FS_Subset, FS_CardinalityType DEF TypeOK
    <3> QED
      BY <3>2, <3>3 DEF Count
  <2>4. [cl[c] EXCEPT !.got[q] = Count(q, cl[c].user)] \in Counting
    BY <2>2, <2>3 DEF Counting
  <2>5. cl' = [cl EXCEPT ![c] = [cl[c] EXCEPT !.got[q] = Count(q, cl[c].user)]]
    BY <2>1 DEF StatsQuery
  <2> QED
    BY <2>1, <2>4, <2>5 DEF StatsQuery
<1>3. CASE StatsReturn(c) \/ Fails(c)
  BY <1>3 DEF StatsReturn, Fails
<1> QED
  BY <1>1, <1>2, <1>3
(* Every step is one of those.                                             *)
LEMMA NextCases ==
    ASSUME [Next]_vars
    PROVE  \/ UNCHANGED <<nodes, rels, cl>>
           \/ \E c \in Clients :
                \/ \E u \in Users \cup {None}, e \in Ids \cup {None}, p \in Users \cup {None} :
                        AddEntity(c, u, e, p)
                \/ MergeCreate(c)
                \/ \E u \in Users, e1, e2 \in Ids, t \in Types : AddRelationship(c, u, e1, e2, t)
                \/ \E u \in Users : (\E e \in Ids : DeleteEntity(c, u, e)) \/ ClearAll(c, u)
                \/ \/ \E u \in Users : GetStats(c, u)
                   \/ \E q \in Queries : StatsQuery(c, q)
                   \/ StatsReturn(c)
                   \/ Fails(c)
BY DEF Next, vars

LEMMA TypeStep ==
    ASSUME TypeOK, [Next]_vars
    PROVE  TypeOK'
<1>1. CASE UNCHANGED <<nodes, rels, cl>>
  BY <1>1 DEF TypeOK
<1>2. ASSUME NEW c \in Clients, NEW u \in Users \cup {None}, NEW e \in Ids \cup {None},
             NEW p, AddEntity(c, u, e, p)
      PROVE  TypeOK'
  <2>1. u \in Users /\ e \in Ids /\ nodes' = nodes /\ rels' = rels
    BY <1>2, AddEntityStep
  <2>2. cl' \in [Clients -> {Idle} \cup Adding \cup Counting]
    BY <1>2, <2>1, AddEntityStep, DirtyClients, NodeRecords DEF TypeOK
  <2> QED
    BY <2>1, <2>2 DEF TypeOK
<1>3. ASSUME NEW c \in Clients, MergeCreate(c)
      PROVE  TypeOK'
  <2>1. /\ cl[c] \in Adding /\ rels' = rels
        /\ cl' = [Dirty(cl[c].user) EXCEPT ![c] = Idle]
    BY <1>3, MergeCreateStep
  <2>2. cl' \in [Clients -> {Idle} \cup Adding \cup Counting]
    BY <2>1, DirtyClients
  <2>3. [user |-> cl[c].user, id |-> cl[c].id] \in Nodes
    BY <2>1, ClientRecords, NodeRecords
  <2>4. nodes' \in [Keys -> Nodes \cup {None}]
    BY <1>3, <2>3, MergeCreateStep DEF TypeOK
  <2> QED
    BY <2>1, <2>2, <2>4 DEF TypeOK
<1>4. ASSUME NEW c \in Clients, NEW u \in Users, NEW e1 \in Ids, NEW e2 \in Ids,
             NEW t \in Types, AddRelationship(c, u, e1, e2, t)
      PROVE  TypeOK'
  <2>1. PICK i, j \in Keys : rels' = rels \cup {[from |-> i, type |-> t, to |-> j]}
    BY <1>4, AddRelationshipStep
  <2>2. [from |-> i, type |-> t, to |-> j] \in Relationships
    BY DEF Relationships
  <2>3. IsFiniteSet(rels')
    BY <2>1, FS_AddElement DEF TypeOK
  <2>4. nodes' = nodes /\ cl' \in [Clients -> {Idle} \cup Adding \cup Counting]
    BY <1>4, AddRelationshipStep, DirtyClients
  <2> QED
    BY <2>1, <2>2, <2>3, <2>4 DEF TypeOK
<1>5. ASSUME NEW c \in Clients, NEW u \in Users,
             (\E e \in Ids : DeleteEntity(c, u, e)) \/ ClearAll(c, u)
      PROVE  TypeOK'
  <2>1. PICK m \in SUBSET OfUser(u) : DetachDelete(u, m)
    BY <1>5, DeleteStep
  <2>2. nodes' \in [Keys -> Nodes \cup {None}] /\ rels' \subseteq rels
    BY <2>1 DEF DetachDelete, TypeOK
  <2>3. IsFiniteSet(rels')
    BY <2>2, FS_Subset DEF TypeOK
  <2>4. cl' \in [Clients -> {Idle} \cup Adding \cup Counting]
    BY <2>1, DirtyClients DEF DetachDelete
  <2> QED
    BY <2>2, <2>3, <2>4 DEF TypeOK
<1>6. ASSUME NEW c \in Clients,
             \/ \E u \in Users : GetStats(c, u)
             \/ \E q \in Queries : StatsQuery(c, q)
             \/ StatsReturn(c)
             \/ Fails(c)
      PROVE  TypeOK'
  BY <1>6, StatsStep DEF TypeOK
<1> QED
  BY NextCases, <1>1, <1>2, <1>3, <1>4, <1>5, <1>6

LEMMA JoinsStep ==
    ASSUME TypeOK, JoinsOneUser, [Next]_vars
    PROVE  JoinsOneUser'
<1>0. ASSUME NEW r \in rels
      PROVE  /\ r.from \in Keys /\ r.to \in Keys
             /\ nodes[r.from] # None /\ nodes[r.to] # None
             /\ nodes[r.from].user = nodes[r.to].user
             /\ nodes[r.from].id = nodes[r.to].id => r.from = r.to
  BY DEF TypeOK, JoinsOneUser, Relationships
<1>1. CASE UNCHANGED <<nodes, rels>>
  BY <1>1 DEF JoinsOneUser
<1>2. ASSUME NEW c \in Clients, MergeCreate(c)
      PROVE  JoinsOneUser'
  <2>1. PICK k \in Keys : nodes[k] = None /\ rels' = rels
            /\ nodes' = [nodes EXCEPT ![k] = [user |-> cl[c].user, id |-> cl[c].id]]
    BY <1>2, MergeCreateStep
  <2>2. \A r \in rels : nodes'[r.from] = nodes[r.from] /\ nodes'[r.to] = nodes[r.to]
    BY <1>0, <2>1 DEF TypeOK
  <2> QED
    BY <2>1, <2>2 DEF JoinsOneUser
<1>3. ASSUME NEW c \in Clients, NEW u \in Users, NEW e1 \in Ids, NEW e2 \in Ids,
             NEW t \in Types, AddRelationship(c, u, e1, e2, t)
      PROVE  JoinsOneUser'
  <2>1. PICK i, j \in Keys : /\ Matching(u, e1) = {i} /\ Matching(u, e2) = {j}
                             /\ rels' = rels \cup {[from |-> i, type |-> t, to |-> j]}
    BY <1>3, AddRelationshipStep
  <2>2. nodes' = nodes
    BY <1>3, AddRelationshipStep
  <2>3. nodes[i] = [user |-> u, id |-> e1] /\ nodes[j] = [user |-> u, id |-> e2]
    BY <2>1 DEF Matching
  <2>4. /\ nodes[i] # None /\ nodes[j] # None
        /\ nodes[i].user = u /\ nodes[j].user = u /\ nodes[i].id = e1 /\ nodes[j].id = e2
    <3>1. nodes[i].user = u /\ nodes[j].user = u /\ nodes[i].id = e1 /\ nodes[j].id = e2
      BY <2>3
    <3>2. nodes[i] # None /\ nodes[j] # None
      BY <2>3, NodeRecords
    <3> QED
      BY <3>1, <3>2
  <2>5. e1 = e2 => i = j
    BY <2>1
  <2>6. ASSUME NEW r \in rels'
        PROVE  /\ nodes[r.from] # None /\ nodes[r.to] # None
               /\ nodes[r.from].user = nodes[r.to].user
               /\ nodes[r.from].id = nodes[r.to].id => r.from = r.to
    <3>1. CASE r \in rels
      BY <1>0, <3>1
    <3>2. CASE r = [from |-> i, type |-> t, to |-> j]
      <4>1. r.from = i /\ r.to = j
        BY <3>2
      <4> QED
        BY <2>4, <2>5, <4>1
    <3> QED
      BY <2>1, <3>1, <3>2
  <2> QED
    BY <2>2, <2>6 DEF JoinsOneUser
<1>4. ASSUME NEW c \in Clients, NEW u \in Users,
             (\E e \in Ids : DeleteEntity(c, u, e)) \/ ClearAll(c, u)
      PROVE  JoinsOneUser'
  <2>1. PICK m \in SUBSET OfUser(u) : DetachDelete(u, m)
    BY <1>4, DeleteStep
  <2>2. ASSUME NEW r \in rels'
        PROVE  r \in rels /\ nodes'[r.from] = nodes[r.from] /\ nodes'[r.to] = nodes[r.to]
    BY <1>0, <2>1 DEF DetachDelete
  <2> QED
    BY <1>0, <2>2 DEF JoinsOneUser
<1> QED
  BY NextCases, <1>1, <1>2, <1>3, <1>4, AddEntityStep, StatsStep
(* In the first state there is nothing.                                    *)
LEMMA GraphInit ==
    ASSUME Init
    PROVE  TypeOK /\ JoinsOneUser
<1>1. TypeOK
  BY FS_EmptySet DEF Init, TypeOK
<1> QED
  BY <1>1 DEF Init, JoinsOneUser

-----------------------------------------------------------------------------
(* Duplicates.                                                             *)

LEMMA DuplicatesStep ==
    ASSUME TypeOK, DuplicatesByClients, [Next]_vars
    PROVE  DuplicatesByClients'
<1> SUFFICES ASSUME NEW v \in Users, NEW i \in Ids
             PROVE  (Cardinality(Matching(v, i)) + Cardinality(Creating(v, i))
                        <= Cardinality(Clients))'
  BY DEF DuplicatesByClients
<1> DEFINE M == Matching(v, i)
           C == Creating(v, i)
<1>1. /\ IsFiniteSet(M) /\ IsFiniteSet(C) /\ Cardinality(M) \in Nat /\ Cardinality(C) \in Nat
      /\ IsFiniteSet(M') /\ IsFiniteSet(C') /\ Cardinality(M') \in Nat /\ Cardinality(C') \in Nat
      /\ Cardinality(C') <= Cardinality(Clients) /\ Cardinality(Clients) \in Nat
  <2>1. M \in SUBSET Keys /\ M' \in SUBSET Keys /\ C \in SUBSET Clients /\ C' \in SUBSET Clients
    BY DEF Matching, Creating, Keys
  <2> HIDE DEF M, C
  <2> QED
    BY <2>1, MatchingFinite
<1>2. Cardinality(M) + Cardinality(C) <= Cardinality(Clients)
  BY DEF DuplicatesByClients
<1>3. ASSUME M' \subseteq M, C' \subseteq C
      PROVE  Cardinality(M') + Cardinality(C') <= Cardinality(Clients)
  <2>1. Cardinality(M') <= Cardinality(M) /\ Cardinality(C') <= Cardinality(C)
    <3> HIDE DEF M, C
    <3> QED
      BY <1>1, <1>3, FS_Subset
  <2> HIDE DEF M, C
  <2> QED
    BY <1>1, <1>2, <2>1
<1>4. ASSUME NEW u, cl' = Dirty(u)
      PROVE  C' \subseteq C
  BY <1>4, DirtyClients, ClientRecords DEF Creating, TypeOK
<1>5. CASE UNCHANGED <<nodes, rels, cl>>
  BY <1>3, <1>5 DEF Matching, Creating
<1>6. ASSUME NEW c \in Clients, NEW u \in Users \cup {None}, NEW e \in Ids \cup {None},
             NEW p, AddEntity(c, u, e, p)
      PROVE  Cardinality(M') + Cardinality(C') <= Cardinality(Clients)
  <2>1. M' = M
    BY <1>6, AddEntityStep DEF Matching
  <2>2. CASE cl' = Dirty(u)
    BY <1>3, <1>4, <2>1, <2>2
  <2>3. CASE /\ Matching(u, e) = {}
             /\ cl' = [cl EXCEPT ![c] = [pc |-> "create", user |-> u, id |-> e,
                                         props |-> [user |-> u, id |-> e]]]
    <3>1. CASE u = v /\ e = i
      <4>1. Cardinality(M') = 0
        BY <2>1, <2>3, <3>1, FS_EmptySet
      <4> HIDE DEF M, C
      <4> QED
        BY <1>1, <4>1
    <3>2. CASE ~(u = v /\ e = i)
      <4>1. C' \subseteq C
        BY <2>3, <3>2 DEF Creating, TypeOK
      <4> QED
        BY <1>3, <2>1, <4>1
    <3> QED
      BY <3>1, <3>2
  <2> QED
    BY <1>6, <2>2, <2>3, AddEntityStep
<1>7. ASSUME NEW c \in Clients, MergeCreate(c)
      PROVE  Cardinality(M') + Cardinality(C') <= Cardinality(Clients)
  <2>1. PICK k \in Keys : /\ nodes[k] = None
                          /\ nodes' = [nodes EXCEPT ![k] = [user |-> cl[c].user, id |-> cl[c].id]]
    BY <1>7, MergeCreateStep
  <2>2. cl[c] \in Adding /\ cl' = [Dirty(cl[c].user) EXCEPT ![c] = Idle]
    BY <1>7, MergeCreateStep
  <2>3. M' \subseteq M \cup {k} /\ k \notin M
    BY <2>1, NodeRecords DEF Matching, TypeOK
  <2>4. C' \subseteq C \ {c}
    BY <2>2, DirtyClients, ClientRecords DEF Creating, TypeOK
  <2>5. CASE c \in C
    <3> HIDE DEF M, C
    <3>1. Cardinality(M') <= Cardinality(M \cup {k}) /\ IsFiniteSet(M \cup {k})
      BY <1>1, <2>3, FS_AddElement, FS_Subset
    <3>2. Cardinality(M \cup {k}) = Cardinality(M) + 1
      BY <1>1, <2>3, FS_AddElement
    <3>3. Cardinality(C') <= Cardinality(C \ {c}) /\ IsFiniteSet(C \ {c})
      BY <1>1, <2>4, FS_RemoveElement, FS_Subset
    <3>4. Cardinality(C \ {c}) = Cardinality(C) - 1
      BY <1>1, <2>5, FS_RemoveElement
    <3> QED
      BY <1>1, <1>2, <3>1, <3>2, <3>3, <3>4
  <2>6. CASE c \notin C
    <3>1. ~(cl[c].user = v /\ cl[c].id = i)
      BY <2>2, <2>6, ClientRecords DEF Creating
    <3>2. [user |-> cl[c].user, id |-> cl[c].id] # [user |-> v, id |-> i]
      BY <3>1
    <3>3. M' \subseteq M
      BY <2>1, <3>2 DEF Matching, TypeOK
    <3> QED
      BY <1>3, <2>4, <3>3
  <2> QED
    BY <2>5, <2>6
<1>8. ASSUME NEW c \in Clients, NEW u \in Users, NEW e1 \in Ids, NEW e2 \in Ids,
             NEW t \in Types, AddRelationship(c, u, e1, e2, t)
      PROVE  Cardinality(M') + Cardinality(C') <= Cardinality(Clients)
  <2>1. nodes' = nodes /\ cl' = Dirty(u)
    BY <1>8, AddRelationshipStep
  <2>2. M' = M
    BY <2>1 DEF Matching
  <2> QED
    BY <1>3, <1>4, <2>1, <2>2
<1>9. ASSUME NEW c \in Clients, NEW u \in Users,
             (\E e \in Ids : DeleteEntity(c, u, e)) \/ ClearAll(c, u)
      PROVE  Cardinality(M') + Cardinality(C') <= Cardinality(Clients)
  <2>1. PICK m \in SUBSET OfUser(u) : DetachDelete(u, m)
    BY <1>9, DeleteStep
  <2>2. M' \subseteq M
    BY <2>1, NodeRecords DEF DetachDelete, Matching
  <2> QED
    BY <1>3, <1>4, <2>1, <2>2 DEF DetachDelete
<1>10. ASSUME NEW c \in Clients,
             \/ \E u \in Users : GetStats(c, u)
             \/ \E q \in Queries : StatsQuery(c, q)
             \/ StatsReturn(c)
             \/ Fails(c)
      PROVE  Cardinality(M') + Cardinality(C') <= Cardinality(Clients)
  <2>1. M' = M
    BY <1>10, StatsStep DEF Matching
  <2>2. PICK x \in {Idle} \cup Counting : cl' = [cl EXCEPT ![c] = x]
    BY <1>10, StatsStep
  <2>3. C' \subseteq C
    BY <2>2, ClientRecords DEF Creating, TypeOK
  <2> QED
    BY <1>3, <2>1, <2>3
<1> QED
  BY NextCases, <1>5, <1>6, <1>7, <1>8, <1>9, <1>10

(* MERGE is a match and a creation, and nothing makes the pair of user and *)
(* id unique: concurrent calls of AddEntity can each create a node of the  *)
(* same entity, but there are never more of them than clients.             *)
THEOREM DuplicatesBounded == Spec => []DuplicatesByClients
<1>1. Init => TypeOK /\ DuplicatesByClients
  <2> SUFFICES ASSUME Init PROVE TypeOK /\ DuplicatesByClients
    OBVIOUS
  <2>1. ASSUME NEW u \in Users, NEW e \in Ids
        PROVE  Matching(u, e) = {} /\ Creating(u, e) = {}
    BY NodeRecords, ClientRecords DEF Init, Matching, Creating
  <2>2. Cardinality({}) = 0 /\ Cardinality(Clients) \in Nat
    BY FS_EmptySet, MatchingFinite
  <2> QED
    BY <2>1, <2>2, GraphInit DEF DuplicatesByClients
<1>2. TypeOK /\ DuplicatesByClients /\ [Next]_vars => TypeOK' /\ DuplicatesByClients'
  BY TypeStep, DuplicatesStep
<1> QED
  BY <1>1, <1>2, PTL DEF Spec
-----------------------------------------------------------------------------
(* Induction over the numbers in a set, from the order being well founded. *)

LEMMA LessThan == \E R : IsWellFoundedOn(R, Nat) /\ \A a, b \in Nat : <<a, b>> \in R <=> a < b
<1> DEFINE R == OpToRel(<, Nat)
<1>1. IsWellFoundedOn(R, Nat)
  BY NatLessThanWellFounded, Zenon
<1>2. \A a, b \in Nat : <<a, b>> \in R <=> a < b
  BY DEF OpToRel
<1> WITNESS R
<1> QED
  BY <1>1, <1>2, Zenon

LEMMA LeastNumber ==
    ASSUME NEW T, T \subseteq Nat, NEW x \in T
    PROVE  \E m \in T : \A y \in T : ~(y < m)
<1>1. PICK R : IsWellFoundedOn(R, Nat) /\ \A a, b \in Nat : <<a, b>> \in R <=> a < b
  BY LessThan
<1>2. PICK m \in T : \A y \in T : ~ (<<y, m>> \in R)
  BY <1>1, WFMin
<1> QED
  BY <1>1, <1>2

LEMMA NumbersInSet ==
    ASSUME NEW S, 0 \in S, \A n \in Nat : n \in S => n + 1 \in S
    PROVE  Nat \subseteq S
<1> SUFFICES ASSUME NEW T, T = Nat \ S, NEW x \in T PROVE FALSE
  OBVIOUS
<1>1. PICK m \in T : \A y \in T : ~(y < m)
  <2>1. T \subseteq Nat
    OBVIOUS
  <2> QED
    BY <2>1, LeastNumber
<1>2. m \in Nat /\ m # 0 /\ m - 1 \in Nat
  BY <1>1
<1>3. m - 1 \in S
  BY <1>1, <1>2
<1> QED
  BY <1>1, <1>2, <1>3

-----------------------------------------------------------------------------
(* Reads.                                                                  *)

(* The function that Paths defines by recursion exists.                    *)
LEMMA PathsFunction ==
    ASSUME NEW u, NEW e, NEW types, NEW n \in Nat
    PROVE  \E P : /\ P[0] = Starts(u, e)
                  /\ \A d \in 0..n - 1 : P[d + 1] = Further(P[d], types)
                  /\ Paths(u, e, types, n) = P[n]
<1> DEFINE Def(f, m) == f = [d \in 0..m |-> IF d = 0 THEN Starts(u, e)
                                             ELSE Further(f[d - 1], types)]
           S == {m \in Nat : \E f : Def(f, m)}
           P == CHOOSE f : Def(f, n)
<1>1. 0 \in S
  <2>1. Def([d \in 0..0 |-> Starts(u, e)], 0)
    OBVIOUS
  <2> HIDE DEF Def
  <2> QED
    BY <2>1
<1>2. ASSUME NEW m \in Nat, m \in S
      PROVE  m + 1 \in S
  <2>1. PICK f : Def(f, m)
    BY <1>2
  <2> DEFINE g == [d \in 0..m + 1 |-> IF d = m + 1 THEN Further(f[m], types) ELSE f[d]]
  <2>2. Def(g, m + 1)
    <3>1. \A d \in 0..m : f[d] = IF d = 0 THEN Starts(u, e)
                                  ELSE Further(f[d - 1], types)
      BY <2>1
    <3>2. ASSUME NEW d \in 0..m + 1
          PROVE  g[d] = IF d = 0 THEN Starts(u, e) ELSE Further(g[d - 1], types)
      <4>1. CASE d = m + 1
        BY <4>1
      <4>2. CASE d \in 0..m
        BY <3>1, <4>2
      <4> QED
        BY <4>1, <4>2
    <3> QED
      BY <3>2
  <2> HIDE DEF Def, g
  <2> QED
    BY <2>2
<1>3. n \in S
  <2> HIDE DEF S
  <2> QED
    BY <1>1, <1>2, NumbersInSet
<1>4. \E f : Def(f, n)
  BY <1>3
<1>5. Def(P, n)
  BY <1>4, Zenon
<1>6. Paths(u, e, types, n) = P[n]
  BY Zenon DEF Paths
<1>7. P[0] = Starts(u, e)
  <2> HIDE DEF P
  <2> QED
    BY <1>5
<1>8. ASSUME NEW d \in 0..n - 1
      PROVE  P[d + 1] = Further(P[d], types)
  <2> HIDE DEF P
  <2>1. d + 1 \in 0..n /\ d + 1 # 0 /\ (d + 1) - 1 = d
    OBVIOUS
  <2> QED
    BY <1>5, <2>1
<1> HIDE DEF P
<1> QED
  BY <1>6, <1>7, <1>8

(* A relationship leads from a node of a user to a node of that user.      *)
LEMMA FurtherStays ==
    ASSUME TypeOK, JoinsOneUser, NEW u, NEW types, NEW ps,
           \A p \in ps : p.last \in OfUser(u) /\ p.passed \subseteq OfUser(u)
    PROVE  \A p \in Further(ps, types) : p.last \in OfUser(u) /\ p.passed \subseteq OfUser(u)
<1> SUFFICES ASSUME NEW p \in ps, NEW r \in Usable(p, types)
             PROVE  /\ Extend(p, r).last \in OfUser(u)
                    /\ Extend(p, r).passed \subseteq OfUser(u)
  BY DEF Further
<1>1. r \in rels /\ p.last \in {r.from, r.to}
  BY DEF Usable
<1>2. r.from \in Keys /\ r.to \in Keys
  BY <1>1 DEF TypeOK, Relationships
<1>3. r.from \in OfUser(u) /\ r.to \in OfUser(u)
  BY <1>1, <1>2 DEF JoinsOneUser, OfUser
<1> QED
  BY <1>3 DEF Extend

LEMMA PathsStay ==
    ASSUME TypeOK, JoinsOneUser, NEW u \in Users, NEW e \in Ids, NEW types, NEW n \in Nat,
           NEW p \in Paths(u, e, types, n)
    PROVE  p.passed \subseteq OfUser(u)
<1>1. PICK P : /\ P[0] = Starts(u, e)
               /\ \A d \in 0..n - 1 : P[d + 1] = Further(P[d], types)
               /\ Paths(u, e, types, n) = P[n]
  BY PathsFunction
<1> DEFINE Stay(d) == \A q \in P[d] : q.last \in OfUser(u) /\ q.passed \subseteq OfUser(u)
           S == {d \in Nat : d \in 0..n => Stay(d)}
<1>2. Stay(0)
  <2>1. P[0] = Starts(u, e)
    BY <1>1
  <2>2. Matching(u, e) \subseteq OfUser(u)
    <3> SUFFICES ASSUME NEW k \in Keys, nodes[k] = [user |-> u, id |-> e]
                 PROVE  nodes[k] # None /\ nodes[k].user = u
      BY DEF Matching, OfUser
    <3>1. nodes[k].user = u
      OBVIOUS
    <3> QED
      BY <3>1, NodeRecords
  <2> QED
    BY <2>1, <2>2 DEF Starts
<1>3. ASSUME NEW d \in Nat, d + 1 \in 0..n, Stay(d)
      PROVE  Stay(d + 1)
  <2>1. P[d + 1] = Further(P[d], types)
    BY <1>1, <1>3
  <2>2. \A q \in Further(P[d], types) : q.last \in OfUser(u) /\ q.passed \subseteq OfUser(u)
    BY <1>3, FurtherStays
  <2> QED
    BY <2>1, <2>2
<1>4. Nat \subseteq S
  <2>1. 0 \in S
    BY <1>2
  <2>2. \A d \in Nat : d \in S => d + 1 \in S
    <3> HIDE DEF Stay
    <3> QED
      BY <1>3
  <2> HIDE DEF S
  <2> QED
    BY <2>1, <2>2, NumbersInSet
<1>5. Stay(n)
  BY <1>4
<1> QED
  BY <1>1, <1>5

LEMMA DirectionRight ==
    ASSUME TypeOK, JoinsOneUser, NEW u \in Users, NEW e \in Ids,
           NEW x \in GetEntityRelationships(u, e)
    PROVE  (x.direction = "outgoing") = (x.rel.from = x.node)
<1>1. PICK y \in rels \X Matching(u, e) \X OfUser(u) :
        /\ \/ y[1].from = y[2] /\ y[1].to = y[3]
           \/ y[1].to = y[2] /\ y[1].from = y[3]
        /\ x = [rel |-> y[1], node |-> y[2], other |-> y[3],
                direction |-> IF nodes[y[1].from].id = e THEN "outgoing" ELSE "incoming"]
  BY DEF GetEntityRelationships
<1> DEFINE r == y[1]
           k == y[2]
<1>2. r \in rels /\ nodes[k] = [user |-> u, id |-> e] /\ (r.from = k \/ r.to = k)
  BY <1>1 DEF Matching
<1>3. nodes[k].id = e
  BY <1>2
<1>4. nodes[r.from].id = e <=> r.from = k
  BY <1>2, <1>3 DEF JoinsOneUser
<1>5. /\ x.rel = r /\ x.node = k
      /\ x.direction = IF nodes[r.from].id = e THEN "outgoing" ELSE "incoming"
  BY <1>1
<1>6. x.direction = "outgoing" <=> x.rel.from = x.node
  BY <1>4, <1>5
<1> QED
  BY <1>6, Zenon

(* A path from one entity of a user to another passes only nodes of that   *)
(* user, however long it is, and the direction of a relationship is right  *)
(* although it is decided by comparing ids that duplicates share.          *)
THEOREM ReadsOfOneUser == Spec => []ReadsRight
<1>1. Init => TypeOK /\ JoinsOneUser
  BY GraphInit
<1>2. TypeOK /\ JoinsOneUser /\ [Next]_vars => TypeOK' /\ JoinsOneUser'
  BY TypeStep, JoinsStep
<1>3. TypeOK /\ JoinsOneUser => ReadsRight
  <2> SUFFICES ASSUME TypeOK, JoinsOneUser, NEW u \in Users, NEW e \in Ids
               PROVE  /\ \A p \in FindRelatedEntities(u, e, Types, MaxDepth) :
                            p.passed \subseteq OfUser(u)
                      /\ \A x \in GetEntityRelationships(u, e) :
                            (x.direction = "outgoing") = (x.rel.from = x.node)
    BY DEF ReadsRight
  <2>1. MaxDepth \in Nat
    BY GraphStoreAssumption
  <2>2. \A p \in FindRelatedEntities(u, e, Types, MaxDepth) : p.passed \subseteq OfUser(u)
    BY <2>1, PathsStay DEF FindRelatedEntities
  <2> QED
    BY <2>2, DirectionRight
<1> QED
  BY <1>1, <1>2, <1>3, PTL DEF Spec
-----------------------------------------------------------------------------
(* Statistics.                                                             *)

Incident(v) == {r \in rels : r.from \in OfUser(v) \/ r.to \in OfUser(v)}

(* What a client has counted, if it counts for v and saw no write.         *)
Counted(x, v) ==
    x.pc = "stats" /\ ~x.dirty /\ x.user = v =>
        /\ x.got["total_nodes"] \in {None, Cardinality(OfUser(v))}
        /\ x.got["entity_nodes"] \in {None, Cardinality(OfUser(v))}
        /\ x.got["total_relationships"] \in {None, Cardinality(Incident(v))}

LEMMA StatsAsCounted ==
    StatsCoherent <=> \A c \in Clients : Counted(cl[c], cl[c].user)
BY DEF StatsCoherent, Counted, Incident

(* A write for u leaves the graphs of other users alone.                   *)
LEMMA OthersKept ==
    ASSUME TypeOK, JoinsOneUser, [Next]_vars, NEW u \in Users, NEW v \in Users, u # v,
           NEW c \in Clients,
           \/ MergeCreate(c) /\ cl[c].user = u
           \/ \E e1, e2 \in Ids, t \in Types : AddRelationship(c, u, e1, e2, t)
           \/ (\E e \in Ids : DeleteEntity(c, u, e)) \/ ClearAll(c, u)
    PROVE  OfUser(v)' = OfUser(v) /\ Incident(v)' = Incident(v)
<1>0. ASSUME NEW r \in rels
      PROVE  /\ r.from \in Keys /\ r.to \in Keys
             /\ nodes[r.from] # None /\ nodes[r.to] # None
             /\ nodes[r.from].user = nodes[r.to].user
  BY DEF TypeOK, JoinsOneUser, Relationships
<1>1. CASE MergeCreate(c) /\ cl[c].user = u
  <2>1. PICK k \in Keys :
            /\ nodes[k] = None
            /\ nodes' = [nodes EXCEPT ![k] = [user |-> u, id |-> cl[c].id]]
    BY <1>1, MergeCreateStep
  <2>2. rels' = rels
    BY <1>1, MergeCreateStep
  <2>3. k \notin OfUser(v) /\ k \notin OfUser(v)'
    <3>1. nodes'[k].user = u
      BY <2>1 DEF TypeOK
    <3> QED
      BY <2>1, <3>1 DEF OfUser
  <2>4. OfUser(v)' = OfUser(v)
    BY <2>1, <2>3 DEF OfUser, TypeOK, Keys
  <2> QED
    BY <2>2, <2>4 DEF Incident
<1>2. ASSUME NEW e1 \in Ids, NEW e2 \in Ids, NEW t \in Types, AddRelationship(c, u, e1, e2, t)
      PROVE  OfUser(v)' = OfUser(v) /\ Incident(v)' = Incident(v)
  <2>1. PICK i, j \in Keys : /\ Matching(u, e1) = {i} /\ Matching(u, e2) = {j}
                             /\ rels' = rels \cup {[from |-> i, type |-> t, to |-> j]}
    BY <1>2, AddRelationshipStep
  <2>2. nodes' = nodes
    BY <1>2, AddRelationshipStep
  <2>3. OfUser(v)' = OfUser(v)
    BY <2>2 DEF OfUser
  <2>4. nodes[i] = [user |-> u, id |-> e1] /\ nodes[j] = [user |-> u, id |-> e2]
    BY <2>1 DEF Matching
  <2>5. nodes[i].user = u /\ nodes[j].user = u
    BY <2>4
  <2>6. i \notin OfUser(v) /\ j \notin OfUser(v)
    BY <2>5 DEF OfUser
  <2>7. ASSUME NEW r, r = [from |-> i, type |-> t, to |-> j]
        PROVE  r.from \notin OfUser(v) /\ r.to \notin OfUser(v)
    <3>1. r.from = i /\ r.to = j
      BY <2>7
    <3> QED
      BY <2>6, <3>1
  <2> QED
    BY <2>1, <2>3, <2>7 DEF Incident
<1>3. CASE (\E e \in Ids : DeleteEntity(c, u, e)) \/ ClearAll(c, u)
  <2>1. PICK m \in SUBSET OfUser(u) : DetachDelete(u, m)
    BY <1>3, DeleteStep
  <2>2. m \cap OfUser(v) = {}
    BY <2>1 DEF OfUser
  <2>3. OfUser(v)' = OfUser(v)
    BY <2>1, <2>2 DEF OfUser, DetachDelete, Keys
  <2>4. ASSUME NEW r \in rels, r.from \in OfUser(v) \/ r.to \in OfUser(v)
        PROVE  r.from \in OfUser(v) /\ r.to \in OfUser(v)
    BY <1>0, <2>4 DEF OfUser
  <2>5. \A r \in Incident(v) : r \in rels'
    BY <2>1, <2>2, <2>4 DEF DetachDelete, Incident
  <2>6. rels' \subseteq rels
    BY <2>1 DEF DetachDelete
  <2> QED
    BY <2>3, <2>5, <2>6 DEF Incident
<1> QED
  BY <1>1, <1>2, <1>3

(* A client that still counts for v, on an unchanged graph of v.           *)
LEMMA CountedKept ==
    ASSUME NEW d \in Clients, NEW v, Counted(cl[d], cl[d].user),
           cl[d].pc = "stats", cl'[d].pc = "stats", ~cl'[d].dirty => ~cl[d].dirty,
           cl[d].user = v, cl'[d].user = v, cl'[d].got = cl[d].got,
           ~cl'[d].dirty => OfUser(v)' = OfUser(v) /\ Incident(v)' = Incident(v)
    PROVE  Counted(cl[d], cl[d].user)'
<1> SUFFICES ASSUME ~cl'[d].dirty
             PROVE  /\ cl'[d].got["total_nodes"] \in {None, Cardinality(OfUser(v)')}
                    /\ cl'[d].got["entity_nodes"] \in {None, Cardinality(OfUser(v)')}
                    /\ cl'[d].got["total_relationships"] \in {None, Cardinality(Incident(v)')}
  BY DEF Counted, Incident, OfUser
<1>1. ~cl[d].dirty
  OBVIOUS
<1>2. /\ cl[d].got["total_nodes"] \in {None, Cardinality(OfUser(v))}
      /\ cl[d].got["entity_nodes"] \in {None, Cardinality(OfUser(v))}
      /\ cl[d].got["total_relationships"] \in {None, Cardinality(Incident(v))}
  BY <1>1 DEF Counted
<1> QED
  BY <1>2

LEMMA CountedStep ==
    ASSUME TypeOK, JoinsOneUser, StatsCoherent, [Next]_vars
    PROVE  StatsCoherent'
<1> SUFFICES ASSUME NEW d \in Clients
             PROVE  Counted(cl[d], cl[d].user)'
  BY DEF StatsCoherent, Counted, Incident
<1>0. Counted(cl[d], cl[d].user)
  BY StatsAsCounted
<1>1. ASSUME cl'[d].pc # "stats"
      PROVE  Counted(cl[d], cl[d].user)'
  BY <1>1 DEF Counted
<1>2. ASSUME cl'[d] = cl[d], UNCHANGED <<nodes, rels>>
      PROVE  Counted(cl[d], cl[d].user)'
  BY <1>0, <1>2 DEF Counted, OfUser, Incident
(* A write for u, after which the clients are those of Dirty(u), but for   *)
(* one that may have become idle.                                          *)
<1>3. ASSUME NEW u \in Users, cl'[d] = Dirty(u)[d],
             \A v \in Users : u # v => OfUser(v)' = OfUser(v) /\ Incident(v)' = Incident(v)
      PROVE  Counted(cl[d], cl[d].user)'
  <2>1. CASE cl[d] \notin Counting
    <3>1. cl'[d] \in {Idle} \cup Adding
      BY <1>3, <2>1, DirtyClients DEF TypeOK
    <3> QED
      BY <1>1, <3>1, ClientRecords
  <2>2. CASE cl[d] \in Counting
    <3>1. PICK v \in Users : v = cl[d].user
      BY <2>2, ClientRecords
    <3>2. /\ cl'[d] \in Counting /\ cl'[d].user = cl[d].user /\ cl'[d].got = cl[d].got
          /\ ~cl'[d].dirty => ~cl[d].dirty /\ cl[d].user # u
      BY <1>3, <2>2, DirtyClients
    <3>3. cl[d].pc = "stats" /\ cl'[d].pc = "stats"
      BY <2>2, <3>2, ClientRecords
    <3>4. ~cl'[d].dirty => OfUser(v)' = OfUser(v) /\ Incident(v)' = Incident(v)
      BY <1>3, <3>1, <3>2
    <3> QED
      BY <1>0, <3>1, <3>2, <3>3, <3>4, CountedKept
  <2> QED
    BY <2>1, <2>2
<1>4. CASE UNCHANGED <<nodes, rels, cl>>
  BY <1>2, <1>4
<1>5. ASSUME NEW c \in Clients, NEW u \in Users \cup {None}, NEW e \in Ids \cup {None},
             NEW p, AddEntity(c, u, e, p)
      PROVE  Counted(cl[d], cl[d].user)'
  <2>1. u \in Users /\ UNCHANGED <<nodes, rels>>
    BY <1>5, AddEntityStep
  <2>2. CASE cl' = Dirty(u)
    BY <1>3, <2>1, <2>2 DEF OfUser, Incident
  <2>3. CASE cl' = [cl EXCEPT ![c] = [pc |-> "create", user |-> u, id |-> e,
                                      props |-> [user |-> u, id |-> e]]]
    <3>1. CASE c = d
      BY <1>1, <2>3, <3>1 DEF TypeOK
    <3>2. CASE c # d
      BY <1>2, <2>1, <2>3, <3>2 DEF TypeOK
    <3> QED
      BY <3>1, <3>2
  <2> QED
    BY <1>5, <2>2, <2>3, AddEntityStep
<1>6. ASSUME NEW c \in Clients, MergeCreate(c)
      PROVE  Counted(cl[d], cl[d].user)'
  <2>1. /\ cl[c] \in Adding /\ cl' = [Dirty(cl[c].user) EXCEPT ![c] = Idle]
    BY <1>6, MergeCreateStep
  <2>2. PICK u \in Users : u = cl[c].user
    BY <2>1, ClientRecords
  <2>3. CASE c = d
    BY <1>1, <2>1, <2>3, DirtyClients, ClientRecords
  <2>4. CASE c # d
    <3>1. cl'[d] = Dirty(u)[d]
      BY <2>1, <2>2, <2>4, DirtyClients
    <3>2. \A v \in Users : u # v => OfUser(v)' = OfUser(v) /\ Incident(v)' = Incident(v)
      BY <1>6, <2>2, OthersKept
    <3> QED
      BY <1>3, <3>1, <3>2
  <2> QED
    BY <2>3, <2>4
<1>7. ASSUME NEW c \in Clients, NEW u \in Users, NEW e1 \in Ids, NEW e2 \in Ids,
             NEW t \in Types, AddRelationship(c, u, e1, e2, t)
      PROVE  Counted(cl[d], cl[d].user)'
  <2>1. cl'[d] = Dirty(u)[d]
    BY <1>7, AddRelationshipStep
  <2>2. \A v \in Users : u # v => OfUser(v)' = OfUser(v) /\ Incident(v)' = Incident(v)
    BY <1>7, OthersKept
  <2> QED
    BY <1>3, <2>1, <2>2
<1>8. ASSUME NEW c \in Clients, NEW u \in Users,
             (\E e \in Ids : DeleteEntity(c, u, e)) \/ ClearAll(c, u)
      PROVE  Counted(cl[d], cl[d].user)'
  <2>1. cl'[d] = Dirty(u)[d]
    BY <1>8, DeleteStep DEF DetachDelete
  <2>2. \A v \in Users : u # v => OfUser(v)' = OfUser(v) /\ Incident(v)' = Incident(v)
    BY <1>8, OthersKept
  <2> QED
    BY <1>3, <2>1, <2>2
<1>9. ASSUME NEW c \in Clients, c # d,
             \/ \E u \in Users : GetStats(c, u)
             \/ \E q \in Queries : StatsQuery(c, q)
             \/ StatsReturn(c)
             \/ Fails(c)
      PROVE  Counted(cl[d], cl[d].user)'
  <2>1. UNCHANGED <<nodes, rels>> /\ \E x : cl' = [cl EXCEPT ![c] = x]
    BY <1>9, StatsStep
  <2> QED
    BY <1>2, <1>9, <2>1 DEF TypeOK
<1>10. ASSUME NEW u \in Users, GetStats(d, u)
       PROVE  Counted(cl[d], cl[d].user)'
  <2>1. cl'[d] = [pc |-> "stats", user |-> u, dirty |-> FALSE, got |-> [q \in Queries |-> None]]
    BY <1>10 DEF GetStats, TypeOK
  <2>2. \A q \in Queries : cl'[d].got[q] = None
    BY <2>1
  <2>3. {"total_nodes", "entity_nodes", "total_relationships"} \subseteq Queries
    BY DEF Queries
  <2> QED
    BY <2>2, <2>3 DEF Counted
<1>11. ASSUME StatsReturn(d) \/ Fails(d)
       PROVE  Counted(cl[d], cl[d].user)'
  <2>1. cl'[d] = Idle
    BY <1>11 DEF StatsReturn, Fails, TypeOK
  <2> QED
    BY <1>1, <2>1, ClientRecords
<1>12. ASSUME NEW q \in Queries, StatsQuery(d, q)
       PROVE  Counted(cl[d], cl[d].user)'
  <2>1. cl[d] \in Counting
    BY <1>12, ClientRecords DEF StatsQuery, TypeOK
  <2>2. PICK v \in Users : v = cl[d].user
    BY <2>1, ClientRecords
  <2>3. UNCHANGED <<nodes, rels>>
    BY <1>12 DEF StatsQuery
  <2>4. OfUser(v)' = OfUser(v) /\ Incident(v)' = Incident(v)
    BY <2>3 DEF OfUser, Incident
  <2>5. /\ cl'[d].user = v /\ cl'[d].dirty = cl[d].dirty
        /\ cl'[d].got = [cl[d].got EXCEPT ![q] = Count(q, v)]
    BY <1>12, <2>1, <2>2 DEF StatsQuery, TypeOK, Counting
  <2>6. {r \in rels : {r.from, r.to} \subseteq OfUser(v)} = Incident(v)
    BY DEF Incident, JoinsOneUser, OfUser, TypeOK, Relationships
  <2>7. /\ Count("total_nodes", v) = Cardinality(OfUser(v))
        /\ Count("entity_nodes", v) = Cardinality(OfUser(v))
        /\ Count("total_relationships", v) = Cardinality(Incident(v))
    BY <2>6 DEF Count
  <2>8. cl[d].got \in [Queries -> Nat \cup {None}] /\ cl[d].pc = "stats"
    BY <2>1, ClientRecords
  <2>9. \A k \in Queries : cl'[d].got[k] = IF k = q THEN Count(q, v) ELSE cl[d].got[k]
    BY <2>5, <2>8
  <2>10. SUFFICES ASSUME ~cl[d].dirty
                  PROVE  /\ cl'[d].got["total_nodes"] \in {None, Cardinality(OfUser(v))}
                         /\ cl'[d].got["entity_nodes"] \in {None, Cardinality(OfUser(v))}
                         /\ cl'[d].got["total_relationships"] \in {None, Cardinality(Incident(v))}
    BY <2>4, <2>5 DEF Counted, Incident, OfUser
  <2>11. /\ cl[d].got["total_nodes"] \in {None, Cardinality(OfUser(v))}
         /\ cl[d].got["entity_nodes"] \in {None, Cardinality(OfUser(v))}
         /\ cl[d].got["total_relationships"] \in {None, Cardinality(Incident(v))}
    BY <1>0, <2>2, <2>8, <2>10 DEF Counted
  <2>12. {"total_nodes", "entity_nodes", "total_relationships"} \subseteq Queries
    BY DEF Queries
  <2> QED
    BY <2>7, <2>9, <2>11, <2>12
<1>13. ASSUME NEW c \in Clients,
             \/ \E u \in Users : GetStats(c, u)
             \/ \E q \in Queries : StatsQuery(c, q)
             \/ StatsReturn(c)
             \/ Fails(c)
       PROVE  Counted(cl[d], cl[d].user)'
  BY <1>9, <1>10, <1>11, <1>12, <1>13
<1> QED
  BY NextCases, <1>4, <1>5, <1>6, <1>7, <1>8, <1>13

(* The counts of one GetStats are made in transactions of their own; those *)
(* of one client are the counts of one graph unless a write for its user   *)
(* was committed between them: writes for other users never matter.        *)
THEOREM StatsOfOneGraph == Spec => []StatsCoherent
<1>1. Init => TypeOK /\ JoinsOneUser /\ StatsCoherent
  <2> SUFFICES ASSUME Init PROVE StatsCoherent
    BY GraphInit
  <2>1. \A c \in Clients : cl[c].pc # "stats"
    BY ClientRecords DEF Init
  <2> QED
    BY <2>1 DEF StatsCoherent
<1>2. TypeOK /\ JoinsOneUser /\ StatsCoherent /\ [Next]_vars
        => TypeOK' /\ JoinsOneUser' /\ StatsCoherent'
  BY TypeStep, JoinsStep, CountedStep
<1> QED
  BY <1>1, <1>2, PTL DEF Spec
=============================================================================
