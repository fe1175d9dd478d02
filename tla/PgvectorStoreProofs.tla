------------------------ MODULE PgvectorStoreProofs ------------------------
(***************************************************************************)
(* Proofs about PgvectorStore: how far clients can exceed the limit of a   *)
(* user together, and that what the queries see is a memory store of the   *)
(* capacity this gives; for any clients, users, contents and limit.        *)
(***************************************************************************)
EXTENDS PgvectorStore, TLAPS, FunctionTheorems, FiniteSetTheorems

Row == [content : Contents, deleted : BOOLEAN]

RowsOK ==
    /\ rows = [u \in Users |-> rows[u]]
    /\ \A u \in Users : DOMAIN rows[u] \subseteq Contents /\ rows[u] \in [DOMAIN rows[u] -> Row]

Call == [user : Users, content : Contents, admitted : BOOLEAN]

-----------------------------------------------------------------------------
LEMMA TypeInit == Init => TypeOK
<1> SUFFICES ASSUME Init PROVE TypeOK
  OBVIOUS
<1>1. \A u \in Users : DOMAIN rows[u] = {} /\ rows[u] \in [DOMAIN rows[u] -> Row]
  BY DEF Init
<1> QED
  BY <1>1 DEF Init, TypeOK, Row

(* A step that changes the rows of one user to a function of the right     *)
(* type keeps the type of rows.                                            *)
LEMMA RowsType ==
    ASSUME TypeOK, NEW u \in Users, NEW S \in SUBSET Contents, NEW f \in [S -> Row],
           rows' = [rows EXCEPT ![u] = f]
    PROVE  RowsOK' /\ rows'[u] = f /\ \A v \in Users \ {u} : rows'[v] = rows[v]
<1>1. /\ rows = [v \in Users |-> rows[v]]
      /\ \A v \in Users : DOMAIN rows[v] \subseteq Contents /\ rows[v] \in [DOMAIN rows[v] -> Row]
  BY DEF TypeOK, Row
<1>2. rows' = [v \in Users |-> IF v = u THEN f ELSE rows[v]]
  BY <1>1
<1>3. rows' = [v \in Users |-> rows'[v]] /\ rows'[u] = f /\ \A v \in Users \ {u} : rows'[v] = rows[v]
  BY <1>2
<1>4. DOMAIN f = S
  OBVIOUS
<1> QED
  BY <1>1, <1>3, <1>4 DEF RowsOK

(* What each statement writes for its user.                                *)
Upserted(u, m) ==
    [i \in DOMAIN rows[u] \cup {m} |->
        IF i = m THEN [content |-> m, deleted |-> FALSE] ELSE rows[u][i]]

Updated(u, i, m) == [rows[u] EXCEPT ![i].content = m]

LEMMA UpsertedType ==
    ASSUME TypeOK, NEW u \in Users, NEW m \in Contents
    PROVE  Upserted(u, m) \in [DOMAIN rows[u] \cup {m} -> Row] /\ DOMAIN rows[u] \cup {m} \in SUBSET Contents
  BY DEF TypeOK, Upserted, Row

LEMMA UpdatedType ==
    ASSUME TypeOK, NEW u \in Users, NEW i \in Live(u), NEW m \in Contents
    PROVE  /\ Updated(u, i, m) \in [DOMAIN rows[u] -> Row] /\ DOMAIN rows[u] \in SUBSET Contents
           /\ \A j \in DOMAIN rows[u] :
                Updated(u, i, m)[j] = IF j = i THEN [content |-> m, deleted |-> rows[u][i].deleted]
                                      ELSE rows[u][j]
<1>1. rows[u] \in [DOMAIN rows[u] -> Row] /\ DOMAIN rows[u] \subseteq Contents /\ i \in DOMAIN rows[u]
  BY DEF TypeOK, Row, Live
<1> QED
  BY <1>1 DEF Updated, Row

LEMMA EraseType ==
    ASSUME TypeOK, NEW u \in Users, NEW I
    PROVE  \E S \in SUBSET Contents :
            /\ Erase(u, I) \in [S -> Row]
            /\ S \subseteq DOMAIN rows[u]
            /\ \A i \in S : Erase(u, I)[i].content = rows[u][i].content
            /\ {i \in S : ~Erase(u, I)[i].deleted} = Live(u) \ I
<1>1. rows[u] \in [DOMAIN rows[u] -> Row] /\ DOMAIN rows[u] \subseteq Contents
  BY DEF TypeOK, Row
<1>2. CASE softDelete
  <2>1. Erase(u, I) = [i \in DOMAIN rows[u] |->
            [content |-> rows[u][i].content, deleted |-> rows[u][i].deleted \/ i \in I]]
    BY <1>2 DEF Erase
  <2>2. Erase(u, I) \in [DOMAIN rows[u] -> Row]
    BY <1>1, <2>1 DEF Row
  <2>3. \A i \in DOMAIN rows[u] : Erase(u, I)[i].deleted = (rows[u][i].deleted \/ i \in I)
    BY <2>1
  <2>4. {i \in DOMAIN rows[u] : ~Erase(u, I)[i].deleted} = Live(u) \ I
    BY <2>3, Zenon DEF Live
  <2> QED
    BY <1>1, <2>1, <2>2, <2>4
<1>3. CASE ~softDelete
  <2>1. Erase(u, I) = [i \in DOMAIN rows[u] \ I |-> rows[u][i]]
    BY <1>3 DEF Erase
  <2>2. Erase(u, I) \in [DOMAIN rows[u] \ I -> Row]
    BY <1>1, <2>1
  <2>3. {i \in DOMAIN rows[u] \ I : ~Erase(u, I)[i].deleted} = Live(u) \ I
    BY <2>1 DEF Live
  <2> QED
    BY <1>1, <2>1, <2>2, <2>3
<1> QED
  BY <1>2, <1>3

(* What a step does to the rows a user's queries see, and to pend: the     *)
(* only facts the following needs.                                         *)
Effect ==
    \/ /\ UNCHANGED rows
       /\ \E k \in Clients, u \in Users, m \in Contents :
            pend' = [pend EXCEPT ![k] = [user |-> u, content |-> m, admitted |-> Admits(u, m)]]
    \/ /\ UNCHANGED rows
       /\ \/ UNCHANGED pend
          \/ \E k \in Clients : pend' = [pend EXCEPT ![k] = NoAdd]
    \/ \E k \in Clients :
        /\ pend[k] \in Call /\ pend[k].admitted
        /\ rows' = [rows EXCEPT ![pend[k].user] = Upserted(pend[k].user, pend[k].content)]
        /\ pend' = [pend EXCEPT ![k] = NoAdd]
    \/ \E u \in Users, i, m \in Contents :
        i \in Live(u) /\ rows' = [rows EXCEPT ![u] = Updated(u, i, m)] /\ UNCHANGED pend
    \/ \E u \in Users, I \in SUBSET Contents :
        rows' = [rows EXCEPT ![u] = Erase(u, I)] /\ UNCHANGED pend

LEMMA StepEffect == ASSUME TypeOK, [Next]_vars PROVE Effect
<1>1. CASE UNCHANGED vars
  BY <1>1 DEF vars, Effect
<1>2. ASSUME NEW k \in Clients, Rejected(k) PROVE Effect
  BY <1>2 DEF Rejected, Effect
<1>3. ASSUME NEW k \in Clients, AddEnd(k) PROVE Effect
  <2>1. pend[k] \in Call /\ pend' = [pend EXCEPT ![k] = NoAdd]
    BY <1>3 DEF AddEnd, Idle, TypeOK, Call
  <2>2. CASE UNCHANGED rows
    BY <2>1, <2>2 DEF Effect
  <2>3. CASE pend[k].admitted /\ Upsert(pend[k].user, pend[k].content)
    BY <2>1, <2>3 DEF Effect, Upsert, Upserted
  <2> QED
    BY <1>3, <2>2, <2>3 DEF AddEnd
<1>4. ASSUME NEW k \in Clients, NEW u \in Users, NEW m \in Contents, AddStart(k, u, m) PROVE Effect
  BY <1>4 DEF AddStart, Effect
<1>5. ASSUME NEW k \in Clients, NEW u \in Users, NEW m \in Contents, Delete(k, u, m) PROVE Effect
  <2>1. {m} \in SUBSET Contents
    OBVIOUS
  <2> QED
    BY <1>5, <2>1 DEF Delete, Effect
<1>6. ASSUME NEW k \in Clients, NEW u \in Users, NEW i \in Contents, NEW m \in Contents, Update(k, u, i, m)
      PROVE  Effect
  <2>1. rows' = [rows EXCEPT ![u] = Updated(u, i, m)]
    BY <1>6 DEF Update, Updated
  <2> QED
    BY <1>6, <2>1 DEF Update, Effect
<1>7. ASSUME NEW k \in Clients, NEW u \in Users, Clear(k, u) PROVE Effect
  BY <1>7 DEF Clear, Effect
<1> QED
  BY <1>1, <1>2, <1>3, <1>4, <1>5, <1>6, <1>7 DEF Next

LEMMA TypeStep == ASSUME TypeOK, [Next]_vars PROVE TypeOK'
<1>1. softDelete' \in BOOLEAN
  BY DEF TypeOK, Next, vars, Rejected, AddEnd, AddStart, Delete, Update, Clear
<1>2. answer' \in [Clients -> {"none", "added", "updated", "removed", "err"}]
  BY DEF TypeOK, Next, vars, Rejected, AddEnd, AddStart, Delete, Update, Clear
<1>3. pend' \in [Clients -> {NoAdd} \cup Call]
  <2>1. pend \in [Clients -> {NoAdd} \cup Call]
    BY DEF TypeOK, Call
  <2>2. \A u, m : Admits(u, m) \in BOOLEAN
    BY DEF Admits
  <2> QED
    BY <2>1, <2>2, StepEffect DEF Effect, Call
<1>4. RowsOK'
  <2>1. CASE UNCHANGED rows
    BY <2>1 DEF TypeOK, Row, RowsOK
  <2>2. ASSUME NEW u \in Users, NEW m \in Contents, rows' = [rows EXCEPT ![u] = Upserted(u, m)]
        PROVE  RowsOK'
    BY <2>2, UpsertedType, RowsType
  <2>3. ASSUME NEW u \in Users, NEW i \in Live(u), NEW m \in Contents, rows' = [rows EXCEPT ![u] = Updated(u, i, m)]
        PROVE  RowsOK'
    BY <2>3, UpdatedType, RowsType
  <2>4. ASSUME NEW u \in Users, NEW I, rows' = [rows EXCEPT ![u] = Erase(u, I)]
        PROVE  RowsOK'
    BY <2>4, EraseType, RowsType
  <2> QED
    BY <2>1, <2>2, <2>3, <2>4, StepEffect DEF Effect, Call
<1> QED
  BY <1>1, <1>2, <1>3, <1>4 DEF TypeOK, Row, Call, RowsOK

(* The rows of every store satisfy their type.                             *)
THEOREM TableTypeCorrect == Spec => []TypeOK
<1>1. TypeOK /\ [Next]_vars => TypeOK'
  BY TypeStep
<1> QED
  BY <1>1, TypeInit, PTL DEF Spec

-----------------------------------------------------------------------------
(* The images of a finite set are not more than its elements.              *)
LEMMA ImageBound ==
    ASSUME NEW S, IsFiniteSet(S), NEW f, NEW T, T = {f[x] : x \in S}
    PROVE  IsFiniteSet(T) /\ Cardinality(T) <= Cardinality(S)
<1> DEFINE g == [x \in S |-> f[x]]
<1>1. g \in Surjection(S, T)
  BY DEF Surjection
<1> QED
  BY <1>1, FS_Surjection

(* Clients are not writing more contents than there are clients.           *)
ContentsOf(q, u) == {q[k].content : k \in {l \in Clients : q[l].admitted /\ q[l].user = u}}

LEMMA PendingBound ==
    ASSUME NEW q, NEW u
    PROVE  LET P == ContentsOf(q, u) IN
           /\ IsFiniteSet(P) /\ Cardinality(P) \in Nat
           /\ Cardinality(Clients) \in Nat \ {0}
           /\ Cardinality(P) <= Cardinality(Clients)
<1> DEFINE D == {l \in Clients : q[l].admitted /\ q[l].user = u}
           h == [k \in D |-> q[k].content]
           P == ContentsOf(q, u)
<1>1. IsFiniteSet(D) /\ Cardinality(D) <= Cardinality(Clients)
  BY FS_Subset, PgvectorAssumption
<1>2. P = {h[k] : k \in D}
  BY DEF ContentsOf
<1> HIDE DEF D, h, P
<1>3. IsFiniteSet(P) /\ Cardinality(P) <= Cardinality(D)
  BY <1>1, <1>2, ImageBound
<1>4. Cardinality(P) \in Nat /\ Cardinality(D) \in Nat /\ Cardinality(Clients) \in Nat
  BY <1>1, <1>3, FS_CardinalityType, PgvectorAssumption
<1>5. Cardinality(Clients) # 0
  BY FS_EmptySet, PgvectorAssumption
<1> QED
  BY <1>1, <1>3, <1>4, <1>5 DEF P

LEMMA LiveFinite ==
    ASSUME TypeOK, NEW u \in Users
    PROVE  Live(u) \subseteq Contents /\ IsFiniteSet(Live(u)) /\ Cardinality(Live(u)) \in Nat
<1>1. Live(u) \subseteq Contents
  BY DEF TypeOK, Live
<1> QED
  BY <1>1, FS_Subset, FS_CardinalityType, PgvectorAssumption

LEMMA RowsAt ==
    ASSUME TypeOK, NEW u \in Users, NEW f, rows' = [rows EXCEPT ![u] = f], NEW v \in Users
    PROVE  rows'[u] = f /\ (v # u => rows'[v] = rows[v])
<1>1. rows = [w \in Users |-> rows[w]]
  BY DEF TypeOK
<1> QED
  BY <1>1

(* What the queries see of a user after each of the statements.            *)
LEMMA LiveUpserted ==
    ASSUME TypeOK, NEW u \in Users, NEW m \in Contents,
           rows' = [rows EXCEPT ![u] = Upserted(u, m)], NEW v \in Users
    PROVE  Live(v)' = IF v = u THEN Live(u) \cup {m} ELSE Live(v)
<1>1. rows'[u] = Upserted(u, m) /\ (v # u => rows'[v] = rows[v])
  BY RowsAt
<1>2. /\ DOMAIN Upserted(u, m) = DOMAIN rows[u] \cup {m}
      /\ ~Upserted(u, m)[m].deleted
      /\ \A i \in DOMAIN rows[u] \ {m} : Upserted(u, m)[i] = rows[u][i]
  BY DEF Upserted
<1> QED
  BY <1>1, <1>2 DEF Live

LEMMA LiveUpdated ==
    ASSUME TypeOK, NEW u \in Users, NEW i \in Live(u), NEW m \in Contents,
           rows' = [rows EXCEPT ![u] = Updated(u, i, m)], NEW v \in Users
    PROVE  Live(v)' = Live(v)
<1>1. rows'[u] = Updated(u, i, m) /\ (v # u => rows'[v] = rows[v])
  BY RowsAt
<1>2. DOMAIN Updated(u, i, m) = DOMAIN rows[u]
      /\ \A j \in DOMAIN rows[u] : Updated(u, i, m)[j].deleted = rows[u][j].deleted
  BY DEF Updated
<1> QED
  BY <1>1, <1>2 DEF Live

LEMMA LiveErased ==
    ASSUME TypeOK, NEW u \in Users, NEW I, rows' = [rows EXCEPT ![u] = Erase(u, I)],
           NEW v \in Users
    PROVE  Live(v)' = IF v = u THEN Live(u) \ I ELSE Live(v)
<1>1. PICK S \in SUBSET Contents :
        Erase(u, I) \in [S -> Row] /\ {i \in S : ~Erase(u, I)[i].deleted} = Live(u) \ I
  BY EraseType
<1>2. rows'[u] = Erase(u, I) /\ (v # u => rows'[v] = rows[v])
  BY RowsAt
<1>3. DOMAIN Erase(u, I) = S
  BY <1>1
<1> QED
  BY <1>1, <1>2, <1>3 DEF Live

(* An Add counts from the moment its condition is decided, so that writing *)
(* its row adds nothing.                                                   *)
LEMMA LimitStep ==
    ASSUME TypeOK, LimitExceededByClients, [Next]_vars
    PROVE  LimitExceededByClients'
<1> SUFFICES ASSUME memoryLimit > 0, NEW u \in Users
             PROVE  Cardinality(Live(u)' \cup Pending(u)') < memoryLimit + Cardinality(Clients)
  BY DEF LimitExceededByClients
<1> DEFINE All == Live(u) \cup Pending(u)
<1>1. /\ IsFiniteSet(Live(u)) /\ Cardinality(Live(u)) \in Nat
      /\ IsFiniteSet(Pending(u)) /\ IsFiniteSet(Pending(u)') /\ Cardinality(Pending(u)') \in Nat
      /\ Cardinality(Clients) \in Nat /\ memoryLimit \in Nat
      /\ Cardinality(Pending(u)') <= Cardinality(Clients)
  <2>1. IsFiniteSet(Live(u)) /\ Cardinality(Live(u)) \in Nat
    BY LiveFinite
  <2>2. Pending(u) = ContentsOf(pend, u) /\ Pending(u)' = ContentsOf(pend', u)
    BY DEF Pending, ContentsOf
  <2>3. IsFiniteSet(ContentsOf(pend, u))
    BY PendingBound
  <2>4. /\ IsFiniteSet(ContentsOf(pend', u)) /\ Cardinality(ContentsOf(pend', u)) \in Nat
        /\ Cardinality(Clients) \in Nat \ {0}
        /\ Cardinality(ContentsOf(pend', u)) <= Cardinality(Clients)
    BY PendingBound
  <2> QED
    BY <2>1, <2>2, <2>3, <2>4, PgvectorAssumption
<1>2. IsFiniteSet(All) /\ Cardinality(All) \in Nat
      /\ Cardinality(All) < memoryLimit + Cardinality(Clients)
  BY <1>1, FS_Union, FS_CardinalityType DEF LimitExceededByClients
<1>3. ASSUME Live(u)' \subseteq All, Pending(u)' \subseteq All
      PROVE  Cardinality(Live(u)' \cup Pending(u)') < memoryLimit + Cardinality(Clients)
  <2> DEFINE New == Live(u)' \cup Pending(u)'
  <2>1. New \in SUBSET All
    BY <1>3
  <2>2. IsFiniteSet(New) /\ Cardinality(New) <= Cardinality(All) /\ Cardinality(New) \in Nat
    BY <1>2, <2>1, FS_Subset, FS_CardinalityType
  <2> QED
    BY <1>1, <1>2, <2>2
<1>4. pend \in [Clients -> {NoAdd} \cup Call]
  BY DEF TypeOK, Call
<1>5. ASSUME NEW k \in Clients, pend' = [pend EXCEPT ![k] = NoAdd]
      PROVE  Pending(u)' \subseteq Pending(u)
  BY <1>4, <1>5 DEF Pending, NoAdd
<1>6. CASE /\ UNCHANGED rows
           /\ \E k \in Clients, w \in Users, m \in Contents :
                pend' = [pend EXCEPT ![k] = [user |-> w, content |-> m, admitted |-> Admits(w, m)]]
  <2>1. PICK k \in Clients, w \in Users, m \in Contents :
            pend' = [pend EXCEPT ![k] = [user |-> w, content |-> m, admitted |-> Admits(w, m)]]
    BY <1>6
  <2>2. Live(u)' = Live(u)
    BY <1>6 DEF Live
  <2>3. Pending(u)' \subseteq Pending(u) \cup (IF w = u /\ Admits(u, m) THEN {m} ELSE {})
    BY <1>4, <2>1 DEF Pending
  <2>4. CASE w = u /\ Cardinality(Live(u)) < memoryLimit
    <3>1. Cardinality(Live(u) \cup Pending(u)')
            = Cardinality(Live(u)) + Cardinality(Pending(u)') - Cardinality(Live(u) \cap Pending(u)')
      BY <1>1, FS_Union
    <3>2. Cardinality(Live(u) \cap Pending(u)') \in Nat
      BY <1>1, FS_Subset, FS_CardinalityType
    <3> QED
      BY <1>1, <2>2, <2>4, <3>1, <3>2
  <2>5. CASE ~(w = u /\ Cardinality(Live(u)) < memoryLimit)
    <3>1. Pending(u)' \subseteq All
      BY <1>1, <2>3, <2>5 DEF Admits
    <3> QED
      BY <1>3, <2>2, <3>1
  <2> QED
    BY <2>4, <2>5
<1>7. CASE /\ UNCHANGED rows
           /\ \/ UNCHANGED pend
              \/ \E k \in Clients : pend' = [pend EXCEPT ![k] = NoAdd]
  <2>1. Live(u)' = Live(u)
    BY <1>7 DEF Live
  <2>2. Pending(u)' \subseteq Pending(u)
    BY <1>5, <1>7 DEF Pending
  <2> QED
    BY <1>3, <2>1, <2>2
<1>8. ASSUME NEW k \in Clients, pend[k] \in Call, pend[k].admitted,
             rows' = [rows EXCEPT ![pend[k].user] = Upserted(pend[k].user, pend[k].content)],
             pend' = [pend EXCEPT ![k] = NoAdd]
      PROVE  Cardinality(Live(u)' \cup Pending(u)') < memoryLimit + Cardinality(Clients)
  <2>1. pend[k].user \in Users /\ pend[k].content \in Contents
    BY <1>8 DEF Call
  <2>2. Live(u)' = IF u = pend[k].user THEN Live(u) \cup {pend[k].content} ELSE Live(u)
    BY <1>8, <2>1, LiveUpserted
  <2>3. u = pend[k].user => pend[k].content \in Pending(u)
    BY <1>8 DEF Pending
  <2> QED
    BY <1>3, <1>5, <1>8, <2>2, <2>3
<1>9. ASSUME NEW w \in Users, NEW i \in Live(w), NEW m \in Contents,
             rows' = [rows EXCEPT ![w] = Updated(w, i, m)], UNCHANGED pend
      PROVE  Cardinality(Live(u)' \cup Pending(u)') < memoryLimit + Cardinality(Clients)
  BY <1>3, <1>9, LiveUpdated DEF Pending
<1>10. ASSUME NEW w \in Users, NEW I, rows' = [rows EXCEPT ![w] = Erase(w, I)], UNCHANGED pend
       PROVE  Cardinality(Live(u)' \cup Pending(u)') < memoryLimit + Cardinality(Clients)
  <2>1. Live(u)' \subseteq Live(u)
    BY <1>10, LiveErased
  <2> QED
    BY <1>3, <1>10, <2>1 DEF Pending
<1> QED
  BY StepEffect, <1>6, <1>7, <1>8, <1>9, <1>10 DEF Effect

(* Initially nothing is stored and nothing is being written.               *)
LEMMA LimitInit == Init => LimitExceededByClients
<1> SUFFICES ASSUME Init, memoryLimit > 0, NEW u \in Users
             PROVE  Cardinality(Live(u) \cup Pending(u)) < memoryLimit + Cardinality(Clients)
  BY DEF LimitExceededByClients
<1>1. Live(u) \cup Pending(u) = {}
  <2>1. Live(u) = {}
    BY DEF Init, Live
  <2>2. \A k \in Clients : ~pend[k].admitted
    BY DEF Init, NoAdd
  <2> QED
    BY <2>1, <2>2 DEF Pending
<1>2. Cardinality(Clients) \in Nat \ {0}
  BY PendingBound
<1>3. Cardinality(Live(u) \cup Pending(u)) = 0
  BY <1>1, FS_EmptySet
<1> QED
  BY <1>2, <1>3, PgvectorAssumption

(* For any number of clients and any limit: since the count in the         *)
(* statement of Add is not taken together with the write of its row, a     *)
(* user may end up with more items than memoryLimit, but with less than    *)
(* one more for every client.                                              *)
THEOREM LimitHolds == Spec => []LimitExceededByClients
<1>1. TypeOK /\ LimitExceededByClients /\ [Next]_vars => LimitExceededByClients'
  BY LimitStep
<1> QED
  BY <1>1, LimitInit, TableTypeCorrect, PTL DEF Spec

-----------------------------------------------------------------------------
(* How each statement changes what the queries see, in the terms of        *)
(* MemoryStore.                                                            *)
LEMMA VisibleAt ==
    /\ \A v \in Users : Visible[v] = [i \in Live(v) |-> rows[v][i].content]
    /\ \A v \in Users : DOMAIN Visible[v] = Live(v)
    /\ \A v \in Users : \A i \in Live(v) : Visible[v][i] = rows[v][i].content
  BY DEF Visible

(* Visible' is what it is changed to at u, and the same elsewhere.         *)
LEMMA VisibleStep ==
    ASSUME NEW u \in Users, NEW f,
           [i \in Live(u)' |-> rows'[u][i].content] = f,
           \A v \in Users \ {u} : rows'[v] = rows[v] /\ Live(v)' = Live(v)
    PROVE  Visible' = [Visible EXCEPT ![u] = f]
<1>1. Visible' = [v \in Users |-> [i \in Live(v)' |-> rows'[v][i].content]]
  BY DEF Visible
<1>2. [Visible EXCEPT ![u] = f]
        = [v \in Users |-> IF v = u THEN f ELSE [i \in Live(v) |-> rows[v][i].content]]
  BY DEF Visible
<1>3. \A v \in Users : [i \in Live(v)' |-> rows'[v][i].content]
                       = IF v = u THEN f ELSE [i \in Live(v) |-> rows[v][i].content]
  OBVIOUS
<1> QED
  BY <1>1, <1>2, <1>3

LEMMA VisibleUpserted ==
    ASSUME TypeOK, NEW u \in Users, NEW m \in Contents,
           rows' = [rows EXCEPT ![u] = Upserted(u, m)]
    PROVE  Visible' = [Visible EXCEPT ![u] =
              [i \in DOMAIN Visible[u] \cup {m} |-> IF i = m THEN m ELSE Visible[u][i]]]
<1> DEFINE f == [i \in DOMAIN Visible[u] \cup {m} |-> IF i = m THEN m ELSE Visible[u][i]]
<1>1. \A v \in Users \ {u} : rows'[v] = rows[v] /\ Live(v)' = Live(v)
  BY RowsAt, LiveUpserted
<1>2. rows'[u] = Upserted(u, m) /\ Live(u)' = Live(u) \cup {m}
  BY RowsAt, LiveUpserted
<1>3. /\ Upserted(u, m)[m].content = m
      /\ \A i \in Live(u) \ {m} : Upserted(u, m)[i].content = rows[u][i].content
  BY DEF Upserted, Live
<1>4. f = [i \in Live(u) \cup {m} |-> IF i = m THEN m ELSE rows[u][i].content]
  BY VisibleAt
<1>5. [i \in Live(u)' |-> rows'[u][i].content] = f
  BY <1>2, <1>3, <1>4
<1> HIDE DEF f
<1>6. Visible' = [Visible EXCEPT ![u] = f]
  BY <1>1, <1>5, VisibleStep
<1> QED
  BY <1>6 DEF f

LEMMA VisibleUpdated ==
    ASSUME TypeOK, NEW u \in Users, NEW i \in Live(u), NEW m \in Contents,
           rows' = [rows EXCEPT ![u] = Updated(u, i, m)]
    PROVE  Visible' = [Visible EXCEPT ![u][i] = m]
<1> DEFINE f == [Visible[u] EXCEPT ![i] = m]
<1>1. \A v \in Users \ {u} : rows'[v] = rows[v] /\ Live(v)' = Live(v)
  BY RowsAt, LiveUpdated
<1>2. rows'[u] = Updated(u, i, m) /\ Live(u)' = Live(u)
  BY RowsAt, LiveUpdated
<1>3. \A j \in Live(u) : Updated(u, i, m)[j].content = IF j = i THEN m ELSE rows[u][j].content
  <2>1. \A j \in DOMAIN rows[u] : Updated(u, i, m)[j] =
            IF j = i THEN [content |-> m, deleted |-> rows[u][i].deleted] ELSE rows[u][j]
    BY UpdatedType
  <2> QED
    BY <2>1 DEF Live
<1>4. f = [j \in Live(u) |-> IF j = i THEN m ELSE rows[u][j].content]
  BY VisibleAt
<1>5. [j \in Live(u)' |-> rows'[u][j].content] = f
  BY <1>2, <1>3, <1>4
<1> HIDE DEF f
<1>6. Visible' = [Visible EXCEPT ![u] = f]
  BY <1>1, <1>5, VisibleStep
<1> QED
  BY <1>6 DEF f

LEMMA VisibleErased ==
    ASSUME TypeOK, NEW u \in Users, NEW I, rows' = [rows EXCEPT ![u] = Erase(u, I)]
    PROVE  Visible' = [Visible EXCEPT ![u] = [i \in DOMAIN Visible[u] \ I |-> Visible[u][i]]]
<1> DEFINE f == [i \in DOMAIN Visible[u] \ I |-> Visible[u][i]]
<1>1. \A v \in Users \ {u} : rows'[v] = rows[v] /\ Live(v)' = Live(v)
  BY RowsAt, LiveErased
<1>2. rows'[u] = Erase(u, I) /\ Live(u)' = Live(u) \ I
  BY RowsAt, LiveErased
<1>3. \A i \in Live(u) \ I : Erase(u, I)[i].content = rows[u][i].content
  BY EraseType
<1>4. f = [i \in Live(u) \ I |-> rows[u][i].content]
  BY VisibleAt
<1>5. [i \in Live(u)' |-> rows'[u][i].content] = f
  BY <1>2, <1>3, <1>4
<1> HIDE DEF f
<1>6. Visible' = [Visible EXCEPT ![u] = f]
  BY <1>1, <1>5, VisibleStep
<1> QED
  BY <1>6 DEF f

(* There is room for what an admitted Add writes: the store of MemoryStore *)
(* has the capacity that clients can reach together.                       *)
LEMMA RoomForPending ==
    ASSUME TypeOK, LimitExceededByClients, NEW k \in Clients, pend[k] \in Call, pend[k].admitted,
           pend[k].content \notin Live(pend[k].user)
    PROVE  Cardinality(Live(pend[k].user)) < IF memoryLimit = 0 THEN Cardinality(Contents)
                                             ELSE memoryLimit + Cardinality(Clients) - 1
<1> DEFINE u == pend[k].user
           m == pend[k].content
           L == Live(u)
           Lm == Live(u) \cup {m}
<1>1. u \in Users /\ m \in Contents /\ m \in Pending(u) /\ m \notin L
  BY DEF Call, Pending
<1>2. L \subseteq Contents /\ IsFiniteSet(L) /\ Cardinality(L) \in Nat
  BY <1>1, LiveFinite
<1>3. Cardinality(Lm) = Cardinality(L) + 1 /\ IsFiniteSet(Lm)
  BY <1>1, <1>2, FS_AddElement
<1>4. CASE memoryLimit = 0
  <2>1. Lm \subseteq Contents
    BY <1>1, <1>2
  <2>2. Cardinality(Lm) <= Cardinality(Contents) /\ Cardinality(Contents) \in Nat
    BY <2>1, FS_Subset, FS_CardinalityType, PgvectorAssumption
  <2> QED
    BY <1>2, <1>3, <1>4, <2>2
<1>5. CASE memoryLimit > 0
  <2> DEFINE All == Live(u) \cup Pending(u)
  <2>1. Pending(u) = ContentsOf(pend, u) /\ IsFiniteSet(ContentsOf(pend, u))
        /\ Cardinality(Clients) \in Nat \ {0}
    BY PendingBound DEF Pending, ContentsOf
  <2>2. IsFiniteSet(All) /\ Cardinality(All) \in Nat
    BY <1>2, <2>1, FS_Union, FS_CardinalityType
  <2>3. Lm \subseteq All
    BY <1>1
  <2>4. Cardinality(Lm) <= Cardinality(All)
    BY <2>2, <2>3, FS_Subset
  <2>5. Cardinality(All) < memoryLimit + Cardinality(Clients)
    BY <1>1, <1>5 DEF LimitExceededByClients
  <2> HIDE DEF All, Lm, L
  <2>6. Cardinality(L) < memoryLimit + Cardinality(Clients) - 1
    BY <1>2, <1>3, <2>1, <2>2, <2>4, <2>5, PgvectorAssumption
  <2> QED
    BY <1>5, <2>6, PgvectorAssumption DEF L
<1> QED
  BY <1>4, <1>5, PgvectorAssumption

LEMMA RefineInit == Init => Store!Init
<1> SUFFICES ASSUME Init PROVE Store!Init
  OBVIOUS
<1>1. \A u \in Users : Live(u) = {}
  BY DEF Init, Live
<1>2. Visible = [u \in Users |-> <<>>]
  BY <1>1 DEF Visible
<1> QED
  BY <1>2 DEF Init, Store!Init

LEMMA RefineNext ==
    ASSUME TypeOK, LimitExceededByClients, [Next]_vars
    PROVE  [Store!Next]_<<Visible, answer>>
<1>1. ASSUME UNCHANGED rows PROVE UNCHANGED Visible
  BY <1>1 DEF Visible, Live
<1>2. CASE UNCHANGED vars
  BY <1>1, <1>2 DEF vars
<1>3. ASSUME NEW k \in Clients, UNCHANGED rows, answer' = [answer EXCEPT ![k] = "err"]
      PROVE  Store!Next
  BY <1>1, <1>3 DEF Store!Next, Store!Fail, Store!Answer
<1>4. ASSUME NEW k \in Clients, pend[k] \in Call, pend[k].admitted,
             Upsert(pend[k].user, pend[k].content),
             \E a \in {"added", "err"} : answer' = [answer EXCEPT ![k] = a]
      PROVE  Store!Next
  <2> DEFINE u == pend[k].user
             m == pend[k].content
  <2>1. pend[k] \in Call /\ pend[k].admitted /\ rows' = [rows EXCEPT ![u] = Upserted(u, m)]
        /\ \E a \in {"added", "err"} : answer' = [answer EXCEPT ![k] = a]
    BY <1>4 DEF Upsert, Upserted
  <2>2. u \in Users /\ m \in Contents
    BY <2>1 DEF Call
  <2>3. Visible' = [Visible EXCEPT ![u] =
            [i \in DOMAIN Visible[u] \cup {m} |-> IF i = m THEN m ELSE Visible[u][i]]]
    BY <2>1, <2>2, VisibleUpserted
  <2>4. DOMAIN Visible[u] = Live(u)
    BY <2>2, VisibleAt
  <2>5. m \in DOMAIN Visible[u] \/ Cardinality(DOMAIN Visible[u]) <
            IF memoryLimit = 0 THEN Cardinality(Contents) ELSE memoryLimit + Cardinality(Clients) - 1
    BY <2>1, <2>4, RoomForPending
  <2> HIDE DEF u, m
  <2>6. Store!Answer(k, {"added", "err"})
    BY <1>4 DEF Store!Answer
  <2>7. Store!Add(k, u, m)
    <3>1. Store!Cardinality(DOMAIN Visible[u]) = Cardinality(DOMAIN Visible[u])
      BY DEF Store!Cardinality, Cardinality
    <3> QED
      BY <2>3, <2>5, <2>6, <3>1 DEF Store!Add, Store!Stored
  <2> QED
    BY <2>2, <2>7 DEF Store!Next
<1>5. ASSUME NEW k \in Clients, NEW u \in Users, NEW i \in Contents, NEW m \in Contents, Update(k, u, i, m)
      PROVE  Store!Next
  <2>1. i \in Live(u) /\ rows' = [rows EXCEPT ![u] = Updated(u, i, m)]
    BY <1>5 DEF Update, Updated
  <2>2. Visible' = [Visible EXCEPT ![u][i] = m]
    BY <2>1, VisibleUpdated
  <2>3. i \in DOMAIN Visible[u]
    BY <2>1, VisibleAt
  <2>4. Store!Update(k, u, i, m)
    BY <1>5, <2>2, <2>3 DEF Update, Store!Update, Store!Stored, Store!Answer
  <2> QED
    BY <2>4 DEF Store!Next
<1>6. ASSUME NEW k \in Clients, NEW u \in Users, NEW I \in {{i} : i \in Contents} \cup {Contents},
             rows' = [rows EXCEPT ![u] = Erase(u, I)],
             \E a \in {"removed", "err"} : answer' = [answer EXCEPT ![k] = a]
      PROVE  Store!Next
  <2>1. Visible' = [Visible EXCEPT ![u] = [i \in DOMAIN Visible[u] \ I |-> Visible[u][i]]]
    BY <1>6, VisibleErased
  <2>2. Store!Remove(k, u, I)
    BY <1>6, <2>1 DEF Store!Remove, Store!Stored, Store!Answer
  <2> QED
    BY <2>2 DEF Store!Next
<1>7. ASSUME NEW k \in Clients, Rejected(k) PROVE Store!Next
  BY <1>3, <1>7 DEF Rejected
<1>8. ASSUME NEW k \in Clients, AddEnd(k) PROVE Store!Next
  <2>1. pend[k] \in Call
    BY <1>8 DEF AddEnd, Idle, TypeOK, Call
  <2> QED
    BY <1>3, <1>4, <1>8, <2>1 DEF AddEnd
<1>9. ASSUME NEW k \in Clients, NEW u \in Users, NEW m \in Contents, AddStart(k, u, m)
      PROVE  UNCHANGED <<Visible, answer>>
  BY <1>1, <1>9 DEF AddStart
<1>10. ASSUME NEW k \in Clients, NEW u \in Users, NEW m \in Contents, Delete(k, u, m) PROVE Store!Next
  BY <1>6, <1>10 DEF Delete
<1>11. ASSUME NEW k \in Clients, NEW u \in Users, Clear(k, u) PROVE Store!Next
  BY <1>6, <1>11 DEF Clear
<1> QED
  BY <1>2, <1>5, <1>7, <1>8, <1>9, <1>10, <1>11 DEF Next

(* What the queries of the pgvector store see is a memory store whose      *)
(* capacity is the limit plus one less than the number of clients, for any *)
(* clients, users, contents and limit, with or without softDelete.         *)
THEOREM PgvectorIsMemoryStore == Spec => Implements
<1>1. Spec => [](TypeOK /\ LimitExceededByClients)
  BY TableTypeCorrect, LimitHolds, PTL
<1>2. TypeOK /\ LimitExceededByClients /\ [Next]_vars => [Store!Next]_<<Visible, answer>>
  BY RefineNext
<1> QED
  BY <1>1, <1>2, RefineInit, PTL DEF Spec, Implements, Store!Spec
=============================================================================
