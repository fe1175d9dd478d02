----------------------- MODULE ShortTermMemoryProofs -----------------------
(***************************************************************************)
(* Proofs about ShortTermMemory: types, the agreement of ring and store,   *)
(* the capacity, the freshness of results and the window an Add leaves,    *)
(* for every set of ids, capacity, lifetime and number of failures.        *)
(***************************************************************************)
EXTENDS ShortTermMemory, TLAPS, SequenceTheorems, FiniteSetTheorems,
        NaturalsInduction, WellFoundedInduction

Injective(s) == \A i, j \in DOMAIN s : s[i] = s[j] => i = j

(* What the steps of a call have left to do at each point of it.           *)
CallOK ==
    /\ phase # "clean" => expired = {}
    /\ phase = "clean" => call.op \in {"add", "get", "list"}
    /\ phase = "clean" /\ call.op # "add" => items = <<>>
    /\ phase \notin {"clean", "add"} => items = <<>>

Inv == TypeOK /\ CallOK /\ Agreement

-----------------------------------------------------------------------------
(* Members, unfolded.                                                      *)
LEMMA MembersDef == ASSUME NEW s PROVE Members(s) = {s[i] : i \in DOMAIN s}
  BY DEF Members, Queue!Members

(* Removing an id from the ring removes it and nothing else.               *)
LEMMA RemovedEffect ==
    ASSUME NEW s \in Seq(Ids), Injective(s), NEW x
    PROVE  /\ Removed(s, x) \in Seq(Ids)
           /\ Injective(Removed(s, x))
           /\ Members(Removed(s, x)) = Members(s) \ {x}
<1>1. CASE x \notin Members(s)
  BY <1>1 DEF Removed
<1>2. CASE x \in Members(s)
  <2> DEFINE k == CHOOSE k \in DOMAIN s : s[k] = x
             t == [i \in 1..(Len(s) - 1) |-> IF i < k THEN s[i] ELSE s[i + 1]]
  <2>1. k \in DOMAIN s /\ s[k] = x
    <3>1. \E i \in DOMAIN s : s[i] = x
      BY <1>2, MembersDef
    <3> QED
      BY <3>1
  <2>2. Removed(s, x) = t
    BY <1>2 DEF Removed, Queue!Without
  <2> HIDE DEF k
  <2>3. /\ Len(s) \in Nat /\ DOMAIN s = 1..Len(s) /\ k \in 1..Len(s)
        /\ \A i \in 1..Len(s) : s[i] \in Ids
    BY <2>1
  <2>4. /\ DOMAIN t = 1..(Len(s) - 1)
        /\ \A i \in 1..(Len(s) - 1) : t[i] = IF i < k THEN s[i] ELSE s[i + 1]
    OBVIOUS
  <2>5. t \in Seq(Ids)
    <3>1. Len(s) - 1 \in Nat /\ \A i \in 1..(Len(s) - 1) : i \in 1..Len(s) /\ i + 1 \in 1..Len(s)
      BY <2>3
    <3> QED
      BY <2>3, <3>1
  <2>6. Injective(t)
    <3> SUFFICES ASSUME NEW i \in 1..(Len(s) - 1), NEW j \in 1..(Len(s) - 1), t[i] = t[j]
                 PROVE  i = j
      BY <2>4 DEF Injective
    <3> DEFINE a == IF i < k THEN i ELSE i + 1
               b == IF j < k THEN j ELSE j + 1
    <3>1. a \in 1..Len(s) /\ b \in 1..Len(s) /\ s[a] = s[b]
      BY <2>3, <2>4
    <3>2. a = b
      BY <2>3, <3>1 DEF Injective
    <3> QED
      BY <2>3, <3>2
  <2>7. Members(t) \subseteq Members(s) \ {x}
    <3> SUFFICES ASSUME NEW i \in 1..(Len(s) - 1) PROVE t[i] \in Members(s) \ {x}
      BY <2>4, MembersDef
    <3> DEFINE a == IF i < k THEN i ELSE i + 1
    <3>1. a \in 1..Len(s) /\ t[i] = s[a] /\ a # k
      BY <2>3, <2>4
    <3>2. s[a] # x
      BY <2>1, <2>3, <3>1 DEF Injective
    <3> QED
      BY <2>3, <3>1, <3>2, MembersDef
  <2>8. Members(s) \ {x} \subseteq Members(t)
    <3> SUFFICES ASSUME NEW i \in 1..Len(s), s[i] # x PROVE s[i] \in Members(t)
      BY <2>3, MembersDef
    <3> DEFINE a == IF i < k THEN i ELSE i - 1
    <3>1. i # k
      BY <2>1
    <3>2. a \in 1..(Len(s) - 1) /\ t[a] = s[i]
      BY <2>3, <2>4, <3>1
    <3> QED
      BY <2>4, <3>2, MembersDef
  <2> QED
    BY <2>2, <2>5, <2>6, <2>7, <2>8
<1> QED
  BY <1>1, <1>2

(* The ids of an extended sequence.                                        *)
LEMMA AppendMembers ==
    ASSUME NEW T, NEW s \in Seq(T), NEW x \in T
    PROVE  Append(s, x) \in Seq(T) /\ Members(Append(s, x)) = Members(s) \cup {x}
<1> DEFINE t == Append(s, x)
<1>1. /\ t \in Seq(T) /\ Len(s) \in Nat
      /\ \A i \in 1..Len(s) : t[i] = s[i]
      /\ t[Len(s) + 1] = x
      /\ DOMAIN s = 1..Len(s) /\ DOMAIN t = 1..(Len(s) + 1)
  BY AppendProperties
<1> HIDE DEF t
<1>2. /\ \A i \in 1..(Len(s) + 1) : i \in 1..Len(s) \/ i = Len(s) + 1
      /\ \A i \in 1..Len(s) : i \in 1..(Len(s) + 1)
      /\ Len(s) + 1 \in 1..(Len(s) + 1)
  BY <1>1
<1>3. Members(t) = Members(s) \cup {x}
  BY <1>1, <1>2, MembersDef
<1> QED
  BY <1>1, <1>3 DEF t

(* Pushing an id adds it.                                                  *)
LEMMA PushedEffect ==
    ASSUME NEW s \in Seq(Ids), Injective(s), NEW x \in Ids
    PROVE  /\ Pushed(s, x) \in Seq(Ids)
           /\ Injective(Pushed(s, x))
           /\ Members(Pushed(s, x)) = Members(s) \cup {x}
<1>1. CASE x \in Members(s)
  BY <1>1 DEF Pushed
<1>2. CASE x \notin Members(s)
  <2> DEFINE t == Append(s, x)
  <2>1. /\ t \in Seq(Ids) /\ Len(t) = Len(s) + 1 /\ Len(s) \in Nat
        /\ \A i \in 1..Len(s) : t[i] = s[i]
        /\ t[Len(s) + 1] = x
        /\ DOMAIN s = 1..Len(s) /\ DOMAIN t = 1..(Len(s) + 1)
    BY AppendProperties
  <2>2. Pushed(s, x) = t
    BY <1>2 DEF Pushed
  <2> HIDE DEF t
  <2>3. \A i \in 1..Len(s) : s[i] # x
    BY <1>2, <2>1, MembersDef
  <2>4. Injective(t)
    <3> SUFFICES ASSUME NEW i \in 1..(Len(s) + 1), NEW j \in 1..(Len(s) + 1), t[i] = t[j]
                 PROVE  i = j
      BY <2>1 DEF Injective
    <3> QED
      BY <2>1, <2>3 DEF Injective
  <2>5. Members(t) = Members(s) \cup {x}
    BY AppendMembers DEF t
  <2> QED
    BY <2>1, <2>2, <2>4, <2>5
<1> QED
  BY <1>1, <1>2

(* Popping the front removes it and nothing else.                          *)
LEMMA TailEffect ==
    ASSUME NEW s \in Seq(Ids), Injective(s), s # <<>>
    PROVE  /\ Head(s) \in Ids /\ Tail(s) \in Seq(Ids)
           /\ Injective(Tail(s))
           /\ Members(Tail(s)) = Members(s) \ {Head(s)}
<1> DEFINE t == Tail(s)
<1>1. /\ t \in Seq(Ids) /\ Len(t) = Len(s) - 1
      /\ \A i \in 1..(Len(s) - 1) : t[i] = s[i + 1]
      /\ Head(s) = s[1] /\ Head(s) \in Ids
  BY HeadTailProperties
<1>2. Len(s) \in Nat \ {0} /\ DOMAIN s = 1..Len(s) /\ DOMAIN t = 1..(Len(s) - 1)
  BY <1>1, EmptySeq
<1> HIDE DEF t
<1>3. Injective(t)
  <2> SUFFICES ASSUME NEW i \in 1..(Len(s) - 1), NEW j \in 1..(Len(s) - 1), t[i] = t[j]
               PROVE  i = j
    BY <1>2 DEF Injective
  <2>1. i + 1 \in DOMAIN s /\ j + 1 \in DOMAIN s /\ s[i + 1] = s[j + 1]
    BY <1>1, <1>2
  <2>2. i + 1 = j + 1
    BY <2>1 DEF Injective
  <2> QED
    BY <2>2
<1>4. Members(t) \subseteq Members(s) \ {Head(s)}
  <2> SUFFICES ASSUME NEW i \in 1..(Len(s) - 1) PROVE t[i] \in Members(s) \ {s[1]}
    BY <1>1, <1>2, MembersDef
  <2>1. i + 1 \in 1..Len(s) /\ 1 \in 1..Len(s) /\ i + 1 # 1
    BY <1>2
  <2>2. t[i] = s[i + 1] /\ s[i + 1] # s[1]
    BY <1>1, <1>2, <2>1 DEF Injective
  <2> QED
    BY <1>2, <2>1, <2>2, MembersDef
<1>5. Members(s) \ {Head(s)} \subseteq Members(t)
  <2> SUFFICES ASSUME NEW i \in 1..Len(s), s[i] # s[1] PROVE s[i] \in Members(t)
    BY <1>1, <1>2, MembersDef
  <2>1. i - 1 \in 1..(Len(s) - 1) /\ t[i - 1] = s[i]
    BY <1>1, <1>2
  <2> QED
    BY <1>2, <2>1, MembersDef
<1> QED
  BY <1>1, <1>3, <1>4, <1>5 DEF t

(* The ring holds finitely many ids.                                       *)
LEMMA MembersFinite ==
    ASSUME NEW s \in Seq(Ids), NEW S \in SUBSET Members(s)
    PROVE  IsFiniteSet(S) /\ Cardinality(S) \in Nat
<1>1. DOMAIN s = 1..Len(s) /\ Len(s) \in Nat /\ s = [i \in 1..Len(s) |-> s[i]]
  OBVIOUS
<1>2. \A i \in 1..Len(s) : s[i] \in Members(s)
  BY <1>1, MembersDef
<1>3. s \in Seq(Members(s))
  BY <1>1, <1>2
<1>4. \A x \in Members(s) : \E n \in 1..Len(s) : s[n] = x
  BY <1>1, MembersDef
<1>5. IsFiniteSet(Members(s))
  BY <1>3, <1>4 DEF IsFiniteSet
<1>6. IsFiniteSet(S)
  BY <1>5, FS_Subset
<1> QED
  BY <1>6, FS_CardinalityType

-----------------------------------------------------------------------------
(* A step that touches one id in ring and store keeps the agreement.       *)
LEMMA AgreementStep ==
    ASSUME Agreement, NEW x,
           Members(order') \ {x} = Members(order) \ {x},
           DOMAIN store' \ {x} = DOMAIN store \ {x},
           \/ doubtful' = doubtful \cup {x}
           \/ doubtful' = doubtful \ {x} /\ (x \in DOMAIN store' <=> x \in Members(order'))
    PROVE  Agreement'
<1>1. SUFFICES ASSUME NEW y \in Ids, y \notin doubtful'
               PROVE  y \in DOMAIN store' <=> y \in Members(order')
  BY DEF Agreement, Members, Queue!Members
<1>2. CASE y = x
  BY <1>1, <1>2
<1>3. CASE y # x
  <2>1. y \notin doubtful
    BY <1>1, <1>3
  <2>2. y \in DOMAIN store <=> y \in Members(order)
    BY <2>1 DEF Agreement
  <2> QED
    BY <1>3, <2>2
<1> QED
  BY <1>2, <1>3

(* A step that leaves ring, store and doubts alone keeps the agreement.    *)
LEMMA AgreementSame ==
    ASSUME Agreement, UNCHANGED <<order, store, doubtful>> PROVE Agreement'
  BY DEF Agreement, Members, Queue!Members

(* What a call of StoreDelete does.                                        *)
LEMMA DeleteEffect ==
    ASSUME TypeOK, NEW x \in Ids, StoreDelete(x)
    PROVE  /\ DOMAIN store' \subseteq DOMAIN store
           /\ DOMAIN store' \ {x} = DOMAIN store \ {x}
           /\ \A y \in DOMAIN store' : store'[y] = store[y]
           /\ faults' \in 0..MaxFaults /\ doubtful' \subseteq Ids
           /\ \/ doubtful' = doubtful \cup {x}
              \/ doubtful' = doubtful \ {x} /\ x \notin DOMAIN store'
<1>1. CASE StoreOk({x}, Without(x))
  BY <1>1 DEF StoreOk, Without, TypeOK
<1>2. CASE StoreFault({x}, Without(x))
  <2>1. faults' \in 0..MaxFaults
    BY <1>2, MemoryAssumption DEF StoreFault, TypeOK
  <2> QED
    BY <1>2, <2>1 DEF StoreFault, Without, TypeOK
<1> QED
  BY <1>1, <1>2 DEF StoreDelete

(* Reads of the store change nothing but the count of failures.            *)
LEMMA GetsEffect ==
    ASSUME TypeOK, NEW S, Cardinality(S) \in Nat, StoreGets(S)
    PROVE  faults' \in 0..MaxFaults /\ UNCHANGED <<store, doubtful>>
  BY MemoryAssumption DEF TypeOK, StoreGets

(* The first step of Add, Get and List.                                    *)
LEMMA ScanEffect ==
    ASSUME TypeOK, CleanupScan
    PROVE  /\ faults' \in 0..MaxFaults /\ expired' \subseteq Members(order)
           /\ phase' = "clean"
           /\ UNCHANGED <<order, store, doubtful, ret>>
<1>1. PICK failed \in SUBSET Members(order) :
         /\ StoreGets(failed)
         /\ expired' \subseteq Members(order)
         /\ phase' = "clean"
         /\ UNCHANGED <<order, ret>>
  BY DEF CleanupScan
<1>2. Cardinality(failed) \in Nat
  BY MembersFinite DEF TypeOK
<1> QED
  BY <1>1, <1>2, GetsEffect

(* Items of a batch.                                                       *)
LEMMA BatchType == ASSUME NEW batch \in Batches PROVE batch \in Seq(Items)
<1>1. PICK n \in 1..MaxBatch : batch \in [1..n -> Items]
  BY DEF Batches
<1>2. n \in Nat
  BY MemoryAssumption
<1> QED
  BY <1>1, <1>2

(* Before the first call.                                                  *)
LEMMA InvInit == Init => Inv
<1> SUFFICES ASSUME Init PROVE Inv
  OBVIOUS
<1>1. DOMAIN store = {} /\ Members(order) = {}
  BY MembersDef DEF Init, NoItems
<1>2. TypeOK
  BY <1>1, MemoryAssumption DEF Init, TypeOK, Phases
<1>3. CallOK
  BY DEF Init, CallOK
<1>4. Agreement
  BY <1>1 DEF Agreement
<1> QED
  BY <1>2, <1>3, <1>4 DEF Inv

(* Calls that begin with the cleanup.                                      *)
LEMMA InvBegin ==
    ASSUME Inv,
           \/ \E batch \in Batches : Add(batch)
           \/ \E id \in Ids : Get(id)
           \/ \E limit \in 0..1 : List(limit)
    PROVE  Inv'
<1>1. /\ CleanupScan /\ phase = "idle" /\ UNCHANGED <<now, late>>
      /\ call'.op \in {"add", "get", "list"}
      /\ \/ \E batch \in Batches : items' = batch /\ call'.op = "add"
         \/ items' = items
  BY DEF Add, Get, List, Begin
<1>2. /\ faults' \in 0..MaxFaults /\ expired' \subseteq Members(order)
      /\ phase' = "clean"
      /\ UNCHANGED <<order, store, doubtful, ret>>
  BY <1>1, ScanEffect DEF Inv
<1>3. items = <<>> /\ items' \in Seq(Items) /\ (call'.op # "add" => items' = <<>>)
  BY <1>1, BatchType DEF Inv, TypeOK
<1>4. Members(order)' = Members(order)
  BY <1>2 DEF Members, Queue!Members
<1>5. TypeOK'
  BY <1>1, <1>2, <1>3, <1>4 DEF Inv, TypeOK, Phases
<1>6. CallOK'
  BY <1>1, <1>2, <1>3 DEF CallOK
<1>7. Agreement'
  BY <1>2, AgreementSame DEF Inv
<1> QED
  BY <1>5, <1>6, <1>7 DEF Inv

(* cleanupExpiredLocked deletes one id from ring and store.                *)
LEMMA InvCleanupDelete == ASSUME Inv, CleanupDelete PROVE Inv'
<1>1. PICK x \in expired : /\ StoreDelete(x)
                           /\ order' = Removed(order, x)
                           /\ expired' = expired \ {x}
  BY DEF CleanupDelete
<1>2. x \in Ids
  BY MembersDef DEF Inv, TypeOK
<1>3. /\ order' \in Seq(Ids) /\ Injective(order')
      /\ Members(order') = Members(order) \ {x}
  BY <1>1, RemovedEffect DEF Inv, TypeOK, Injective
<1>4. /\ DOMAIN store' \subseteq DOMAIN store
      /\ DOMAIN store' \ {x} = DOMAIN store \ {x}
      /\ \A y \in DOMAIN store' : store'[y] = store[y]
      /\ faults' \in 0..MaxFaults /\ doubtful' \subseteq Ids
      /\ \/ doubtful' = doubtful \cup {x}
         \/ doubtful' = doubtful \ {x} /\ x \notin DOMAIN store'
  BY <1>1, <1>2, DeleteEffect DEF Inv
<1>5. phase = "clean" /\ UNCHANGED <<now, phase, call, items, ret, late>>
  BY DEF CleanupDelete
<1>6. Members(order)' = Members(order')
  BY DEF Members, Queue!Members
<1>7. TypeOK'
  BY <1>1, <1>3, <1>4, <1>5, <1>6 DEF Inv, TypeOK, Injective
<1>8. CallOK'
  BY <1>5 DEF Inv, CallOK
<1>9. Agreement'
  BY <1>3, <1>4, AgreementStep DEF Inv
<1> QED
  BY <1>7, <1>8, <1>9 DEF Inv

(* Add pushes and stores one item, or fails.                               *)
LEMMA InvAddItem == ASSUME Inv, AddItem PROVE Inv'
<1> DEFINE x == Head(items).id  e == ExpiresAt(Head(items))
<1>1. /\ Head(items) \in Items /\ Tail(items) \in Seq(Items)
  BY HeadTailProperties DEF AddItem, Inv, TypeOK
<1>2. x \in Ids /\ e \in 0..Never
  <2>1. /\ Head(items).exp \in Expiries \cup {Never} /\ x \in Ids
    BY <1>1 DEF Items
  <2>2. Never \in Nat /\ \A t \in Expiries : t \in Nat /\ t <= Never
    BY MemoryAssumption DEF Never
  <2>3. now + Ttl \in 0..Never
    BY MemoryAssumption DEF Never, Inv, TypeOK
  <2> QED
    BY <2>1, <2>2, <2>3 DEF ExpiresAt
<1>3. order' = Pushed(order, x) /\ phase = "add" /\ UNCHANGED <<now, call, expired>>
  BY DEF AddItem
<1>4. \/ StoreOk({x}, With(x, e)) /\ items' = Tail(items) /\ phase' = phase
      \/ StoreFault({x}, With(x, e)) /\ items' = <<>> /\ phase' = "idle"
  BY DEF AddItem
<1> HIDE DEF x, e
<1>5. /\ order' \in Seq(Ids) /\ Injective(order')
      /\ Members(order') = Members(order) \cup {x}
  BY <1>2, <1>3, PushedEffect DEF Inv, TypeOK, Injective
<1>6. /\ DOMAIN With(x, e) = DOMAIN store \cup {x}
      /\ \A y \in DOMAIN With(x, e) : With(x, e)[y] = IF y = x THEN e ELSE store[y]
  BY DEF With
<1>7. /\ DOMAIN store' \subseteq Ids /\ DOMAIN store' \ {x} = DOMAIN store \ {x}
      /\ \A y \in DOMAIN store' : store'[y] \in 0..Never
      /\ doubtful' \subseteq Ids
      /\ \/ doubtful' = doubtful \cup {x}
         \/ doubtful' = doubtful \ {x} /\ x \in DOMAIN store'
  BY <1>2, <1>4, <1>6 DEF StoreOk, StoreFault, Inv, TypeOK
<1>8. faults' \in 0..MaxFaults
  BY <1>4, MemoryAssumption DEF StoreOk, StoreFault, Inv, TypeOK
<1>9. expired' = {} /\ items' \in Seq(Items) /\ phase' \in {"add", "idle"}
      /\ (phase' = "idle" => items' = <<>>)
  <2>1. <<>> \in Seq(Items) /\ expired' = {}
    BY <1>3, EmptySeq DEF Inv, CallOK
  <2>2. /\ items' = Tail(items) \/ items' = <<>>
        /\ phase' = "add" \/ (phase' = "idle" /\ items' = <<>>)
    BY <1>3, <1>4
  <2> QED
    BY <1>1, <2>1, <2>2
<1>10. TypeOK'
  <2>1. late' \subseteq Ids
    BY <1>1 DEF AddItem, Items, Inv, TypeOK
  <2> QED
    BY <1>3, <1>5, <1>7, <1>8, <1>9, <2>1 DEF Inv, TypeOK, Injective, Phases
<1>11. CallOK'
  BY <1>9 DEF CallOK
<1>12. Agreement'
  BY <1>5, <1>7, AgreementStep DEF Inv
<1> QED
  BY <1>10, <1>11, <1>12 DEF Inv

(* trimLocked evicts the oldest id.                                        *)
LEMMA InvTrim == ASSUME Inv, Trim PROVE Inv'
<1> DEFINE x == Head(order)
<1>1. order # <<>>
  <2>1. Len(order) > 0
    BY MemoryAssumption DEF Trim, Over, Inv, TypeOK
  <2> QED
    BY <2>1
<1>2. /\ x \in Ids /\ order' \in Seq(Ids) /\ Injective(order')
      /\ Members(order') = Members(order) \ {x}
  BY <1>1, TailEffect DEF Trim, Inv, TypeOK, Injective
<1>3. StoreDelete(x) /\ phase = "trim" /\ UNCHANGED <<now, phase, call, items, expired, ret, late>>
  BY DEF Trim
<1> HIDE DEF x
<1>4. /\ DOMAIN store' \subseteq DOMAIN store
      /\ DOMAIN store' \ {x} = DOMAIN store \ {x}
      /\ \A y \in DOMAIN store' : store'[y] = store[y]
      /\ faults' \in 0..MaxFaults /\ doubtful' \subseteq Ids
      /\ \/ doubtful' = doubtful \cup {x}
         \/ doubtful' = doubtful \ {x} /\ x \notin DOMAIN store'
  BY <1>2, <1>3, DeleteEffect DEF Inv
<1>5. expired = {}
  BY <1>3 DEF Inv, CallOK
<1>6. TypeOK'
  BY <1>2, <1>3, <1>4, <1>5 DEF Inv, TypeOK, Injective
<1>7. CallOK'
  BY <1>3 DEF Inv, CallOK
<1>8. Agreement'
  BY <1>2, <1>4, AgreementStep DEF Inv
<1> QED
  BY <1>6, <1>7, <1>8 DEF Inv

(* Steps and calls that leave the ring, the store and the doubts alone.    *)
LEMMA InvPassive ==
    ASSUME Inv, \/ CleanupDone \/ AddDone \/ TrimDone \/ GetItem \/ ListItems \/ Tick
                \/ \E id \in Ids : Update(id)
    PROVE  Inv'
<1>1. UNCHANGED <<order, store, doubtful, items, expired>> /\ faults' \in 0..MaxFaults
  <2>1. CASE CleanupDone \/ AddDone \/ TrimDone \/ Tick
    BY <2>1 DEF CleanupDone, AddDone, TrimDone, Tick, storeVars, Inv, TypeOK
  <2>2. CASE GetItem
    <3>1. Cardinality({}) = 0 /\ Cardinality({call.id}) = 1
      BY FS_EmptySet, FS_Singleton, Zenon
    <3>2. Cardinality({}) \in Nat /\ Cardinality({call.id}) \in Nat
      BY <3>1
    <3> QED
      BY <2>2, <3>2, GetsEffect DEF GetItem, Inv
  <2>3. CASE ListItems
    <3>1. PICK failed \in SUBSET Members(order) : StoreGets(failed)
      BY <2>3 DEF ListItems
    <3>2. Cardinality(failed) \in Nat
      BY MembersFinite DEF Inv, TypeOK
    <3> QED
      BY <2>3, <3>1, <3>2, GetsEffect DEF ListItems, Inv
  <2>4. CASE \E id \in Ids : Update(id)
    BY <2>4, MemoryAssumption DEF Update, StoreOk, StoreFault, Inv, TypeOK
  <2> QED
    BY <2>1, <2>2, <2>3, <2>4
<1>2. /\ now' \in 0..MaxTime /\ late' \subseteq Ids
      /\ \/ phase' = phase /\ phase = "idle"
         \/ phase = "clean" /\ expired = {} /\ phase' = call.op /\ call' = call
         \/ phase = "add" /\ items = <<>> /\ phase' = "trim"
         \/ phase \in {"trim", "get", "list"} /\ phase' = "idle"
  BY MemoryAssumption
     DEF CleanupDone, AddDone, TrimDone, GetItem, ListItems, Tick, Update, Begin, Inv, TypeOK
<1>3. TypeOK'
  <2>1. Members(order)' = Members(order)
    BY <1>1 DEF Members, Queue!Members
  <2>2. phase' \in Phases /\ (phase' = "idle" => items = <<>> /\ expired = {})
    BY <1>2 DEF Inv, TypeOK, CallOK, Phases
  <2> QED
    BY <1>1, <1>2, <2>1, <2>2 DEF Inv, TypeOK
<1>4. CallOK'
  BY <1>1, <1>2 DEF Inv, CallOK
<1>5. Agreement'
  BY <1>1, AgreementSame DEF Inv
<1> QED
  BY <1>3, <1>4, <1>5 DEF Inv

(* Delete.                                                                 *)
LEMMA InvDelete == ASSUME Inv, NEW id \in Ids, Delete(id) PROVE Inv'
<1>1. phase = "idle" /\ UNCHANGED <<now, phase, items, expired, late>>
  BY DEF Delete, Begin
<1>2. expired = {} /\ items = <<>>
  BY <1>1 DEF Inv, TypeOK
<1>3. CASE UNCHANGED <<order, storeVars>>
  <2>1. Members(order)' = Members(order)
    BY <1>3 DEF Members, Queue!Members
  <2> QED
    BY <1>1, <1>2, <1>3, <2>1, AgreementSame DEF storeVars, Inv, TypeOK, CallOK
<1>4. CASE StoreOk({id}, Without(id)) /\ order' = Removed(order, id)
  <2>1. /\ order' \in Seq(Ids) /\ Injective(order')
        /\ Members(order') = Members(order) \ {id}
    BY <1>4, RemovedEffect DEF Inv, TypeOK, Injective
  <2>2. /\ DOMAIN store' = DOMAIN store \ {id}
        /\ \A y \in DOMAIN store' : store'[y] = store[y]
        /\ doubtful' = doubtful \ {id} /\ faults' = faults
    BY <1>4 DEF StoreOk, Without
  <2>3. TypeOK'
    BY <1>1, <1>2, <2>1, <2>2 DEF Inv, TypeOK, Injective
  <2>4. Agreement'
    BY <2>1, <2>2, AgreementStep DEF Inv
  <2> QED
    BY <1>1, <1>2, <2>3, <2>4 DEF Inv, CallOK
<1>5. CASE StoreFault({id}, Without(id)) /\ order' = order
  <2>1. /\ DOMAIN store' \subseteq DOMAIN store
        /\ DOMAIN store' \ {id} = DOMAIN store \ {id}
        /\ \A y \in DOMAIN store' : store'[y] = store[y]
        /\ doubtful' = doubtful \cup {id}
    BY <1>5 DEF StoreFault, Without
  <2>2. faults' \in 0..MaxFaults
    BY <1>5, MemoryAssumption DEF StoreFault, Inv, TypeOK
  <2>3. TypeOK'
    BY <1>1, <1>2, <1>5, <2>1, <2>2 DEF Inv, TypeOK
  <2>4. Agreement'
    BY <1>5, <2>1, AgreementStep DEF Inv
  <2> QED
    BY <1>1, <1>2, <2>3, <2>4 DEF Inv, CallOK
<1> QED
  BY <1>3, <1>4, <1>5 DEF Delete

(* Clear: either ring and store are empty, or every id is in doubt.        *)
LEMMA InvClear == ASSUME Inv, Clear PROVE Inv'
<1>1. phase = "idle" /\ UNCHANGED <<now, phase, items, expired, late>>
  BY DEF Clear, Begin
<1>2. expired = {} /\ items = <<>>
  BY <1>1 DEF Inv, TypeOK
<1>3. DOMAIN NoItems = {} /\ Members(<<>>) = {}
  BY MembersDef DEF NoItems
<1>4. CASE StoreOk(Ids, NoItems) /\ order' = <<>>
  <2>1. store' = NoItems /\ doubtful' \subseteq Ids /\ faults' = faults
    BY <1>4 DEF StoreOk, Inv, TypeOK
  <2>2. TypeOK'
    BY <1>1, <1>2, <1>3, <1>4, <2>1 DEF Inv, TypeOK
  <2>3. Members(order)' = {}
    BY <1>3, <1>4 DEF Members, Queue!Members
  <2>4. Agreement'
    BY <1>3, <2>1, <2>3 DEF Agreement
  <2> QED
    BY <1>1, <1>2, <2>2, <2>4 DEF Inv, CallOK
<1>5. CASE StoreFault(Ids, NoItems) /\ order' = order
  <2>1. store' \in {store, NoItems} /\ doubtful' = Ids
    BY <1>5 DEF StoreFault, Inv, TypeOK
  <2>2. faults' \in 0..MaxFaults
    BY <1>5, MemoryAssumption DEF StoreFault, Inv, TypeOK
  <2>3. TypeOK'
    BY <1>1, <1>2, <1>3, <1>5, <2>1, <2>2 DEF Inv, TypeOK
  <2>4. Agreement'
    BY <2>1 DEF Agreement
  <2> QED
    BY <1>1, <1>2, <2>3, <2>4 DEF Inv, CallOK
<1> QED
  BY <1>4, <1>5 DEF Clear

(* Every step keeps types, bookkeeping and agreement.                      *)
LEMMA InvNext == Inv /\ [Next]_vars => Inv'
<1> SUFFICES ASSUME Inv, [Next]_vars PROVE Inv'
  OBVIOUS
<1>1. CASE UNCHANGED vars
  <2>1. /\ UNCHANGED <<order, store, doubtful, faults, now, phase, call, items, expired, late>>
        /\ Members(order)' = Members(order)
    BY <1>1 DEF vars, storeVars, Members, Queue!Members
  <2> QED
    BY <2>1, AgreementSame DEF Inv, TypeOK, CallOK
<1>2. CASE Next
  BY <1>2, InvBegin, InvCleanupDelete, InvAddItem, InvTrim, InvPassive, InvDelete, InvClear
     DEF Next
<1> QED
  BY <1>1, <1>2

(* Types: the ring never holds an id twice, and a call that has returned   *)
(* has nothing left to do.                                                 *)
THEOREM MemoryTypeCorrect == Spec => []TypeOK
<1>1. Inv => TypeOK
  BY DEF Inv
<1> QED
  BY <1>1, InvInit, InvNext, PTL DEF Spec

(* Ring and store agree on every id whose last change in the store did not *)
(* fail, however calls, expiry, trimming and failures alternate.           *)
THEOREM AgreementHolds == Spec => []Agreement
<1>1. Inv => Agreement
  BY DEF Inv
<1> QED
  BY <1>1, InvInit, InvNext, PTL DEF Spec

-----------------------------------------------------------------------------
(* Induction over numbers, from their order being well founded.            *)
LEMMA LessThan == \E R : IsWellFoundedOn(R, Nat) /\ \A a, b \in Nat : <<a, b>> \in R <=> a < b
<1> DEFINE R == OpToRel(<, Nat)
<1>1. IsWellFoundedOn(R, Nat)
  BY NatLessThanWellFounded, Zenon
<1>2. \A a, b \in Nat : <<a, b>> \in R <=> a < b
  BY DEF OpToRel
<1> WITNESS R
<1> QED
  BY <1>1, <1>2, Zenon

LEMMA LeastNumber ==
    ASSUME NEW T, T \subseteq Nat, NEW x \in T
    PROVE  \E m \in T : \A y \in T : ~(y < m)
<1>1. PICK R : IsWellFoundedOn(R, Nat) /\ \A a, b \in Nat : <<a, b>> \in R <=> a < b
  BY LessThan
<1>2. PICK m \in T : \A y \in T : ~ (<<y, m>> \in R)
  BY <1>1, WFMin
<1> QED
  BY <1>1, <1>2

LEMMA NumbersUpTo ==
    ASSUME NEW n \in Nat, NEW S, 0 \in S, \A i \in 0..n - 1 : i \in S => i + 1 \in S
    PROVE  0..n \subseteq S
<1> SUFFICES ASSUME NEW T, T = 0..n \ S, NEW x \in T PROVE FALSE
  OBVIOUS
<1>1. PICK m \in T : \A y \in T : ~(y < m)
  <2>1. T \subseteq Nat
    OBVIOUS
  <2> QED
    BY <2>1, LeastNumber
<1>2. m \in 0..n /\ m # 0 /\ m - 1 \in 0..n - 1 /\ (m - 1) + 1 = m
  BY <1>1
<1>3. m - 1 \in S
  BY <1>1, <1>2
<1> QED
  BY <1>1, <1>2, <1>3

-----------------------------------------------------------------------------
(* Selecting from a sequence.                                              *)

(* F is the function that Selected defines by recursion.                   *)
Selects(F, s, P) ==
    /\ F[0] = <<>>
    /\ \A i \in 1..Len(s) :
          F[i] = IF i \in P THEN Append(F[i - 1], s[i]) ELSE F[i - 1]
    /\ Selected(s, P) = F[Len(s)]

(* There is one.                                                           *)
LEMMA SelectedFunction ==
    ASSUME NEW s, Len(s) \in Nat, NEW P
    PROVE  \E F : Selects(F, s, P)
<1> DEFINE Step(v, i) == IF i \in P THEN Append(v, s[i]) ELSE v
           Def(f, m) == f = [i \in 0..m |-> IF i = 0 THEN <<>> ELSE Step(f[i - 1], i)]
           Given(f, m) == f = [i \in 0..m |-> IF i = 0 THEN <<>>
                               ELSE IF i \in P THEN Append(f[i - 1], s[i]) ELSE f[i - 1]]
           S == {m \in Nat : \E f : Def(f, m)}
           F == CHOOSE f : Given(f, Len(s))
<1>0. \A f, m : Given(f, m) <=> Def(f, m)
  BY Zenon
<1>1. Selected(s, P) = F[Len(s)]
  BY Zenon DEF Selected
<1> HIDE DEF Step, Given
<1>2. 0 \in S
  <2>1. Def([d \in 0..0 |-> <<>>], 0)
    OBVIOUS
  <2> HIDE DEF Def
  <2> QED
    BY <2>1
<1>3. ASSUME NEW m \in Nat, m \in S
      PROVE  m + 1 \in S
  <2>1. PICK f : Def(f, m)
    BY <1>3
  <2> DEFINE g == [i \in 0..m + 1 |-> IF i = m + 1 THEN Step(f[m], i) ELSE f[i]]
  <2>2. Def(g, m + 1)
    <3>1. \A i \in 0..m : f[i] = IF i = 0 THEN <<>> ELSE Step(f[i - 1], i)
      BY <2>1
    <3>2. ASSUME NEW i \in 0..m + 1
          PROVE  g[i] = IF i = 0 THEN <<>> ELSE Step(g[i - 1], i)
      <4>1. CASE i = m + 1
        BY <4>1
      <4>2. CASE i \in 0..m
        BY <3>1, <4>2
      <4> QED
        BY <4>1, <4>2
    <3> QED
      BY <3>2
  <2> HIDE DEF Def, g
  <2> QED
    BY <2>2
<1>4. Len(s) \in S
  <2>1. \A i \in 0..Len(s) - 1 : i \in Nat
    OBVIOUS
  <2>2. Len(s) \in 0..Len(s)
    OBVIOUS
  <2> HIDE DEF S
  <2>3. \A i \in 0..Len(s) - 1 : i \in S => i + 1 \in S
    BY <1>3, <2>1, Zenon
  <2>4. 0..Len(s) \subseteq S
    BY <1>2, <2>3, NumbersUpTo, Zenon
  <2> QED
    BY <2>2, <2>4, Zenon
<1>5. Def(F, Len(s))
  <2>1. \E f : Def(f, Len(s))
    BY <1>4
  <2> HIDE DEF Def
  <2> QED
    BY <1>0, <2>1, Zenon
<1> HIDE DEF F
<1>6. F[0] = <<>>
  BY <1>5
<1>7. \A i \in 1..Len(s) : F[i] = Step(F[i - 1], i)
  BY <1>5
<1>8. \A i \in 1..Len(s) :
         F[i] = IF i \in P THEN Append(F[i - 1], s[i]) ELSE F[i - 1]
  BY <1>7 DEF Step
<1> QED
  BY <1>1, <1>6, <1>8, Zenon DEF Selects

(* What is selected, but for its order.                                    *)
LEMMA SelectedMembers ==
    ASSUME NEW T, NEW s \in Seq(T), NEW P
    PROVE  /\ Selected(s, P) \in Seq(T)
           /\ Members(Selected(s, P)) = {s[i] : i \in P \cap DOMAIN s}
<1>1. Len(s) \in Nat /\ DOMAIN s = 1..Len(s) /\ \A i \in 1..Len(s) : s[i] \in T
  OBVIOUS
<1>2. PICK F : /\ F[0] = <<>>
               /\ \A i \in 1..Len(s) :
                     F[i] = IF i \in P THEN Append(F[i - 1], s[i]) ELSE F[i - 1]
               /\ Selected(s, P) = F[Len(s)]
  <2>1. \E F : Selects(F, s, P)
    BY <1>1, SelectedFunction
  <2> QED
    BY <2>1, Zenon DEF Selects
<1> DEFINE G(i) == /\ F[i] \in Seq(T)
                   /\ Members(F[i]) = {s[j] : j \in P \cap 1..i}
           S == {i \in 0..Len(s) : G(i)}
<1>3. 0 \in S
  <2>1. <<>> \in Seq(T) /\ Members(<<>>) = {}
    BY MembersDef
  <2>2. {s[j] : j \in P \cap 1..0} = {}
    OBVIOUS
  <2>3. G(0)
    BY <1>2, <2>1, <2>2
  <2> QED
    BY <1>1, <2>3
<1>4. ASSUME NEW i \in 0..Len(s) - 1, i \in S
      PROVE  i + 1 \in S
  <2>1. /\ i + 1 \in 1..Len(s) /\ (i + 1) - 1 = i /\ G(i)
        /\ 1..(i + 1) = 1..i \cup {i + 1}
    BY <1>1, <1>4
  <2>2. CASE i + 1 \notin P
    <3>1. F[i + 1] = F[i] /\ P \cap 1..(i + 1) = P \cap 1..i
      BY <1>2, <2>1, <2>2
    <3> QED
      BY <1>1, <2>1, <3>1
  <2>3. CASE i + 1 \in P
    <3>1. F[i + 1] = Append(F[i], s[i + 1]) /\ P \cap 1..(i + 1) = (P \cap 1..i) \cup {i + 1}
      BY <1>2, <2>1, <2>3
    <3>2. s[i + 1] \in T
      BY <1>1, <2>1
    <3>3. F[i + 1] \in Seq(T) /\ Members(F[i + 1]) = Members(F[i]) \cup {s[i + 1]}
      BY <2>1, <3>1, <3>2, AppendMembers
    <3>4. Members(F[i + 1]) = {s[j] : j \in P \cap 1..(i + 1)}
      BY <2>1, <3>1, <3>3
    <3> QED
      BY <1>1, <2>1, <3>3, <3>4
  <2> QED
    BY <2>2, <2>3
<1>5. Len(s) \in S
  <2> HIDE DEF S
  <2>1. 0..Len(s) \subseteq S
    BY <1>1, <1>3, <1>4, NumbersUpTo, Zenon
  <2> QED
    BY <1>1, <2>1
<1>6. G(Len(s))
  BY <1>5
<1> QED
  BY <1>1, <1>2, <1>6, Zenon

(* What is kept, but for its order.                                        *)
LEMMA KeptMembers ==
    ASSUME NEW T, NEW s \in Seq(T), NEW S
    PROVE  Kept(s, S) \in Seq(T) /\ Members(Kept(s, S)) = Members(s) \cap S
<1> DEFINE P == {i \in DOMAIN s : s[i] \in S}
<1>1. /\ Kept(s, S) \in Seq(T)
      /\ Members(Kept(s, S)) = {s[i] : i \in P \cap DOMAIN s}
  BY SelectedMembers DEF Kept
<1> QED
  BY <1>1, MembersDef

(* The last elements of a sequence, one by one.                            *)
LEMMA LastNEffect ==
    ASSUME NEW T, NEW s \in Seq(T), NEW n \in Nat
    PROVE  /\ LastN(s, n) \in Seq(T)
           /\ Members(LastN(s, n)) \subseteq Members(s)
           /\ n > 0 /\ Len(s) > n => /\ Len(LastN(s, n)) = n
                                     /\ \A i \in 1..n : LastN(s, n)[i] = s[Len(s) - n + i]
           /\ ~(n > 0 /\ Len(s) > n) => LastN(s, n) = s
<1>1. Len(s) \in Nat /\ DOMAIN s = 1..Len(s) /\ \A i \in 1..Len(s) : s[i] \in T
  OBVIOUS
<1>2. CASE ~(n > 0 /\ Len(s) > n)
  BY <1>2 DEF LastN
<1>3. CASE n > 0 /\ Len(s) > n
  <2> DEFINE m == Len(s) - n + 1  t == SubSeq(s, m, Len(s))
  <2>1. m \in Int /\ Len(s) \in Int /\ \A i \in m..Len(s) : s[i] \in T
    BY <1>1, <1>3
  <2>2. /\ t \in Seq(T) /\ Len(t) = IF m <= Len(s) THEN Len(s) - m + 1 ELSE 0
        /\ \A i \in 1..Len(s) - m + 1 : t[i] = s[m + i - 1]
    BY <2>1, SubSeqProperties
  <2>3. LastN(s, n) = t
    BY <1>3 DEF LastN
  <2> HIDE DEF t
  <2>4. Len(s) - m + 1 = n /\ m <= Len(s) /\ \A i \in 1..n : m + i - 1 = Len(s) - n + i
    BY <1>1, <1>3
  <2>5. Len(t) = n /\ \A i \in 1..n : t[i] = s[Len(s) - n + i]
    BY <2>2, <2>4
  <2>6. Members(t) \subseteq Members(s)
    <3>1. \A i \in 1..n : Len(s) - n + i \in 1..Len(s)
      BY <1>1, <1>3
    <3>2. DOMAIN t = 1..n
      BY <2>2, <2>5
    <3> QED
      BY <1>1, <2>5, <3>1, <3>2, MembersDef
  <2> QED
    BY <1>3, <2>2, <2>3, <2>5, <2>6
<1> QED
  BY <1>2, <1>3

(* Dropping the first element of too long a sequence leaves its end alone. *)
LEMMA LastNTail ==
    ASSUME NEW T, NEW s \in Seq(T), NEW n \in Nat, n > 0, Len(s) > n
    PROVE  LastN(Tail(s), n) = LastN(s, n)
<1> DEFINE t == Tail(s)  a == LastN(s, n)  b == LastN(t, n)
<1>1. s # <<>>
  OBVIOUS
<1>2. /\ t \in Seq(T) /\ Len(t) = Len(s) - 1
      /\ \A i \in 1..Len(t) : t[i] = s[i + 1]
  BY <1>1, HeadTailProperties
<1>3. /\ a \in Seq(T) /\ Len(a) = n
      /\ \A i \in 1..n : a[i] = s[Len(s) - n + i]
  BY LastNEffect
<1>4. /\ b \in Seq(T)
      /\ Len(t) > n => /\ Len(b) = n
                       /\ \A i \in 1..n : b[i] = t[Len(t) - n + i]
      /\ ~(Len(t) > n) => b = t
  <2> HIDE DEF t
  <2>1. t \in Seq(T)
    BY <1>2
  <2> QED
    BY <2>1, LastNEffect, Zenon
<1> HIDE DEF t, a, b
<1>5. Len(s) \in Nat /\ Len(t) \in Nat
  BY <1>2
<1>6. Len(b) = n
  BY <1>2, <1>4, <1>5
<1>7. ASSUME NEW i \in 1..n PROVE b[i] = a[i]
  <2>1. CASE Len(t) > n
    <3> DEFINE k == Len(t) - n + i
    <3>1. k \in 1..Len(t) /\ k + 1 = Len(s) - n + i
      BY <1>2, <1>5, <2>1
    <3>2. b[i] = t[k] /\ a[i] = s[Len(s) - n + i]
      BY <1>3, <1>4, <2>1
    <3> HIDE DEF k
    <3>3. t[k] = s[k + 1]
      BY <1>2, <3>1
    <3> QED
      BY <3>1, <3>2, <3>3
  <2>2. CASE ~(Len(t) > n)
    <3>1. \A l, k \in Nat : k > n /\ l = k - 1 /\ ~(l > n) => l = n /\ k - n + i = i + 1
      OBVIOUS
    <3>2. Len(t) = n /\ Len(s) - n + i = i + 1
      BY <1>2, <1>5, <2>2, <3>1
    <3>3. b[i] = t[i] /\ a[i] = s[i + 1]
      BY <1>3, <1>4, <2>2, <3>2
    <3> QED
      BY <1>2, <3>2, <3>3
  <2> QED
    BY <2>1, <2>2
<1>8. b = a
  BY <1>3, <1>4, <1>6, <1>7, SeqEqual
<1> QED
  BY <1>8 DEF a, b, t

(* Appending and concatenation.                                            *)
LEMMA OneAppended ==
    ASSUME NEW T, NEW g \in Seq(T), NEW x \in T
    PROVE  g \o <<x>> = Append(g, x) /\ <<x>> \in Seq(T) /\ Append(g, x) \in Seq(T)
<1>1. Append(g, x) = g \o <<x>>
  BY AppendIsConcat
<1>2. <<x>> \in Seq(T)
  OBVIOUS
<1>3. Append(g, x) \in Seq(T)
  BY AppendProperties
<1> QED
  BY <1>1, <1>2, <1>3, Zenon

(* Concatenation under a name of its own, which the provers do not unfold. *)
Cat(d, g) == d \o g

LEMMA CatAppend ==
    ASSUME NEW T, NEW d \in Seq(T), NEW g \in Seq(T), NEW x \in T
    PROVE  Append(g, x) \in Seq(T) /\ Append(Cat(d, g), x) = Cat(d, Append(g, x))
  BY DEF Cat

LEMMA CatAssociative ==
    ASSUME NEW T, NEW a \in Seq(T), NEW b \in Seq(T), NEW c \in Seq(T)
    PROVE  Cat(Cat(a, b), c) = Cat(a, Cat(b, c))
  BY ConcatAssociative DEF Cat

(* A position that is not selected may be removed.                         *)
LEMMA SelectedDrop ==
    ASSUME NEW T, NEW s \in Seq(T), NEW k \in 1..Len(s), NEW P, k \notin P, NEW Q,
           \A i \in 1..(Len(s) - 1) : i \in Q <=> (IF i < k THEN i ELSE i + 1) \in P
    PROVE  Selected(Queue!Without(s, k), Q) = Selected(s, P)
<1> DEFINE n == Len(s) - 1
           t == Queue!Without(s, k)
           At(i) == IF i < k THEN i ELSE i + 1
<1>1. /\ Len(s) \in Nat /\ n \in Nat /\ k \in Nat /\ k >= 1 /\ k <= Len(s)
      /\ Len(s) = n + 1 /\ \A i \in 1..Len(s) : s[i] \in T
  OBVIOUS
<1>2. t = [i \in 1..n |-> IF i < k THEN s[i] ELSE s[i + 1]]
  BY DEF Queue!Without
<1>3. Len(t) = n /\ \A i \in 1..n : t[i] = s[At(i)]
  BY <1>1, <1>2
<1> HIDE DEF t, n
<1>4. PICK F : /\ F[0] = <<>>
               /\ \A i \in 1..Len(s) :
                     F[i] = IF i \in P THEN Append(F[i - 1], s[i]) ELSE F[i - 1]
               /\ Selected(s, P) = F[Len(s)]
  <2>1. \E F : Selects(F, s, P)
    BY <1>1, SelectedFunction
  <2> QED
    BY <2>1, Zenon DEF Selects
<1>5. PICK G : /\ G[0] = <<>>
               /\ \A i \in 1..Len(t) :
                     G[i] = IF i \in Q THEN Append(G[i - 1], t[i]) ELSE G[i - 1]
               /\ Selected(t, Q) = G[Len(t)]
  <2>1. \E G : Selects(G, t, Q)
    BY <1>1, <1>3, SelectedFunction
  <2> QED
    BY <2>1, Zenon DEF Selects
<1>6. F[k] = F[k - 1]
  BY <1>4
<1> DEFINE S == {i \in 0..n : F[At(i)] = G[i]}
<1>7. 0 \in S
  BY <1>1, <1>4, <1>5
<1>8. ASSUME NEW i \in 0..n - 1, i \in S
      PROVE  i + 1 \in S
  <2>1. /\ i + 1 \in 1..n /\ i + 1 \in 0..n /\ (i + 1) - 1 = i
        /\ At(i + 1) \in 1..Len(s) /\ F[At(i)] = G[i]
    <3>1. F[At(i)] = G[i]
      BY <1>8
    <3>2. i + 1 \in 1..n /\ i + 1 \in 0..n /\ (i + 1) - 1 = i
      BY <1>1
    <3>3. At(i + 1) = i + 1 \/ At(i + 1) = i + 2
      BY <1>1
    <3>4. i + 1 \in 1..Len(s) /\ i + 2 \in 1..Len(s)
      BY <1>1
    <3> HIDE DEF At
    <3> QED
      BY <3>1, <3>2, <3>3, <3>4
  <2>2. F[At(i + 1) - 1] = F[At(i)]
    <3>1. CASE i + 1 = k
      <4>1. At(i + 1) - 1 = k /\ At(i) = k - 1
        BY <1>1, <3>1
      <4> QED
        BY <1>6, <4>1
    <3>2. CASE i + 1 # k
      <4>1. At(i + 1) - 1 = At(i)
        BY <1>1, <3>2
      <4> QED
        BY <4>1
    <3> QED
      BY <3>1, <3>2
  <2>3. i + 1 \in Q <=> At(i + 1) \in P
    BY <2>1 DEF n
  <2> HIDE DEF At
  <2>4. F[At(i + 1)] = IF At(i + 1) \in P THEN Append(G[i], s[At(i + 1)]) ELSE G[i]
    BY <1>4, <2>1, <2>2
  <2>5. G[i + 1] = IF i + 1 \in Q THEN Append(G[i], t[i + 1]) ELSE G[i]
    BY <1>3, <1>5, <2>1
  <2>6. t[i + 1] = s[At(i + 1)]
    BY <1>3, <2>1
  <2>7. F[At(i + 1)] = G[i + 1]
    BY <2>3, <2>4, <2>5, <2>6
  <2> QED
    BY <2>1, <2>7
<1>9. n \in S
  <2> HIDE DEF S
  <2>1. 0..n \subseteq S
    BY <1>1, <1>7, <1>8, NumbersUpTo, Zenon
  <2> QED
    BY <1>1, <2>1
<1>10. F[At(n)] = G[n] /\ F[At(n)] = F[Len(s)]
  <2>1. F[At(n)] = G[n]
    BY <1>9
  <2>2. At(n) = Len(s) \/ (At(n) = k - 1 /\ k = Len(s))
    BY <1>1
  <2> QED
    BY <1>6, <2>1, <2>2
<1> QED
  BY <1>3, <1>4, <1>5, <1>10 DEF t

(* What is selected starts with the first element, when that is selected.  *)
LEMMA SelectedFront ==
    ASSUME NEW T, NEW s \in Seq(T), s # <<>>, NEW P, 1 \in P, NEW Q,
           \A i \in 1..(Len(s) - 1) : i \in Q <=> i + 1 \in P
    PROVE  Selected(s, P) = Cat(<<s[1]>>, Selected(Tail(s), Q))
<1> DEFINE t == Tail(s)  n == Len(s) - 1  c == <<s[1]>>
<1>1. /\ t \in Seq(T) /\ Len(t) = Len(s) - 1
      /\ \A i \in 1..Len(t) : t[i] = s[i + 1]
  BY HeadTailProperties
<1>2. /\ Len(s) \in Nat /\ Len(s) # 0 /\ n \in Nat /\ Len(s) = n + 1 /\ Len(t) = n
      /\ \A i \in 1..Len(s) : s[i] \in T
  BY <1>1, EmptySeq
<1> HIDE DEF t, n
<1>3. PICK F : /\ F[0] = <<>>
               /\ \A i \in 1..Len(s) :
                     F[i] = IF i \in P THEN Append(F[i - 1], s[i]) ELSE F[i - 1]
               /\ Selected(s, P) = F[Len(s)]
  <2>1. \E F : Selects(F, s, P)
    BY <1>2, SelectedFunction
  <2> QED
    BY <2>1, Zenon DEF Selects
<1>4. PICK G : /\ G[0] = <<>>
               /\ \A i \in 1..Len(t) :
                     G[i] = IF i \in Q THEN Append(G[i - 1], t[i]) ELSE G[i - 1]
               /\ Selected(t, Q) = G[Len(t)]
  <2>1. \E G : Selects(G, t, Q)
    BY <1>2, SelectedFunction
  <2> QED
    BY <2>1, Zenon DEF Selects
<1>5. c \in Seq(T) /\ Append(<<>>, s[1]) = c /\ Cat(c, <<>>) = c
  <2>1. s[1] \in T
    BY <1>2
  <2>2. c \in Seq(T) /\ Append(<<>>, s[1]) = c
    BY <2>1
  <2> HIDE DEF c
  <2> QED
    BY <2>2, ConcatEmptySeq DEF Cat
<1>6. F[1] = c
  <2>1. 1 \in 1..Len(s) /\ 1 - 1 = 0
    BY <1>2
  <2> QED
    BY <1>3, <1>5, <2>1
<1> HIDE DEF c
<1> DEFINE S == {i \in 0..n : G[i] \in Seq(T) /\ F[i + 1] = Cat(c, G[i])}
<1>7. 0 \in S
  <2>1. 0 \in 0..n /\ 0 + 1 = 1 /\ <<>> \in Seq(T)
    BY <1>2
  <2> QED
    BY <1>4, <1>5, <1>6, <2>1
<1>8. ASSUME NEW i \in 0..n - 1, i \in S
      PROVE  i + 1 \in S
  <2>1. /\ i + 1 \in 1..n /\ i + 1 \in 0..n /\ (i + 1) - 1 = i
        /\ (i + 1) + 1 \in 1..Len(s) /\ ((i + 1) + 1) - 1 = i + 1
        /\ G[i] \in Seq(T) /\ F[i + 1] = Cat(c, G[i])
    BY <1>2, <1>8
  <2> DEFINE j == (i + 1) + 1
  <2>2. i + 1 \in Q <=> j \in P
    BY <2>1 DEF n
  <2>3. F[j] = IF j \in P THEN Append(Cat(c, G[i]), s[j]) ELSE Cat(c, G[i])
    BY <1>3, <2>1
  <2>4. G[i + 1] = IF i + 1 \in Q THEN Append(G[i], t[i + 1]) ELSE G[i]
    BY <1>2, <1>4, <2>1
  <2>5. t[i + 1] = s[j] /\ s[j] \in T
    BY <1>1, <1>2, <2>1
  <2> HIDE DEF j
  <2>6. Append(G[i], s[j]) \in Seq(T) /\ Append(Cat(c, G[i]), s[j]) = Cat(c, Append(G[i], s[j]))
    <3>1. G[i] \in Seq(T) /\ s[j] \in T
      BY <2>1, <2>5, Zenon
    <3>2. \A g \in Seq(T), x \in T :
             Append(g, x) \in Seq(T) /\ Append(Cat(c, g), x) = Cat(c, Append(g, x))
      BY <1>5, CatAppend
    <3> QED
      BY <3>1, <3>2, Zenon
  <2>7. G[i + 1] \in Seq(T) /\ F[j] = Cat(c, G[i + 1])
    BY <2>1, <2>2, <2>3, <2>4, <2>5, <2>6
  <2> QED
    BY <2>1, <2>7 DEF j
<1>9. n \in S
  <2> HIDE DEF S
  <2>1. 0..n \subseteq S
    BY <1>2, <1>7, <1>8, NumbersUpTo, Zenon
  <2> QED
    BY <1>2, <2>1
<1>10. F[Len(s)] = Cat(c, G[Len(t)])
  BY <1>2, <1>9
<1> QED
  BY <1>3, <1>4, <1>10 DEF c, t

(* Keeping everything.                                                     *)
LEMMA KeptAll ==
    ASSUME NEW T, NEW s \in Seq(T), NEW K, Members(s) \subseteq K
    PROVE  Kept(s, K) = s
<1> DEFINE P == {i \in DOMAIN s : s[i] \in K}
<1>1. /\ Len(s) \in Nat /\ DOMAIN s = 1..Len(s)
      /\ \A i \in 1..Len(s) : s[i] \in T /\ i \in P
  BY MembersDef
<1> HIDE DEF P
<1>2. PICK F : /\ F[0] = <<>>
               /\ \A i \in 1..Len(s) :
                     F[i] = IF i \in P THEN Append(F[i - 1], s[i]) ELSE F[i - 1]
               /\ Selected(s, P) = F[Len(s)]
  <2>1. \E F : Selects(F, s, P)
    BY <1>1, SelectedFunction
  <2> QED
    BY <2>1, Zenon DEF Selects
<1> DEFINE S == {i \in 0..Len(s) : F[i] = SubSeq(s, 1, i)}
<1>3. 0 \in S
  <2>1. SubSeq(s, 1, 0) = <<>>
    BY SubSeqEmpty
  <2>2. 0 \in 0..Len(s)
    BY <1>1
  <2> QED
    BY <1>2, <2>1, <2>2, Zenon
<1>4. ASSUME NEW i \in 0..Len(s) - 1, i \in S
      PROVE  i + 1 \in S
  <2>1. /\ i + 1 \in 1..Len(s) /\ i + 1 \in 0..Len(s) /\ (i + 1) - 1 = i /\ i \in Nat
        /\ F[i] = SubSeq(s, 1, i)
    BY <1>1, <1>4
  <2>2. F[i + 1] = Append(F[i], s[i + 1])
    BY <1>1, <1>2, <2>1
  <2>3. SubSeq(s, 1, i + 1) = Append(SubSeq(s, 1, i), s[i + 1])
    <3>1. 1 \in 1..Len(s) /\ i + 1 \in 1..Len(s)
      BY <1>1, <2>1
    <3>2. SubSeq(s, 1, i + 1) = SubSeq(s, 1, (i + 1) - 1) \o <<s[i + 1]>>
      BY <3>1, SubSeqRecursiveSecond
    <3>3. SubSeq(s, 1, i) \in Seq(T) /\ s[i + 1] \in T
      BY <1>1, <2>1
    <3>4. \A g \in Seq(T) : \A x \in T : g \o <<x>> = Append(g, x)
      BY OneAppended
    <3> QED
      BY <2>1, <3>2, <3>3, <3>4
  <2> QED
    BY <2>1, <2>2, <2>3
<1>5. Len(s) \in S
  <2> HIDE DEF S
  <2>1. 0..Len(s) \subseteq S
    BY <1>1, <1>3, <1>4, NumbersUpTo, Zenon
  <2> QED
    BY <1>1, <2>1
<1>6. F[Len(s)] = s
  <2>1. SubSeq(s, 1, Len(s)) = s
    BY SubSeqFull
  <2> QED
    BY <1>5, <2>1
<1> QED
  BY <1>2, <1>6 DEF Kept, P

(* Removing what is not kept.                                              *)
LEMMA KeptRemoved ==
    ASSUME NEW T, NEW s \in Seq(T), NEW x, NEW K, x \notin K
    PROVE  Kept(Removed(s, x), K) = Kept(s, K)
<1>1. CASE x \notin Members(s)
  BY <1>1 DEF Removed
<1>2. CASE x \in Members(s)
  <2> DEFINE k == CHOOSE k \in DOMAIN s : s[k] = x
             t == Queue!Without(s, k)
             P == {i \in DOMAIN s : s[i] \in K}
             Q == {i \in DOMAIN t : t[i] \in K}
  <2>1. k \in DOMAIN s /\ s[k] = x
    <3>1. \E i \in DOMAIN s : s[i] = x
      BY <1>2, MembersDef
    <3> QED
      BY <3>1
  <2>2. Removed(s, x) = t
    BY <1>2 DEF Removed
  <2> HIDE DEF k
  <2>3. Len(s) \in Nat /\ DOMAIN s = 1..Len(s) /\ k \in 1..Len(s) /\ k \notin P
    BY <2>1
  <2>4. ASSUME NEW i \in 1..(Len(s) - 1)
        PROVE  i \in Q <=> (IF i < k THEN i ELSE i + 1) \in P
    <3>1. DOMAIN t = 1..(Len(s) - 1) /\ t[i] = IF i < k THEN s[i] ELSE s[i + 1]
      BY DEF Queue!Without
    <3>2. i \in 1..Len(s) /\ i + 1 \in 1..Len(s)
      BY <2>3
    <3> QED
      BY <2>3, <3>1, <3>2
  <2> HIDE DEF P, Q
  <2>5. Selected(t, Q) = Selected(s, P)
    BY <2>3, <2>4, SelectedDrop
  <2> QED
    BY <2>2, <2>5 DEF Kept, P, Q
<1> QED
  BY <1>1, <1>2

(* Growing a window by no ids and by one after the other.                  *)
LEMMA GrownEmpty == ASSUME NEW T, NEW s \in Seq(T) PROVE Grown(s, <<>>) = s
<1> DEFINE P == FirstNew(Members(s), <<>>)
<1>1. Len(<<>>) = 0 /\ 0 \in Nat
  OBVIOUS
<1> HIDE DEF P
<1>2. Selected(<<>>, P) = <<>>
  <2>1. PICK F : F[0] = <<>> /\ Selected(<<>>, P) = F[Len(<<>>)]
    <3>1. Len(<<>>) \in Nat
      OBVIOUS
    <3>2. \E F : Selects(F, <<>>, P)
      BY <3>1, SelectedFunction
    <3> QED
      BY <3>2, Zenon DEF Selects
  <2> QED
    BY <1>1, <2>1
<1>3. Grown(s, <<>>) = s \o <<>>
  BY <1>2 DEF Grown, P
<1>4. s \o <<>> = s
  BY ConcatEmptySeq
<1> QED
  BY <1>3, <1>4

LEMMA GrownStep ==
    ASSUME NEW T, NEW s \in Seq(T), NEW ids \in Seq(T), ids # <<>>
    PROVE  Grown(s, ids) = Grown(Pushed(s, ids[1]), Tail(ids))
<1> DEFINE x == ids[1]  t == Tail(ids)  u == Pushed(s, x)
           P == FirstNew(Members(s), ids)
           Q == FirstNew(Members(u), t)
<1>1. /\ t \in Seq(T) /\ Len(t) = Len(ids) - 1
      /\ \A i \in 1..Len(t) : t[i] = ids[i + 1]
  BY HeadTailProperties
<1>2. /\ Len(ids) \in Nat /\ Len(ids) # 0 /\ DOMAIN ids = 1..Len(ids)
      /\ DOMAIN t = 1..(Len(ids) - 1) /\ 1 \in 1..Len(ids) /\ x \in T
  BY <1>1, EmptySeq
<1>3. u \in Seq(T) /\ Members(u) = Members(s) \cup {x}
  <2>1. CASE x \in Members(s)
    BY <2>1 DEF Pushed
  <2>2. CASE x \notin Members(s)
    BY <1>2, <2>2, AppendMembers DEF Pushed
  <2> QED
    BY <2>1, <2>2
<1>4. 1 \in P <=> x \notin Members(s)
  BY <1>2 DEF FirstNew
<1>5. ASSUME NEW i \in 1..(Len(ids) - 1)
      PROVE  i \in Q <=> i + 1 \in P
  <2>1. /\ i \in Nat /\ i + 1 \in 1..Len(ids) /\ t[i] = ids[i + 1]
        /\ \A j \in 1..(i - 1) : j + 1 \in 1..((i + 1) - 1) /\ t[j] = ids[j + 1]
        /\ \A j \in 1..((i + 1) - 1) : j = 1 \/ j - 1 \in 1..(i - 1)
        /\ 1 \in 1..((i + 1) - 1)
    BY <1>1, <1>2
  <2>2. i \in Q <=> /\ t[i] \notin Members(u)
                    /\ \A j \in 1..(i - 1) : t[j] # t[i]
    BY <1>2 DEF FirstNew
  <2>3. i + 1 \in P <=> /\ ids[i + 1] \notin Members(s)
                        /\ \A j \in 1..((i + 1) - 1) : ids[j] # ids[i + 1]
    BY <1>2, <2>1 DEF FirstNew
  <2>4. (\A j \in 1..((i + 1) - 1) : ids[j] # ids[i + 1])
          <=> x # ids[i + 1] /\ \A j \in 1..(i - 1) : t[j] # t[i]
    <3>1. ASSUME \A j \in 1..((i + 1) - 1) : ids[j] # ids[i + 1]
          PROVE  x # ids[i + 1] /\ \A j \in 1..(i - 1) : t[j] # t[i]
      BY <2>1, <3>1
    <3>2. ASSUME x # ids[i + 1], \A j \in 1..(i - 1) : t[j] # t[i],
                 NEW j \in 1..((i + 1) - 1)
          PROVE  ids[j] # ids[i + 1]
      <4>1. CASE j = 1
        BY <3>2, <4>1
      <4>2. CASE j # 1
        <5>1. j - 1 \in 1..(i - 1) /\ (j - 1) + 1 = j
          BY <2>1, <4>2
        <5>2. t[j - 1] = ids[j] /\ t[j - 1] # t[i]
          BY <2>1, <3>2, <5>1
        <5> QED
          BY <2>1, <5>2
      <4> QED
        BY <4>1, <4>2
    <3> QED
      BY <3>1, <3>2
  <2> QED
    BY <1>3, <2>1, <2>2, <2>3, <2>4
<1>6. Grown(s, ids) = Cat(s, Selected(ids, P)) /\ Grown(u, t) = Cat(u, Selected(t, Q))
  BY DEF Grown, Cat
<1> HIDE DEF P, Q
<1>7. CASE x \in Members(s)
  <2>1. u = s
    BY <1>7 DEF Pushed
  <2>2. t = Queue!Without(ids, 1)
    <3> DEFINE w == Queue!Without(ids, 1)
    <3>1. w = [i \in 1..(Len(ids) - 1) |-> IF i < 1 THEN ids[i] ELSE ids[i + 1]]
      BY DEF Queue!Without
    <3>2. \A i \in 1..(Len(ids) - 1) : i + 1 \in 1..Len(ids) /\ ids[i + 1] \in T /\ ~(i < 1)
      BY <1>2
    <3>3. Len(ids) - 1 \in Nat
      BY <1>2
    <3>4. w \in Seq(T) /\ Len(w) = Len(ids) - 1 /\ \A i \in 1..(Len(ids) - 1) : w[i] = ids[i + 1]
      BY <3>1, <3>2, <3>3
    <3> HIDE DEF w
    <3>5. t = w
      BY <1>1, <3>4, SeqEqual
    <3> QED
      BY <3>5 DEF w
  <2>3. \A i \in 1..(Len(ids) - 1) : i \in Q <=> (IF i < 1 THEN i ELSE i + 1) \in P
    BY <1>2, <1>5
  <2>4. Selected(Queue!Without(ids, 1), Q) = Selected(ids, P)
    BY <1>2, <1>4, <1>7, <2>3, SelectedDrop
  <2> QED
    BY <1>6, <2>1, <2>2, <2>4
<1>8. CASE x \notin Members(s)
  <2> DEFINE r == Selected(t, Q)  c == <<x>>
  <2>1. Selected(ids, P) = Cat(c, r)
    BY <1>4, <1>5, <1>8, SelectedFront
  <2>2. r \in Seq(T)
    BY <1>1, SelectedMembers
  <2>3. u = Cat(s, c) /\ c \in Seq(T)
    <3>1. s \o <<x>> = Append(s, x) /\ <<x>> \in Seq(T)
      BY <1>2, OneAppended
    <3> QED
      BY <1>8, <3>1 DEF Pushed, Cat
  <2> HIDE DEF r, c
  <2>4. Cat(Cat(s, c), r) = Cat(s, Cat(c, r))
    BY <2>2, <2>3, CatAssociative
  <2> QED
    BY <1>6, <2>1, <2>3, <2>4 DEF r
<1> QED
  BY <1>7, <1>8

-----------------------------------------------------------------------------
(* Capacity, results and window: what they rest on besides Inv.            *)

(* Which call a phase belongs to.                                          *)
CallKind ==
    /\ phase \in {"add", "get", "list"} => call.op = phase
    /\ phase = "trim" => call.op = "add"
    /\ call.op = "list" => call.limit \in Nat

(* Until an Add comes to the trimming, and again once it is done, the ids  *)
(* that no failed Add has pushed fit.                                      *)
Size == Capacity > 0 /\ phase # "trim" => Cardinality(Members(order) \ late) <= Capacity

(* An id is in doubt only after a fault.                                   *)
DoubtCounted == doubtful # {} => faults > 0

(* What the cleanup has not listed is in the store and has not expired.    *)
Cleaned ==
    phase \in {"clean", "get", "list"} => \A x \in Members(order) \ expired : x \in Fresh

(* The window an Add still leads to, unless the store fails.               *)
Due ==
    /\ pre.faults \in Nat /\ pre.faults <= faults
    /\ pre.faults = faults =>
          /\ phase = "clean" /\ call.op = "add" =>
                pre.window = LastN(Grown(Kept(order, Members(order) \ expired), IdsOf(items)),
                                   Capacity)
          /\ phase = "add" => pre.window = LastN(Grown(order, IdsOf(items)), Capacity)
          /\ phase = "trim" => pre.window = LastN(order, Capacity)

-----------------------------------------------------------------------------
(* What the actions have in common.                                        *)

(* Calls of one step.                                                      *)
LEMMA ShortCalls ==
    ASSUME Tick \/ Clear \/ \E id \in Ids : Update(id) \/ Delete(id)
    PROVE  /\ phase = "idle" /\ phase' = "idle"
           /\ call'.op \in {"tick", "clear", "update", "delete"}
           /\ pre' = NoWindow /\ UNCHANGED <<items, expired, late>>
<1>1. CASE Tick
  BY <1>1 DEF Tick
<1>2. CASE Clear
  BY <1>2 DEF Clear, Begin
<1>3. CASE \E id \in Ids : Update(id)
  BY <1>3 DEF Update, Begin
<1>4. CASE \E id \in Ids : Delete(id)
  BY <1>4 DEF Delete, Begin
<1> QED
  BY <1>1, <1>2, <1>3, <1>4

(* Calls that begin with the cleanup.                                      *)
LEMMA LongCalls ==
    ASSUME TypeOK,
           \/ \E batch \in Batches : Add(batch)
           \/ \E id \in Ids : Get(id)
           \/ \E limit \in 0..1 : List(limit)
    PROVE  /\ phase = "idle" /\ phase' = "clean"
           /\ call'.op \in {"add", "get", "list"}
           /\ call'.op = "list" => call'.limit \in Nat
           /\ UNCHANGED <<order, store, now, doubtful, late>>
           /\ \E failed \in SUBSET Members(order) :
                 /\ Cardinality(failed) \in Nat
                 /\ faults' = faults + Cardinality(failed)
                 /\ expired' = {x \in Members(order) :
                                  x \in failed \/ x \notin DOMAIN store \/ IsExpired(x)}
           /\ \/ call'.op # "add" /\ items' = items /\ pre' = NoWindow
              \/ \E batch \in Batches :
                    /\ call'.op = "add" /\ items' = batch
                    /\ pre' = [window |-> WindowAfter(batch), faults |-> faults]
<1>1. /\ CleanupScan /\ phase = "idle" /\ UNCHANGED <<now, late>>
      /\ call'.op \in {"add", "get", "list"}
      /\ call'.op = "list" => call'.limit \in Nat
      /\ \/ call'.op # "add" /\ items' = items /\ pre' = NoWindow
         \/ \E batch \in Batches :
               /\ call'.op = "add" /\ items' = batch
               /\ pre' = [window |-> WindowAfter(batch), faults |-> faults]
  BY DEF Add, Get, List, Begin
<1>2. PICK failed \in SUBSET Members(order) :
         /\ StoreGets(failed)
         /\ expired' = {x \in Members(order) :
                          x \in failed \/ x \notin DOMAIN store \/ IsExpired(x)}
         /\ phase' = "clean"
         /\ UNCHANGED <<order, ret>>
  BY <1>1 DEF CleanupScan
<1>3. Cardinality(failed) \in Nat
  BY MembersFinite DEF TypeOK
<1>4. faults' = faults + Cardinality(failed) /\ UNCHANGED <<store, doubtful>>
  BY <1>2 DEF StoreGets
<1> QED
  BY <1>1, <1>2, <1>3, <1>4

(* Faults are counted and never forgotten, and a new doubt comes with one. *)
LEMMA FaultsGrow ==
    ASSUME Inv, [Next]_vars
    PROVE  /\ faults \in Nat /\ faults' \in Nat /\ faults <= faults'
           /\ doubtful' \subseteq doubtful \/ faults < faults'
<1>1. faults \in Nat /\ MaxFaults \in Nat
  BY MemoryAssumption DEF Inv, TypeOK
<1>2. \A ids, e : StoreOk(ids, e) => faults' = faults /\ doubtful' \subseteq doubtful
  BY DEF StoreOk
<1>3. \A ids, e : StoreFault(ids, e) => faults' = faults + 1
  BY DEF StoreFault
<1>4. \A S : Cardinality(S) \in Nat /\ StoreGets(S) =>
                /\ faults' \in Nat /\ faults <= faults' /\ doubtful' = doubtful
  BY <1>1 DEF StoreGets
<1>6. CASE \/ \E batch \in Batches : Add(batch)
           \/ \E id \in Ids : Get(id)
           \/ \E limit \in 0..1 : List(limit)
  <2>1. PICK failed \in SUBSET Members(order) :
           Cardinality(failed) \in Nat /\ faults' = faults + Cardinality(failed)
    BY <1>6, LongCalls DEF Inv
  <2>2. doubtful' = doubtful
    BY <1>6, LongCalls DEF Inv
  <2> QED
    BY <1>1, <2>1, <2>2
<1>7. CASE GetItem
  <2>1. Cardinality({}) = 0 /\ Cardinality({call.id}) = 1
    BY FS_EmptySet, FS_Singleton, Zenon
  <2>2. Cardinality({}) \in Nat /\ Cardinality({call.id}) \in Nat
    BY <2>1
  <2> QED
    BY <1>1, <1>4, <1>7, <2>2 DEF GetItem
<1>8. CASE ListItems
  <2>1. PICK failed \in SUBSET Members(order) : StoreGets(failed)
    BY <1>8 DEF ListItems
  <2>2. Cardinality(failed) \in Nat
    BY MembersFinite DEF Inv, TypeOK
  <2> QED
    BY <1>1, <1>4, <2>1, <2>2
<1>9. CASE \E id \in Ids : Update(id) \/ Delete(id)
  BY <1>1, <1>2, <1>3, <1>9 DEF Update, Delete, storeVars
<1>10. CASE Clear
  BY <1>1, <1>2, <1>3, <1>10 DEF Clear
<1>11. CASE Tick \/ CleanupDone \/ AddDone \/ TrimDone \/ UNCHANGED vars
  BY <1>1, <1>11 DEF Tick, CleanupDone, AddDone, TrimDone, vars, storeVars
<1>12. CASE CleanupDelete
  <2>1. PICK x : StoreOk({x}, Without(x)) \/ StoreFault({x}, Without(x))
    BY <1>12 DEF CleanupDelete, StoreDelete
  <2> QED
    BY <1>1, <1>2, <1>3, <2>1
<1>13. CASE AddItem
  BY <1>1, <1>2, <1>3, <1>13 DEF AddItem
<1>14. CASE Trim
  <2>1. PICK x : StoreOk({x}, Without(x)) \/ StoreFault({x}, Without(x))
    BY <1>14 DEF Trim, StoreDelete
  <2> QED
    BY <1>1, <1>2, <1>3, <2>1
<1> QED
  BY <1>6, <1>7, <1>8, <1>9, <1>10, <1>11, <1>12, <1>13, <1>14 DEF Next

(* Phases and their calls.                                                 *)
LEMMA CallKindStep == ASSUME Inv, CallKind, [Next]_vars PROVE CallKind'
<1>1. CASE \/ \E batch \in Batches : Add(batch)
           \/ \E id \in Ids : Get(id)
           \/ \E limit \in 0..1 : List(limit)
  BY <1>1, LongCalls DEF Inv, CallKind
<1>2. CASE Tick \/ Clear \/ \E id \in Ids : Update(id) \/ Delete(id)
  BY <1>2, ShortCalls DEF CallKind
<1>3. CASE \/ CleanupDelete \/ CleanupDone \/ AddItem \/ AddDone \/ Trim \/ TrimDone
           \/ GetItem \/ ListItems \/ UNCHANGED vars
  BY <1>3 DEF Inv, CallOK, CallKind, CleanupDelete, CleanupDone, AddItem, AddDone, Trim,
              TrimDone, GetItem, ListItems, vars
<1> QED
  BY <1>1, <1>2, <1>3 DEF Next

(* Doubts.                                                                 *)
LEMMA DoubtStep == ASSUME Inv, DoubtCounted, [Next]_vars PROVE DoubtCounted'
  BY FaultsGrow DEF DoubtCounted

-----------------------------------------------------------------------------
(* The capacity.                                                           *)

(* The ring holds no more ids than it is long.                             *)
LEMMA MembersBound ==
    ASSUME NEW s \in Seq(Ids), NEW S \in SUBSET Members(s)
    PROVE  Cardinality(S) \in Nat /\ Cardinality(S) <= Len(s)
<1>1. Len(s) \in Nat /\ DOMAIN s = 1..Len(s)
  OBVIOUS
<1>2. s \in Surjection(1..Len(s), Members(s))
  <2>1. s \in [1..Len(s) -> Members(s)]
    BY <1>1, MembersDef
  <2>2. \A x \in Members(s) : \E i \in 1..Len(s) : s[i] = x
    BY <1>1, MembersDef
  <2> QED
    BY <2>1, <2>2 DEF Surjection
<1>3. Cardinality(Members(s)) <= Len(s)
  <2>1. ExistsSurjection(1..Len(s), Members(s))
    BY <1>2 DEF ExistsSurjection
  <2> QED
    BY <1>1, <2>1, FS_SurjCardinalityBound
<1>4. /\ IsFiniteSet(Members(s)) /\ Cardinality(Members(s)) \in Nat
      /\ Cardinality(S) \in Nat
  BY MembersFinite
<1>5. Cardinality(S) <= Cardinality(Members(s))
  BY <1>4, FS_Subset
<1> QED
  BY <1>1, <1>3, <1>4, <1>5

(* Every step but the end of the trimming only takes from what has to fit, *)
(* and the end of the trimming checks the length of the ring.              *)
LEMMA SizeStep ==
    ASSUME Inv, Inv', Size, [Next]_vars, Capacity > 0, phase' # "trim"
    PROVE  Cardinality(Members(order') \ late') <= Capacity
<1>1. Capacity \in Nat /\ order \in Seq(Ids) /\ order' \in Seq(Ids)
  BY MemoryAssumption DEF Inv, TypeOK
<1>2. CASE phase # "trim" /\ Members(order') \ late' \subseteq Members(order) \ late
  <2> DEFINE S == Members(order) \ late
             T == Members(order') \ late'
  <2>1. Cardinality(S) <= Capacity
    BY <1>2 DEF Size
  <2>2. IsFiniteSet(S) /\ Cardinality(S) \in Nat /\ Cardinality(T) \in Nat
    BY <1>1, MembersFinite
  <2>3. Cardinality(T) <= Cardinality(S)
    BY <1>2, <2>2, FS_Subset
  <2> HIDE DEF S, T
  <2>4. Cardinality(T) <= Capacity
    BY <1>1, <2>1, <2>2, <2>3
  <2> QED
    BY <2>4 DEF T
<1>3. CASE \/ \E batch \in Batches : Add(batch)
           \/ \E id \in Ids : Get(id)
           \/ \E limit \in 0..1 : List(limit)
  <2>1. phase = "idle" /\ UNCHANGED <<order, late>>
    BY <1>3, LongCalls DEF Inv
  <2> QED
    BY <1>2, <2>1
<1>4. CASE Tick \/ Clear \/ \E id \in Ids : Update(id) \/ Delete(id)
  <2>1. phase = "idle" /\ late' = late
    BY <1>4, ShortCalls
  <2>2. order' = order \/ order' = <<>> \/ \E id \in Ids : order' = Removed(order, id)
    BY <1>4 DEF Tick, Clear, Update, Delete
  <2>3. \A id \in Ids : Members(Removed(order, id)) \subseteq Members(order)
    BY RemovedEffect DEF Inv, TypeOK, Injective
  <2>4. Members(<<>>) = {}
    BY MembersDef
  <2> QED
    BY <1>2, <2>1, <2>2, <2>3, <2>4
<1>5. CASE CleanupDelete
  <2>1. phase = "clean" /\ late' = late /\ \E x : order' = Removed(order, x)
    BY <1>5 DEF CleanupDelete
  <2>2. Members(order') \subseteq Members(order)
    BY <2>1, RemovedEffect DEF Inv, TypeOK, Injective
  <2> QED
    BY <1>2, <2>1, <2>2
<1>6. CASE CleanupDone \/ GetItem \/ ListItems \/ UNCHANGED vars
  <2>1. phase # "trim" /\ UNCHANGED <<order, late>>
    BY <1>6 DEF CleanupDone, GetItem, ListItems, vars
  <2> QED
    BY <1>2, <2>1
<1>7. CASE AddItem
  <2> DEFINE x == Head(items).id
  <2>1. items # <<>> /\ items \in Seq(Items)
    BY <1>7 DEF AddItem, Inv, TypeOK
  <2>2. Head(items) \in Items
    BY <2>1, HeadTailProperties
  <2>3. x \in Ids
    BY <2>2 DEF Items
  <2>4. /\ phase = "add" /\ order' = Pushed(order, x)
        /\ late' = late \cup ({x} \ Members(order))
    BY <1>7 DEF AddItem
  <2> HIDE DEF x
  <2>5. Members(order') = Members(order) \cup {x}
    BY <2>3, <2>4, PushedEffect DEF Inv, TypeOK, Injective
  <2> QED
    BY <1>2, <2>4, <2>5
<1>8. CASE TrimDone
  <2>1. Len(order) \in Nat /\ Len(order) <= Capacity /\ order' = order
    BY <1>1, <1>8 DEF TrimDone, Over
  <2>2. /\ Cardinality(Members(order') \ late') \in Nat
        /\ Cardinality(Members(order') \ late') <= Len(order')
    BY <1>1, MembersBound
  <2> QED
    BY <1>1, <2>1, <2>2
<1>9. ~AddDone /\ ~Trim
  BY DEF AddDone, Trim
<1> QED
  BY <1>3, <1>4, <1>5, <1>6, <1>7, <1>8, <1>9 DEF Next

-----------------------------------------------------------------------------
(* The results.                                                            *)

LEMMA CleanedStep ==
    ASSUME Inv, CallKind, Cleaned, [Next]_vars, phase' \in {"clean", "get", "list"},
           NEW x \in Members(order') \ expired'
    PROVE  x \in DOMAIN store' /\ ~(now' > store'[x])
<1>1. CASE \/ \E batch \in Batches : Add(batch)
           \/ \E id \in Ids : Get(id)
           \/ \E limit \in 0..1 : List(limit)
  <2>1. UNCHANGED <<order, store, now>>
    BY <1>1, LongCalls DEF Inv
  <2>2. PICK failed : expired' = {y \in Members(order) :
                        y \in failed \/ y \notin DOMAIN store \/ IsExpired(y)}
    BY <1>1, LongCalls DEF Inv
  <2>3. x \in Members(order)
    BY <2>1
  <2> QED
    BY <2>1, <2>2, <2>3 DEF IsExpired
<1>2. CASE CleanupDelete
  <2>1. PICK y \in expired : /\ StoreDelete(y)
                             /\ order' = Removed(order, y)
                             /\ expired' = expired \ {y}
    BY <1>2 DEF CleanupDelete
  <2>2. y \in Ids
    BY MembersDef DEF Inv, TypeOK
  <2>3. Members(order') = Members(order) \ {y}
    BY <2>1, RemovedEffect DEF Inv, TypeOK, Injective
  <2>4. /\ DOMAIN store' \ {y} = DOMAIN store \ {y}
        /\ \A z \in DOMAIN store' : store'[z] = store[z]
    BY <2>1, <2>2, DeleteEffect DEF Inv
  <2>5. x # y /\ x \in Members(order) \ expired /\ phase = "clean" /\ now' = now
    BY <1>2, <2>1, <2>3 DEF CleanupDelete
  <2>6. x \in DOMAIN store /\ ~(now > store[x])
    BY <2>5 DEF Cleaned, Fresh, IsExpired
  <2> QED
    BY <2>4, <2>5, <2>6
<1>3. CASE CleanupDone \/ UNCHANGED vars
  <2>1. UNCHANGED <<order, store, now, expired>> /\ phase \in {"clean", "get", "list"}
    BY <1>3 DEF CleanupDone, vars, storeVars
  <2>2. x \in Members(order) \ expired
    BY <2>1
  <2> QED
    BY <2>1, <2>2 DEF Cleaned, Fresh, IsExpired
<1>4. CASE \/ AddItem \/ AddDone \/ Trim \/ TrimDone \/ GetItem \/ ListItems
           \/ Tick \/ Clear \/ \E id \in Ids : Update(id) \/ Delete(id)
  <2>1. ~(Tick \/ Clear \/ \E id \in Ids : Update(id) \/ Delete(id))
    BY ShortCalls
  <2> QED
    BY <1>4, <2>1 DEF AddItem, AddDone, Trim, TrimDone, GetItem, ListItems
<1> QED
  BY <1>1, <1>2, <1>3, <1>4 DEF Next

LEMMA ResultsStep ==
    ASSUME Inv, CallKind, Cleaned, DoubtCounted, FreshResults, [Next]_vars,
           phase' = "idle", call'.op \in {"get", "list"}, ret' # "error",
           NEW x \in Members(ret'), now' > store'[x]
    PROVE  call'.op = "get" /\ faults' > 0 /\ x \notin Members(order')
<1>1. CASE GetItem
  <2>1. /\ phase = "get" /\ x \in Members(ret') /\ ret' = <<call.id>> /\ call.id \in DOMAIN store
        /\ UNCHANGED <<order, now, call, store, doubtful>>
    BY <1>1 DEF GetItem, StoreGets
  <2>2. x = call.id
    BY <2>1, MembersDef
  <2>3. expired = {} /\ call.op = "get"
    BY <2>1 DEF Inv, CallOK, CallKind
  <2>4. x \notin Members(order)
    BY <2>1, <2>2, <2>3 DEF Cleaned, Fresh, IsExpired
  <2>5. x \in doubtful
    BY <2>1, <2>2, <2>4 DEF Inv, TypeOK, Agreement
  <2>6. faults' > 0
    BY <2>5, FaultsGrow DEF DoubtCounted
  <2> QED
    BY <2>1, <2>3, <2>4, <2>6
<1>2. CASE ListItems
  <2>1. PICK failed \in SUBSET Members(order) :
           StoreGets(failed) /\ ret' = LastN(Listed(failed), call.limit)
    BY <1>2 DEF ListItems
  <2>2. call.limit \in Nat
    BY <1>2 DEF ListItems, CallKind
  <2>3. Listed(failed) \in Seq(Ids) /\ Members(Listed(failed)) \subseteq Fresh
    BY KeptMembers DEF Listed, Inv, TypeOK
  <2>4. Members(ret') \subseteq Members(Listed(failed))
    BY <2>1, <2>2, <2>3, LastNEffect
  <2>5. ~(now > store[x])
    BY <2>3, <2>4 DEF Fresh, IsExpired
  <2>6. store' = store /\ now' = now
    BY <1>2, <2>1 DEF ListItems, StoreGets
  <2> QED
    BY <2>5, <2>6
<1>3. CASE UNCHANGED vars
  <2>1. UNCHANGED <<order, store, now, phase, call, ret, faults>>
    BY <1>3 DEF vars, storeVars
  <2>2. Members(ret') = Members(ret) /\ Members(order') = Members(order)
    BY <2>1
  <2> QED
    BY <2>1, <2>2 DEF FreshResults, IsExpired
<1>4. CASE ~GetItem /\ ~ListItems /\ Next
  <2>1. ~(Tick \/ Clear \/ \E id \in Ids : Update(id) \/ Delete(id))
    BY ShortCalls
  <2>2. ~(\/ \E batch \in Batches : Add(batch)
          \/ \E id \in Ids : Get(id)
          \/ \E limit \in 0..1 : List(limit))
    BY LongCalls DEF Inv
  <2>3. CleanupDelete \/ CleanupDone \/ AddItem \/ AddDone \/ Trim \/ TrimDone
    BY <1>4, <2>1, <2>2 DEF Next
  <2> QED
    BY <2>3 DEF CleanupDelete, CleanupDone, AddItem, AddDone, Trim, TrimDone, CallKind, Inv, CallOK
<1> QED
  BY <1>1, <1>2, <1>3, <1>4

-----------------------------------------------------------------------------
(* The window.                                                             *)

(* The ids of a batch, and of what is left of it.                          *)
LEMMA IdsOfBatch ==
    ASSUME NEW b \in Seq(Items)
    PROVE  /\ IdsOf(b) \in Seq(Ids)
           /\ b = <<>> => IdsOf(b) = <<>>
           /\ b # <<>> => /\ IdsOf(b) # <<>>
                          /\ IdsOf(b)[1] = Head(b).id
                          /\ Tail(IdsOf(b)) = IdsOf(Tail(b))
<1> DEFINE a == IdsOf(b)
<1>1. Len(b) \in Nat /\ DOMAIN b = 1..Len(b) /\ \A i \in 1..Len(b) : b[i].id \in Ids
  <2>1. \A i \in 1..Len(b) : b[i] \in Items
    OBVIOUS
  <2>2. \A x \in Items : x.id \in Ids
    BY DEF Items
  <2> QED
    BY <2>1, <2>2
<1>2. a \in Seq(Ids) /\ Len(a) = Len(b) /\ \A i \in 1..Len(b) : a[i] = b[i].id
  BY <1>1 DEF IdsOf
<1>3. CASE b = <<>>
  BY <1>2, <1>3
<1>4. CASE b # <<>>
  <2>1. Len(b) # 0 /\ a # <<>>
    BY <1>2, <1>4, EmptySeq
  <2>2. /\ Tail(b) \in Seq(Items) /\ Len(Tail(b)) = Len(b) - 1 /\ Head(b) = b[1]
        /\ \A i \in 1..Len(Tail(b)) : Tail(b)[i] = b[i + 1]
    BY <1>4, HeadTailProperties
  <2> DEFINE c == IdsOf(Tail(b))  d == Tail(a)
  <2>3. c \in Seq(Ids) /\ Len(c) = Len(b) - 1 /\ \A i \in 1..Len(b) - 1 : c[i] = b[i + 1].id
    <3>1. \A i \in 1..Len(Tail(b)) : i + 1 \in 1..Len(b)
      BY <1>1, <2>2
    <3>2. DOMAIN Tail(b) = 1..(Len(b) - 1) /\ Len(b) - 1 \in Nat
      BY <1>1, <2>1, <2>2
    <3> QED
      BY <1>1, <2>2, <3>1, <3>2 DEF IdsOf
  <2> HIDE DEF a, c
  <2>4. /\ d \in Seq(Ids) /\ Len(d) = Len(a) - 1
        /\ \A i \in 1..Len(d) : d[i] = a[i + 1]
    BY <1>2, <2>1, HeadTailProperties
  <2> HIDE DEF d
  <2>5. ASSUME NEW i \in 1..Len(d) PROVE d[i] = c[i]
    <3>1. i \in 1..Len(b) - 1 /\ i + 1 \in 1..Len(b)
      BY <1>1, <1>2, <2>4
    <3> QED
      BY <1>2, <2>3, <2>4, <3>1
  <2>6. d = c
    BY <1>2, <2>3, <2>4, <2>5, SeqEqual
  <2>7. a[1] = Head(b).id
    BY <1>1, <1>2, <2>1, <2>2
  <2> QED
    BY <1>2, <1>4, <2>1, <2>6, <2>7 DEF a, c, d
<1> QED
  BY <1>2, <1>3, <1>4

(* What is kept depends on the members of the sequence only.               *)
LEMMA KeptSame ==
    ASSUME NEW s, NEW K, NEW L, Members(s) \cap K = Members(s) \cap L
    PROVE  Kept(s, K) = Kept(s, L)
<1>1. {i \in DOMAIN s : s[i] \in K} = {i \in DOMAIN s : s[i] \in L}
  BY MembersDef
<1> QED
  BY <1>1 DEF Kept

(* The steps of an Add on the way to its window.                           *)
LEMMA DueAdd ==
    ASSUME Inv, NEW batch \in Batches, Add(batch), pre'.faults = faults'
    PROVE  pre'.window = LastN(Grown(Kept(order', Members(order') \ expired'), IdsOf(items')),
                               Capacity)
<1>1. /\ pre' = [window |-> WindowAfter(batch), faults |-> faults] /\ items' = batch
      /\ CleanupScan
  BY DEF Add
<1>2. PICK failed \in SUBSET Members(order) :
         /\ faults' = faults + Cardinality(failed)
         /\ expired' = {x \in Members(order) :
                          x \in failed \/ x \notin DOMAIN store \/ IsExpired(x)}
         /\ order' = order
  BY <1>1 DEF CleanupScan, StoreGets
<1>3. failed = {}
  <2>1. IsFiniteSet(failed) /\ Cardinality(failed) \in Nat
    BY MembersFinite DEF Inv, TypeOK
  <2>2. faults \in Nat /\ pre'.faults = faults
    BY <1>1, MemoryAssumption DEF Inv, TypeOK
  <2>3. Cardinality(failed) = 0
    BY <1>2, <2>1, <2>2
  <2> QED
    BY <2>1, <2>3, FS_EmptySet
<1>4. Members(order) \cap (Members(order) \ expired') = Members(order) \cap Fresh
  BY <1>2, <1>3 DEF Fresh
<1>5. Kept(order, Members(order) \ expired') = Kept(order, Fresh)
  BY <1>4, KeptSame
<1> QED
  BY <1>1, <1>2, <1>5 DEF WindowAfter

LEMMA DueDelete ==
    ASSUME Inv, CleanupDelete
    PROVE  Kept(order', Members(order') \ expired') = Kept(order, Members(order) \ expired)
<1>1. PICK x \in expired : order' = Removed(order, x) /\ expired' = expired \ {x}
  BY DEF CleanupDelete
<1>2. Members(order') = Members(order) \ {x}
  BY <1>1, RemovedEffect DEF Inv, TypeOK, Injective
<1>3. Members(order') \ expired' = Members(order) \ expired
  BY <1>1, <1>2
<1>4. Kept(Removed(order, x), Members(order) \ expired) = Kept(order, Members(order) \ expired)
  BY KeptRemoved DEF Inv, TypeOK
<1> QED
  BY <1>1, <1>3, <1>4

LEMMA DueItem ==
    ASSUME Inv, AddItem, items' = Tail(items)
    PROVE  Grown(order', IdsOf(items')) = Grown(order, IdsOf(items))
<1>1. items \in Seq(Items) /\ items # <<>> /\ order \in Seq(Ids)
  BY DEF AddItem, Inv, TypeOK
<1>2. /\ IdsOf(items) \in Seq(Ids) /\ IdsOf(items) # <<>>
      /\ IdsOf(items)[1] = Head(items).id
      /\ Tail(IdsOf(items)) = IdsOf(Tail(items))
  BY <1>1, IdsOfBatch
<1>3. Grown(order, IdsOf(items)) = Grown(Pushed(order, IdsOf(items)[1]), Tail(IdsOf(items)))
  BY <1>1, <1>2, GrownStep
<1>4. order' = Pushed(order, Head(items).id)
  BY DEF AddItem
<1> QED
  BY <1>2, <1>3, <1>4

LEMMA DueStep == ASSUME Inv, CallKind, Due, [Next]_vars PROVE Due'
<1>1. /\ faults \in Nat /\ faults' \in Nat /\ faults <= faults'
      /\ pre.faults \in Nat /\ pre.faults <= faults
      /\ order \in Seq(Ids) /\ items \in Seq(Items) /\ Capacity \in Nat
  BY FaultsGrow, MemoryAssumption DEF Due, Inv, TypeOK
<1>2. CASE \/ \E batch \in Batches : Add(batch)
           \/ \E id \in Ids : Get(id)
           \/ \E limit \in 0..1 : List(limit)
  <2>1. phase' = "clean" /\ pre'.faults \in Nat /\ pre'.faults <= faults'
    BY <1>1, <1>2, LongCalls DEF Inv, NoWindow
  <2>2. ASSUME pre'.faults = faults', call'.op = "add"
        PROVE  pre'.window = LastN(Grown(Kept(order', Members(order') \ expired'),
                                         IdsOf(items')), Capacity)
    <3>1. PICK batch \in Batches : Add(batch)
      BY <1>2, <2>2 DEF Get, List, Begin
    <3> QED
      BY <2>2, <3>1, DueAdd
  <2> QED
    BY <2>1, <2>2 DEF Due, Members, Queue!Members, Kept, Grown, IdsOf, LastN
<1>3. CASE Tick \/ Clear \/ \E id \in Ids : Update(id) \/ Delete(id)
  <2>1. phase' = "idle" /\ pre'.faults = 0
    BY <1>3, ShortCalls DEF NoWindow
  <2> QED
    BY <1>1, <2>1 DEF Due
<1>4. CASE CleanupDelete
  <2>1. phase = "clean" /\ phase' = "clean" /\ UNCHANGED <<call, items, pre>>
    BY <1>4 DEF CleanupDelete
  <2>2. Kept(order', Members(order') \ expired') = Kept(order, Members(order) \ expired)
    BY <1>4, DueDelete
  <2>3. ASSUME pre'.faults = faults', call'.op = "add"
        PROVE  pre'.window = LastN(Grown(Kept(order', Members(order') \ expired'),
                                         IdsOf(items')), Capacity)
    <3>1. pre.faults = faults /\ call.op = "add"
      BY <1>1, <2>1, <2>3
    <3>2. pre.window = LastN(Grown(Kept(order, Members(order) \ expired), IdsOf(items)), Capacity)
      BY <2>1, <3>1 DEF Due
    <3> QED
      BY <2>1, <2>2, <3>2
  <2> QED
    BY <1>1, <2>1, <2>3 DEF Due, Members, Queue!Members, Kept, Grown, IdsOf, LastN
<1>5. CASE CleanupDone
  <2>1. /\ phase = "clean" /\ expired = {} /\ phase' = call.op /\ call.op \in {"add", "get", "list"}
        /\ UNCHANGED <<order, faults, call, items, pre>>
    BY <1>5 DEF CleanupDone, storeVars, Inv, CallOK
  <2>2. Kept(order, Members(order) \ expired) = order
    BY <1>1, <2>1, KeptAll
  <2>3. ASSUME pre.faults = faults, call.op = "add"
        PROVE  pre.window = LastN(Grown(order, IdsOf(items)), Capacity)
    <3>1. pre.window = LastN(Grown(Kept(order, Members(order) \ expired), IdsOf(items)), Capacity)
      BY <2>1, <2>3 DEF Due
    <3> QED
      BY <2>2, <3>1
  <2> QED
    BY <1>1, <2>1, <2>3 DEF Due, Grown, IdsOf, LastN
<1>6. CASE AddItem
  <2>1. phase = "add" /\ UNCHANGED <<call, pre>>
    BY <1>6 DEF AddItem
  <2>2. CASE items' = Tail(items) /\ phase' = phase
    <3>1. Grown(order', IdsOf(items')) = Grown(order, IdsOf(items))
      BY <1>6, <2>2, DueItem
    <3>2. ASSUME pre.faults = faults'
          PROVE  pre.window = LastN(Grown(order', IdsOf(items')), Capacity)
      <4>1. pre.faults = faults
        BY <1>1, <3>2
      <4> QED
        BY <2>1, <3>1, <4>1 DEF Due
    <3>3. (LastN(Grown(order, IdsOf(items)), Capacity))'
            = LastN(Grown(order', IdsOf(items')), Capacity)
      BY DEF Grown, IdsOf, LastN, FirstNew, Members, Queue!Members
    <3>4. pre'.faults \in Nat /\ pre'.faults <= faults' /\ phase' = "add" /\ pre' = pre
      BY <1>1, <2>1, <2>2
    <3> QED
      BY <3>2, <3>3, <3>4 DEF Due
  <2>3. CASE phase' = "idle"
    BY <1>1, <2>1, <2>3 DEF Due
  <2> QED
    BY <1>6, <2>2, <2>3 DEF AddItem
<1>7. CASE AddDone
  <2>1. /\ phase = "add" /\ items = <<>> /\ phase' = "trim"
        /\ UNCHANGED <<order, faults, call, items, pre>>
    BY <1>7 DEF AddDone, storeVars
  <2>2. Grown(order, IdsOf(items)) = order
    <3>1. IdsOf(items) = <<>>
      BY <1>1, <2>1, IdsOfBatch
    <3> QED
      BY <1>1, <3>1, GrownEmpty
  <2>3. ASSUME pre.faults = faults PROVE pre.window = LastN(order, Capacity)
    BY <2>1, <2>2, <2>3 DEF Due
  <2> QED
    BY <1>1, <2>1, <2>3 DEF Due, LastN
<1>8. CASE Trim
  <2>1. /\ phase = "trim" /\ phase' = "trim" /\ order' = Tail(order)
        /\ Capacity > 0 /\ Len(order) > Capacity /\ UNCHANGED <<call, pre>>
    BY <1>8 DEF Trim, Over
  <2>2. LastN(Tail(order), Capacity) = LastN(order, Capacity)
    BY <1>1, <2>1, LastNTail
  <2>3. ASSUME pre.faults = faults' PROVE pre.window = LastN(order', Capacity)
    <3>1. pre.faults = faults
      BY <1>1, <2>3
    <3> QED
      BY <2>1, <2>2, <3>1 DEF Due
  <2> QED
    BY <1>1, <2>1, <2>3 DEF Due, LastN
<1>9. CASE TrimDone \/ GetItem \/ ListItems
  <2>1. phase' = "idle" /\ pre' = pre
    BY <1>9 DEF TrimDone, GetItem, ListItems
  <2> QED
    BY <1>1, <2>1 DEF Due
<1>10. CASE UNCHANGED vars
  <2>1. UNCHANGED <<order, faults, phase, call, items, expired, pre>>
    BY <1>10 DEF vars, storeVars
  <2> QED
    BY <2>1 DEF Due, Members, Queue!Members, Kept, Grown, IdsOf, LastN
<1> QED
  BY <1>2, <1>3, <1>4, <1>5, <1>6, <1>7, <1>8, <1>9, <1>10 DEF Next

LEMMA WindowStep ==
    ASSUME Inv, CallKind, Due, Window, [Next]_vars,
           phase' = "idle", call'.op = "add", faults' = pre'.faults
    PROVE  order' = pre'.window
<1>1. /\ faults \in Nat /\ faults' \in Nat /\ faults <= faults'
      /\ pre.faults \in Nat /\ pre.faults <= faults
      /\ order \in Seq(Ids) /\ Capacity \in Nat
  BY FaultsGrow, MemoryAssumption DEF Due, Inv, TypeOK
<1>2. CASE TrimDone
  <2>1. phase = "trim" /\ ~Over /\ UNCHANGED <<order, faults, pre>>
    BY <1>2 DEF TrimDone, storeVars
  <2>2. LastN(order, Capacity) = order
    BY <2>1 DEF Over, LastN
  <2>3. pre.window = LastN(order, Capacity)
    BY <2>1 DEF Due
  <2> QED
    BY <2>1, <2>2, <2>3
<1>3. CASE AddItem
  <2>1. faults' = faults + 1 /\ pre' = pre
    BY <1>3 DEF AddItem, StoreFault
  <2>2. pre.faults = faults + 1
    BY <2>1
  <2>3. \A f, g \in Nat : ~(g <= f /\ g = f + 1)
    OBVIOUS
  <2> QED
    BY <1>1, <2>2, <2>3
<1>4. CASE UNCHANGED vars
  BY <1>4 DEF vars, storeVars, Window
<1>5. CASE Next /\ ~TrimDone /\ ~AddItem
  <2>1. ~(Tick \/ Clear \/ \E id \in Ids : Update(id) \/ Delete(id))
    BY ShortCalls
  <2>2. ~(\/ \E batch \in Batches : Add(batch)
          \/ \E id \in Ids : Get(id)
          \/ \E limit \in 0..1 : List(limit))
    BY LongCalls DEF Inv
  <2>3. CleanupDelete \/ CleanupDone \/ AddDone \/ Trim \/ GetItem \/ ListItems
    BY <1>5, <2>1, <2>2 DEF Next
  <2> QED
    <3>1. CASE CleanupDone \/ CleanupDelete
      BY <3>1 DEF CleanupDone, CleanupDelete, Inv, CallOK
    <3>2. CASE AddDone \/ Trim
      BY <3>2 DEF AddDone, Trim
    <3>3. CASE GetItem \/ ListItems
      BY <3>3 DEF GetItem, ListItems, CallKind
    <3> QED
      BY <2>3, <3>1, <3>2, <3>3
<1> QED
  BY <1>2, <1>3, <1>4, <1>5

-----------------------------------------------------------------------------
(* All of it.                                                              *)
Strong ==
    /\ Inv /\ CallKind /\ Size /\ DoubtCounted /\ Cleaned /\ FreshResults /\ Due /\ Window

LEMMA StrongInit == Init => Strong
<1> SUFFICES ASSUME Init PROVE Strong
  OBVIOUS
<1>1. CallKind /\ DoubtCounted /\ Cleaned /\ FreshResults /\ Due /\ Window
  BY DEF Init, CallKind, DoubtCounted, Cleaned, FreshResults, Due, Window, NoWindow
<1>2. Size
  <2>1. Members(order) \ late = {}
    BY MembersDef DEF Init
  <2>2. Capacity \in Nat /\ Cardinality({}) = 0
    BY MemoryAssumption, FS_EmptySet
  <2> QED
    BY <2>1, <2>2 DEF Size
<1> QED
  BY <1>1, <1>2, InvInit DEF Strong

LEMMA StrongNext == Strong /\ [Next]_vars => Strong'
<1> SUFFICES ASSUME Strong, [Next]_vars PROVE Strong'
  OBVIOUS
<1> USE DEF Strong
<1>1. Inv'
  BY InvNext
<1>2. CallKind' /\ DoubtCounted' /\ Due'
  BY CallKindStep, DoubtStep, DueStep
<1>3. Size'
  <2>1. Capacity > 0 /\ phase' # "trim" => Cardinality(Members(order') \ late') <= Capacity
    BY <1>1, SizeStep
  <2> QED
    BY <2>1 DEF Size, Members, Queue!Members
<1>4. Cleaned'
  <2>1. phase' \in {"clean", "get", "list"} =>
          \A x \in Members(order') \ expired' : x \in DOMAIN store' /\ ~(now' > store'[x])
    BY CleanedStep
  <2> QED
    BY <2>1 DEF Cleaned, Fresh, IsExpired, Members, Queue!Members
<1>5. FreshResults'
  <2>1. phase' = "idle" /\ call'.op \in {"get", "list"} /\ ret' # "error" =>
          \A x \in Members(ret') : now' > store'[x] =>
              call'.op = "get" /\ faults' > 0 /\ x \notin Members(order')
    BY ResultsStep
  <2> QED
    BY <2>1 DEF FreshResults, IsExpired, Members, Queue!Members
<1>6. Window'
  BY WindowStep DEF Window
<1> QED
  BY <1>1, <1>2, <1>3, <1>4, <1>5, <1>6

(* Between calls, the ids of a memory fit its capacity but for those that  *)
(* Add calls pushed which then failed, until an Add comes to the trimming. *)
THEOREM CapacityHolds == Spec => []CapacityKept
<1>1. Strong => CapacityKept
  BY DEF Strong, Size, CapacityKept
<1> QED
  BY <1>1, StrongInit, StrongNext, PTL DEF Spec

(* What List returns has not expired; what Get returns has expired only    *)
(* when a failed deletion left it in the store and out of the ring.        *)
THEOREM ResultsAreFresh == Spec => []FreshResults
<1>1. Strong => FreshResults
  BY DEF Strong
<1> QED
  BY <1>1, StrongInit, StrongNext, PTL DEF Spec

(* An Add during which no call of the store fails leaves exactly the last  *)
(* Capacity of what had not expired and the new ids, in that order.        *)
THEOREM WindowHolds == Spec => []Window
<1>1. Strong => Window
  BY DEF Strong
<1> QED
  BY <1>1, StrongInit, StrongNext, PTL DEF Spec
=============================================================================
