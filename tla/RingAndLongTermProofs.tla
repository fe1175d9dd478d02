----------------------- MODULE RingAndLongTermProofs -----------------------
(***************************************************************************)
(* Proofs about two parts of memory/type_, one after the other.            *)
(*                                                                         *)
(* The ring buffer of ids keeps its representation and implements a queue  *)
(* without repetition, for every set of ids and every initial capacity.    *)
(*                                                                         *)
(* The long-term memory keeps what its operations promise while those of   *)
(* other clients run, and its episodic store implements a memory store of  *)
(* bounded size, for every set of clients, users, contents and batches.    *)
(***************************************************************************)
EXTENDS IdRing, LongTermMemory, SequenceTheorems, FiniteSetTheorems, TLAPS

Inv == TypeOK /\ RingSound

-----------------------------------------------------------------------------
(* Positions.                                                              *)

(* The remainder that the code uses wraps at most once.                    *)
LEMMA Wrap ==
    ASSUME NEW c \in Nat \ {0}, NEW h \in Slots(c), NEW i \in Slots(c)
    PROVE  (h + i) % c = IF h + i < c THEN h + i ELSE h + i - c
<1>1. CASE h + i < c
  BY <1>1 DEF Slots
<1>2. CASE h + i >= c
  BY <1>2 DEF Slots
<1> QED
  BY <1>1, <1>2 DEF Slots

(* From any head, positions enumerate the slots without repetition.        *)
LEMMA PosBijective ==
    ASSUME NEW c \in Nat \ {0}, NEW h \in Slots(c)
    PROVE  /\ \A i \in Slots(c) : (h + i) % c \in Slots(c)
           /\ \A i, j \in Slots(c) : (h + i) % c = (h + j) % c => i = j
           /\ \A p \in Slots(c) : \E i \in Slots(c) : (h + i) % c = p
<1>1. \A i \in Slots(c) : (h + i) % c = IF h + i < c THEN h + i ELSE h + i - c
  BY Wrap
<1>2. \A i \in Slots(c) : (h + i) % c \in Slots(c)
  BY <1>1 DEF Slots
<1>3. \A i, j \in Slots(c) : (h + i) % c = (h + j) % c => i = j
  BY <1>1 DEF Slots
<1>4. ASSUME NEW p \in Slots(c) PROVE \E i \in Slots(c) : (h + i) % c = p
  <2> DEFINE i == IF p >= h THEN p - h ELSE p - h + c
  <2>1. i \in Slots(c) /\ (IF h + i < c THEN h + i ELSE h + i - c) = p
    BY DEF Slots
  <2> QED
    BY <2>1, <1>1
<1> QED
  BY <1>2, <1>3, <1>4

(* The same for the current head.                                          *)
LEMMA PosFacts ==
    ASSUME TypeOK
    PROVE  /\ \A i \in Slots(cap) : Pos(i) \in Slots(cap)
           /\ \A i, j \in Slots(cap) : Pos(i) = Pos(j) => i = j
           /\ \A p \in Slots(cap) : \E i \in Slots(cap) : Pos(i) = p
           /\ Slots(size) \subseteq Slots(cap)
           /\ Pos(0) = head
<1>1. cap \in Nat \ {0} /\ head \in Slots(cap) /\ size \in 0..cap
  BY DEF TypeOK
<1>2. Slots(size) \subseteq Slots(cap)
  BY <1>1 DEF Slots
<1>3. Pos(0) = head
  <2>1. 0 \in Slots(cap) /\ head + 0 = head /\ head < cap
    BY <1>1 DEF Slots
  <2>2. (head + 0) % cap = IF head + 0 < cap THEN head + 0 ELSE head + 0 - cap
    BY <1>1, <2>1, Wrap
  <2> QED
    BY <2>1, <2>2 DEF Pos
<1> QED
  BY <1>1, <1>2, <1>3, PosBijective DEF Pos

(* With the head at 0, the i-th element is at position i.                  *)
LEMMA PosZero ==
    ASSUME NEW c \in Nat \ {0}, NEW i \in Slots(c)
    PROVE  (0 + i) % c = i
<1>1. 0 \in Slots(c)
  BY DEF Slots
<1>2. (0 + i) % c = IF 0 + i < c THEN 0 + i ELSE 0 + i - c
  BY <1>1, Wrap
<1> QED
  BY <1>2 DEF Slots

(* An id in the index is in the window.                                    *)
LEMMA IndexInWindow ==
    ASSUME Inv, NEW x \in DOMAIN index
    PROVE  \E i \in Slots(size) : Pos(i) = index[x] /\ buf[Pos(i)] = x
<1>1. index[x] \in Slots(cap) /\ x \in Ids /\ buf[index[x]] = x
  BY DEF Inv, TypeOK, RingSound
<1>2. PICK i \in Slots(cap) : Pos(i) = index[x]
  BY <1>1, PosFacts DEF Inv
<1>3. ~(i >= size)
  BY <1>1, <1>2, RingAssumption DEF Inv, RingSound
<1>4. i \in Slots(size)
  BY <1>3 DEF Inv, TypeOK, Slots
<1> QED
  BY <1>1, <1>2, <1>4

(* The ids in the window are those of the index.                           *)
LEMMA WindowIds ==
    ASSUME Inv
    PROVE  \A i \in Slots(size) : buf[Pos(i)] \in Ids /\ Contains(buf[Pos(i)])
BY DEF Inv, TypeOK, RingSound, Contains

-----------------------------------------------------------------------------
(* Representation.                                                         *)

(* newIDRing builds an empty ring.                                         *)
LEMMA InvInit == Init => Inv
<1> SUFFICES ASSUME Init PROVE Inv
  OBVIOUS
<1>1. cap \in Nat \ {0}
  BY RingAssumption DEF Init
<1>2. TypeOK
  BY <1>1 DEF Init, TypeOK, Empty, Slots, NoIndex
<1>3. Slots(size) = {}
  BY DEF Init, Slots
<1>4. \A i \in Slots(cap) : buf[Pos(i)] = None
  BY <1>2, PosFacts DEF Init, Empty
<1> QED
  BY <1>2, <1>3, <1>4 DEF Inv, RingSound, Init, NoIndex

(* Operations that only read.                                              *)
LEMMA InvSame ==
    ASSUME Inv, UNCHANGED <<cap, buf, head, size, index>>, ret' \in Seq(Ids)
    PROVE  Inv'
BY DEF Inv, TypeOK, RingSound, Pos

(* What Values returns is a sequence of ids.                               *)
LEMMA ContentType ==
    ASSUME Inv
    PROVE  Content \in Seq(Ids) /\ Len(Content) = size
<1>1. size \in Nat
  BY DEF Inv, TypeOK
<1>2. \A i \in 1..size : buf[Pos(i - 1)] \in Ids
  BY <1>1, WindowIds DEF Slots
<1> QED
  BY <1>1, <1>2 DEF Content

(* PushBack with room puts the id behind the window.                       *)
LEMMA InvPushFits ==
    ASSUME Inv, NEW id \in Ids, PushFits(id)
    PROVE  Inv'
<1>1. /\ cap \in Nat \ {0} /\ head \in Slots(cap) /\ size \in 0..cap /\ size < cap
      /\ buf \in [Slots(cap) -> Ids \cup {None}]
      /\ cap' = cap /\ head' = head /\ size' = size + 1 /\ size \in Slots(cap)
  BY DEF Inv, TypeOK, PushFits, Slots
<1> DEFINE q == Pos(size)
<1>2. /\ \A i \in Slots(cap) : Pos(i) \in Slots(cap)
      /\ \A i, j \in Slots(cap) : Pos(i) = Pos(j) => i = j
      /\ Slots(size) \subseteq Slots(cap) /\ size \in Slots(cap)
  BY <1>1, PosFacts DEF Inv
<1>3. \A i : Pos(i)' = Pos(i)
  BY <1>1 DEF Pos
<1>4. /\ buf' \in [Slots(cap) -> Ids \cup {None}]
      /\ buf'[q] = id /\ \A p \in Slots(cap) : p # q => buf'[p] = buf[p]
  BY <1>1, <1>2 DEF PushFits
<1>5. Slots(size + 1) = Slots(size) \cup {size} /\ size \notin Slots(size)
  BY <1>1 DEF Slots
<1>6. \A i \in Slots(size) : Pos(i) # q /\ Pos(i) \in Slots(cap) /\ buf'[Pos(i)] = buf[Pos(i)]
  BY <1>2, <1>4, <1>5
<1>7. /\ DOMAIN index' = DOMAIN index \cup {id} /\ id \notin DOMAIN index
      /\ index'[id] = q /\ \A x \in DOMAIN index : index'[x] = index[x]
  BY DEF PushFits, Contains
<1>8. TypeOK'
  <2>1. DOMAIN index' \subseteq Ids /\ \A x \in DOMAIN index' : index'[x] \in Slots(cap)
    BY <1>2, <1>7 DEF Inv, TypeOK
  <2>2. ret' \in Seq(Ids)
    BY DEF PushFits
  <2>3. size + 1 \in 0..cap
    BY <1>1
  <2> QED
    BY <1>1, <1>4, <2>1, <2>2, <2>3 DEF TypeOK
<1>9. \A i \in Slots(size + 1) : buf'[Pos(i)] # None
  BY <1>4, <1>5, <1>6, RingAssumption DEF Inv, RingSound
<1>10. \A i, j \in Slots(size + 1) : buf'[Pos(i)] = buf'[Pos(j)] => i = j
  <2>1. \A i \in Slots(size) : buf'[Pos(i)] # id
    BY <1>6, <1>7, WindowIds DEF Contains
  <2> QED
    BY <2>1, <1>4, <1>5, <1>6 DEF Inv, RingSound
<1>11. \A i \in Slots(cap) : i >= size + 1 => buf'[Pos(i)] = None
  <2> SUFFICES ASSUME NEW i \in Slots(cap), i >= size + 1 PROVE buf'[Pos(i)] = None
    OBVIOUS
  <2>1. i # size /\ i >= size
    BY <1>1 DEF Slots
  <2>2. Pos(i) # q /\ Pos(i) \in Slots(cap)
    BY <2>1, <1>2
  <2>3. buf[Pos(i)] = None
    BY <2>1 DEF Inv, RingSound
  <2> QED
    BY <2>2, <2>3, <1>4
<1>12. \A i \in Slots(size + 1) :
          buf'[Pos(i)] \in DOMAIN index' /\ index'[buf'[Pos(i)]] = Pos(i)
  BY <1>4, <1>5, <1>6, <1>7 DEF Inv, RingSound
<1>13. \A x \in DOMAIN index' : buf'[index'[x]] = x
  <2>1. \A x \in DOMAIN index : index[x] # q /\ index[x] \in Slots(cap) /\ buf[index[x]] = x
    <3> SUFFICES ASSUME NEW x \in DOMAIN index PROVE index[x] # q /\ index[x] \in Slots(cap) /\ buf[index[x]] = x
      OBVIOUS
    <3>1. PICK i \in Slots(size) : Pos(i) = index[x] /\ buf[Pos(i)] = x
      BY IndexInWindow
    <3> QED
      BY <3>1, <1>6
  <2> QED
    BY <2>1, <1>4, <1>7
<1> QED
  BY <1>1, <1>3, <1>8, <1>9, <1>10, <1>11, <1>12, <1>13 DEF Inv, RingSound

(* A ring with its head at 0, given by a sequence of n different ids: what *)
(* ensureCapacity and Remove build.                                        *)
Rebuilt(c, n, vals) ==
    /\ cap' = c /\ size' = n /\ head' = 0
    /\ buf' = [p \in Slots(c) |-> IF p < n THEN vals[p] ELSE None]
    /\ DOMAIN index' = {vals[p] : p \in Slots(n)}
    /\ \A p \in Slots(n) : index'[vals[p]] = p

(* Such a ring is sound.                                                   *)
LEMMA InvRebuilt ==
    ASSUME NEW c \in Nat \ {0}, NEW n \in 0..c, NEW vals, Rebuilt(c, n, vals),
           \A p \in Slots(n) : vals[p] \in Ids,
           \A p, q \in Slots(n) : vals[p] = vals[q] => p = q,
           ret' \in Seq(Ids)
    PROVE  Inv'
<1>1. Slots(n) \subseteq Slots(c) /\ 0 \in Slots(c)
  BY DEF Slots
<1>2. \A i \in Slots(c) : Pos(i)' = i
  <2>1. \A i \in Slots(c) : (0 + i) % c = i
    BY PosZero
  <2> QED
    BY <2>1 DEF Rebuilt, Pos
<1>3. /\ \A i \in Slots(n) : buf'[i] = vals[i]
      /\ \A i \in Slots(c) : i >= n => buf'[i] = None
      /\ buf' \in [Slots(c) -> Ids \cup {None}]
  BY <1>1 DEF Rebuilt, Slots
<1>4. TypeOK'
  <2>1. DOMAIN index' \subseteq Ids /\ \A x \in DOMAIN index' : index'[x] \in Slots(c)
    BY <1>1 DEF Rebuilt
  <2> QED
    BY <1>1, <1>3, <2>1 DEF Rebuilt, TypeOK
<1>5. \A i \in Slots(n) : Pos(i)' = i
  BY <1>1, <1>2
<1>6. \A i \in Slots(n) : buf'[i] # None
  BY <1>3, RingAssumption
<1>7. \A i, j \in Slots(n) : buf'[i] = buf'[j] => i = j
  BY <1>3
<1>8. \A i \in Slots(n) : buf'[i] \in DOMAIN index' /\ index'[buf'[i]] = i
  BY <1>3 DEF Rebuilt
<1>9. \A x \in DOMAIN index' : buf'[index'[x]] = x
  BY <1>3 DEF Rebuilt
<1> QED
  BY <1>2, <1>3, <1>4, <1>5, <1>6, <1>7, <1>8, <1>9 DEF Inv, RingSound, Rebuilt

(* ensureCapacity copies the window to the beginning of a larger buffer.   *)
LEMMA GrowRebuilds ==
    ASSUME Inv, NEW id \in Ids, PushGrow(id)
    PROVE  LET vals == [p \in Slots(size + 1) |-> IF p < size THEN buf[Pos(p)] ELSE id]
           IN  /\ cap' \in Nat \ {0} /\ size + 1 \in 0..cap'
               /\ Rebuilt(cap', size + 1, vals)
               /\ \A p \in Slots(size + 1) : vals[p] \in Ids
               /\ \A p, q \in Slots(size + 1) : vals[p] = vals[q] => p = q
<1> DEFINE vals == [p \in Slots(size + 1) |-> IF p < size THEN buf[Pos(p)] ELSE id]
<1> HIDE DEF vals
<1>1. /\ cap \in Nat \ {0} /\ size = cap /\ size \in Nat
      /\ cap' \in Nat \ {0} /\ size + 1 <= cap' /\ size' = size + 1 /\ head' = 0
  BY RingAssumption DEF Inv, TypeOK, PushGrow
<1>2. Slots(size + 1) = Slots(size) \cup {size} /\ size \notin Slots(size)
  BY <1>1 DEF Slots
<1>3. /\ \A p \in Slots(size) : vals[p] = buf[Pos(p)]
      /\ vals[size] = id
  BY <1>1, <1>2 DEF vals, Slots
<1>4. id \notin DOMAIN index /\ DOMAIN index' = DOMAIN index \cup {id}
  BY DEF PushGrow, Contains
<1>5. \A p \in Slots(size + 1) : vals[p] \in Ids
  BY <1>2, <1>3, WindowIds
<1>6. \A p \in Slots(size) : vals[p] # id
  BY <1>3, <1>4, WindowIds DEF Contains
<1>7. \A p, q \in Slots(size + 1) : vals[p] = vals[q] => p = q
  BY <1>2, <1>3, <1>6 DEF Inv, RingSound
<1>8. buf' = [p \in Slots(cap') |-> IF p < size + 1 THEN vals[p] ELSE None]
  <2>1. \A p \in Slots(cap') : (IF p < size THEN Unrolled[p] ELSE IF p = size THEN id ELSE None)
                                = (IF p < size + 1 THEN vals[p] ELSE None)
    <3> SUFFICES ASSUME NEW p \in Slots(cap')
                 PROVE  (IF p < size THEN Unrolled[p] ELSE IF p = size THEN id ELSE None)
                          = (IF p < size + 1 THEN vals[p] ELSE None)
      OBVIOUS
    <3>0. p \in Nat
      BY <1>1 DEF Slots
    <3>1. CASE p < size
      <4>1. p \in Slots(size) /\ p < size + 1
        BY <1>1, <3>0, <3>1 DEF Slots
      <4> QED
        BY <4>1, <3>1, <1>3 DEF Unrolled
    <3>2. CASE p = size
      BY <3>2, <1>1, <1>3
    <3>3. CASE p > size
      BY <3>3, <3>0, <1>1
    <3> QED
      BY <3>0, <3>1, <3>2, <3>3, <1>1
  <2> QED
    BY <2>1 DEF PushGrow
<1>9. DOMAIN index' = {vals[p] : p \in Slots(size + 1)}
  <2>1. \A x \in DOMAIN index : \E p \in Slots(size) : vals[p] = x
    BY <1>3, IndexInWindow
  <2>2. \A p \in Slots(size) : vals[p] \in DOMAIN index
    BY <1>3, WindowIds DEF Contains
  <2> QED
    BY <2>1, <2>2, <1>2, <1>3, <1>4
<1>10. \A p \in Slots(size + 1) : index'[vals[p]] = p
  <2>1. index'[id] = size
    BY DEF PushGrow
  <2>2. ASSUME NEW p \in Slots(size) PROVE index'[vals[p]] = p
    <3>1. vals[p] \in DOMAIN index /\ vals[p] # id
      BY <1>3, <1>6, WindowIds DEF Contains
    <3>2. index'[vals[p]] = CHOOSE i \in Slots(size) : Unrolled[i] = vals[p]
      BY <3>1 DEF PushGrow, IndexIn
    <3>3. \A i \in Slots(size) : Unrolled[i] = vals[p] <=> i = p
      BY <1>3 DEF Inv, RingSound, Unrolled
    <3> QED
      BY <3>2, <3>3
  <2> QED
    BY <2>1, <2>2, <1>2, <1>3
<1>11. size + 1 \in 0..cap'
  BY <1>1
<1> QED
  BY <1>1, <1>5, <1>7, <1>8, <1>9, <1>10, <1>11 DEF Rebuilt, vals

(* Remove keeps the other ids in their order.                              *)
LEMMA RemoveRebuilds ==
    ASSUME Inv, NEW id \in Ids, Remove(id), NEW k \in Slots(size), buf[Pos(k)] = id
    PROVE  /\ size - 1 \in 0..cap
           /\ Rebuilt(cap, size - 1, Rest(k))
           /\ \A p \in Slots(size - 1) : Rest(k)[p] \in Ids
           /\ \A p, q \in Slots(size - 1) : Rest(k)[p] = Rest(k)[q] => p = q
<1> DEFINE src(p) == IF p < k THEN p ELSE p + 1
           vals == Rest(k)
<1>1. cap \in Nat \ {0} /\ size \in 0..cap /\ k \in Nat /\ k < size /\ size >= 1
  BY DEF Inv, TypeOK, Slots
<1>2. /\ \A p \in Slots(size - 1) : src(p) \in Slots(size) /\ src(p) # k
      /\ \A p, q \in Slots(size - 1) : src(p) = src(q) => p = q
      /\ \A i \in Slots(size) : i # k => \E p \in Slots(size - 1) : src(p) = i
  <2>1. \A p \in Slots(size - 1) : src(p) \in Slots(size) /\ src(p) # k
    BY <1>1 DEF Slots
  <2>2. \A p, q \in Slots(size - 1) : src(p) = src(q) => p = q
    BY <1>1 DEF Slots
  <2>3. ASSUME NEW i \in Slots(size), i # k PROVE \E p \in Slots(size - 1) : src(p) = i
    <3> DEFINE p == IF i < k THEN i ELSE i - 1
    <3>1. p \in Slots(size - 1) /\ src(p) = i
      BY <1>1, <2>3 DEF Slots
    <3> QED
      BY <3>1
  <2> QED
    BY <2>1, <2>2, <2>3
<1>3. \A p \in Slots(size - 1) : vals[p] = buf[Pos(src(p))]
  BY DEF Rest
<1> HIDE DEF vals, src
<1>4. \A i, j \in Slots(size) : buf[Pos(i)] = buf[Pos(j)] => i = j
  BY DEF Inv, RingSound
<1>5. \A p \in Slots(size - 1) : vals[p] \in Ids /\ vals[p] # id /\ vals[p] \in DOMAIN index
  BY <1>2, <1>3, <1>4, WindowIds DEF Contains
<1>6. \A p, q \in Slots(size - 1) : vals[p] = vals[q] => p = q
  BY <1>2, <1>3, <1>4
<1>7. /\ buf' = [p \in Slots(cap) |-> IF p < size - 1 THEN vals[p] ELSE None]
      /\ index' = [x \in DOMAIN index \ {id} |-> IndexIn(vals, size - 1, x)]
      /\ head' = 0 /\ size' = size - 1 /\ cap' = cap
  <2>1. PICK j \in Slots(size) :
           /\ buf[Pos(j)] = id
           /\ buf' = [p \in Slots(cap) |-> IF p < size - 1 THEN Rest(j)[p] ELSE None]
           /\ index' = [x \in DOMAIN index \ {id} |->
                          IndexIn(Rest(j), size - 1, x)]
    BY DEF Remove
  <2>2. j = k
    BY <2>1, <1>4
  <2>3. head' = 0 /\ size' = size - 1 /\ cap' = cap
    BY DEF Remove
  <2> QED
    BY <2>1, <2>2, <2>3 DEF vals
<1>8. DOMAIN index' = {vals[p] : p \in Slots(size - 1)}
  <2>1. ASSUME NEW x \in DOMAIN index, x # id PROVE \E p \in Slots(size - 1) : vals[p] = x
    <3>1. PICK i \in Slots(size) : buf[Pos(i)] = x
      BY IndexInWindow
    <3> QED
      BY <3>1, <2>1, <1>2, <1>3
  <2>2. DOMAIN index' = DOMAIN index \ {id}
    BY <1>7
  <2> QED
    BY <2>1, <2>2, <1>5
<1>9. ASSUME NEW p \in Slots(size - 1) PROVE index'[vals[p]] = p
  <2>1. index'[vals[p]] = CHOOSE q \in Slots(size - 1) : vals[q] = vals[p]
    BY <1>5, <1>7 DEF IndexIn
  <2>2. \A q \in Slots(size - 1) : vals[q] = vals[p] <=> q = p
    BY <1>6
  <2> QED
    BY <2>1, <2>2
<1>10. size - 1 \in 0..cap
  BY <1>1
<1>11. Rebuilt(cap, size - 1, vals)
  BY <1>7, <1>8, <1>9 DEF Rebuilt
<1> QED
  BY <1>5, <1>6, <1>10, <1>11 DEF vals

(* PopFront frees the slot at head and moves the window; an empty ring     *)
(* starts again at 0.                                                      *)
LEMMA InvPopFront ==
    ASSUME Inv, PopFront
    PROVE  Inv'
<1>1. /\ cap \in Nat \ {0} /\ head \in Slots(cap) /\ size \in 0..cap /\ size > 0
      /\ buf \in [Slots(cap) -> Ids \cup {None}]
      /\ cap' = cap /\ size' = size - 1
      /\ buf' = [buf EXCEPT ![head] = None]
      /\ index' = [x \in DOMAIN index \ {buf[head]} |-> index[x]]
      /\ head' = IF size = 1 THEN 0 ELSE (head + 1) % cap
      /\ ret' = <<buf[head]>>
  BY DEF Inv, TypeOK, PopFront
<1>2. /\ \A i \in Slots(cap) : Pos(i) \in Slots(cap)
      /\ \A i, j \in Slots(cap) : Pos(i) = Pos(j) => i = j
      /\ \A p \in Slots(cap) : \E i \in Slots(cap) : Pos(i) = p
      /\ Slots(size) \subseteq Slots(cap) /\ Pos(0) = head
  BY PosFacts DEF Inv
<1>3. 0 \in Slots(size) /\ 0 \in Slots(cap) /\ buf[head] \in Ids
  <2>1. 0 \in Slots(size) /\ 0 \in Slots(cap)
    BY <1>1 DEF Slots
  <2> QED
    BY <2>1, <1>2, WindowIds
<1>4. /\ buf' \in [Slots(cap) -> Ids \cup {None}] /\ buf'[head] = None
      /\ \A p \in Slots(cap) : p # head => buf'[p] = buf[p]
  BY <1>1
<1>5. /\ DOMAIN index' = DOMAIN index \ {buf[head]}
      /\ \A x \in DOMAIN index' : index'[x] = index[x]
  BY <1>1
<1>6. DOMAIN index' \subseteq Ids /\ \A x \in DOMAIN index' : index'[x] \in Slots(cap)
  BY <1>5 DEF Inv, TypeOK
<1>7. size - 1 \in 0..cap /\ ret' \in Seq(Ids)
  BY <1>1, <1>3
<1>8. CASE size = 1
  <2>1. \A i \in Slots(cap) : i # 0 => buf[Pos(i)] = None
    BY <1>1, <1>8 DEF Inv, RingSound, Slots
  <2>2. \A p \in Slots(cap) : buf'[p] = None
    BY <2>1, <1>2, <1>4
  <2>3. DOMAIN index' = {}
    <3>1. ASSUME NEW x \in DOMAIN index PROVE x = buf[head]
      <4>1. PICK i \in Slots(size) : buf[Pos(i)] = x
        BY IndexInWindow
      <4>2. i = 0
        BY <1>8 DEF Slots
      <4> QED
        BY <4>1, <4>2, <1>2
    <3> QED
      BY <3>1, <1>5
  <2>4. TypeOK'
    BY <1>1, <1>3, <1>4, <1>6, <1>7, <1>8 DEF TypeOK
  <2>5. \A i \in Slots(cap) : Pos(i)' \in Slots(cap)
    <3>1. \A i \in Slots(cap) : (0 + i) % cap = i
      BY <1>1, PosZero
    <3> QED
      BY <3>1, <1>1, <1>8 DEF Pos
  <2>6. Slots(size') = {}
    BY <1>1, <1>8 DEF Slots
  <2> QED
    BY <1>1, <2>2, <2>3, <2>4, <2>5, <2>6 DEF Inv, RingSound
<1>9. CASE size > 1
  <2>1. head' = (head + 1) % cap /\ 1 \in Slots(cap) /\ head' = Pos(1) /\ head' \in Slots(cap)
    <3>1. head' = (head + 1) % cap /\ 1 \in Slots(cap)
      BY <1>1, <1>9 DEF Slots
    <3> QED
      BY <3>1, <1>2 DEF Pos
  <2>2. \A i \in Slots(cap) : i < cap - 1 => Pos(i)' = Pos(i + 1) /\ i + 1 \in Slots(cap)
    <3> SUFFICES ASSUME NEW i \in Slots(cap), i < cap - 1
                 PROVE  (head' + i) % cap = (head + (i + 1)) % cap /\ i + 1 \in Slots(cap)
      BY <1>1 DEF Pos
    <3>1. i + 1 \in Slots(cap)
      BY <1>1 DEF Slots
    <3>2. (head' + i) % cap = IF head' + i < cap THEN head' + i ELSE head' + i - cap
      BY <1>1, <2>1, Wrap
    <3>3. (head + (i + 1)) % cap = IF head + (i + 1) < cap THEN head + (i + 1) ELSE head + (i + 1) - cap
      BY <1>1, <3>1, Wrap
    <3>4. head' = IF head + 1 < cap THEN head + 1 ELSE head + 1 - cap
      BY <1>1, <2>1, Wrap
    <3> DEFINE a == (head' + i) % cap
               b == (head + (i + 1)) % cap
    <3>5. /\ a = IF head' + i < cap THEN head' + i ELSE head' + i - cap
          /\ b = IF head + (i + 1) < cap THEN head + (i + 1) ELSE head + (i + 1) - cap
          /\ i \in Nat /\ i < cap - 1 /\ head \in Nat /\ head < cap /\ cap \in Nat
      BY <1>1, <3>2, <3>3 DEF Slots
    <3> HIDE DEF a, b
    <3>6. a = b
      <4>1. CASE head + 1 < cap
        BY <4>1, <3>4, <3>5
      <4>2. CASE head + 1 >= cap
        BY <4>2, <3>4, <3>5
      <4> QED
        BY <4>1, <4>2, <3>5
    <3> QED
      BY <3>1, <3>6 DEF a, b
  <2>3. \A i \in Slots(cap) : i = cap - 1 => Pos(i)' = head
    <3>1. cap - 1 \in Slots(cap)
      BY <1>1 DEF Slots
    <3>2. (head' + (cap - 1)) % cap
             = IF head' + (cap - 1) < cap THEN head' + (cap - 1) ELSE head' + (cap - 1) - cap
      BY <1>1, <2>1, <3>1, Wrap
    <3>4. head' = IF head + 1 < cap THEN head + 1 ELSE head + 1 - cap
      BY <1>1, <2>1, Wrap
    <3>5. (head' + (cap - 1)) % cap = head
      BY <1>1, <3>2, <3>4 DEF Slots
    <3> QED
      BY <1>1, <3>1, <3>5 DEF Pos
  <2>4. \A i \in Slots(size - 1) : /\ i \in Slots(cap) /\ i + 1 \in Slots(size) /\ i + 1 # 0
                                   /\ Pos(i)' = Pos(i + 1)
    <3>1. \A i \in Slots(size - 1) : i \in Slots(cap) /\ i < cap - 1 /\ i + 1 \in Slots(size) /\ i + 1 # 0
      BY <1>1 DEF Slots
    <3> QED
      BY <3>1, <2>2
  <2>5. \A i \in Slots(size) : i # 0 => /\ Pos(i) \in Slots(cap) /\ Pos(i) # head
                                        /\ buf'[Pos(i)] = buf[Pos(i)] /\ buf[Pos(i)] # buf[head]
    <3>1. \A i \in Slots(size) : i # 0 => Pos(i) \in Slots(cap) /\ Pos(i) # head
      BY <1>2, <1>3
    <3>2. \A i \in Slots(size) : i # 0 => buf[Pos(i)] # buf[head]
      BY <1>2, <1>3 DEF Inv, RingSound
    <3> QED
      BY <3>1, <3>2, <1>4
  <2>6. \A i \in Slots(size - 1) : Pos(i)' = Pos(i + 1) /\ buf'[Pos(i)'] = buf[Pos(i + 1)]
    BY <2>4, <2>5
  <2>7. TypeOK'
    BY <1>1, <1>4, <1>6, <1>7, <2>1 DEF TypeOK
  <2>8. \A i \in Slots(size - 1) : buf'[Pos(i)'] # None
    BY <2>4, <2>6 DEF Inv, RingSound
  <2>9. ASSUME NEW i \in Slots(size - 1), NEW j \in Slots(size - 1), buf'[Pos(i)'] = buf'[Pos(j)']
        PROVE  i = j
    <3>1. i + 1 = j + 1
      BY <2>4, <2>6, <2>9 DEF Inv, RingSound
    <3> QED
      BY <3>1, <1>1 DEF Slots
  <2>10. ASSUME NEW i \in Slots(cap), i >= size - 1 PROVE buf'[Pos(i)'] = None
    <3>1. CASE i = cap - 1
      BY <3>1, <2>3, <1>4
    <3>2. CASE i < cap - 1
      <4>1. Pos(i)' = Pos(i + 1) /\ i + 1 \in Slots(cap) /\ i + 1 >= size
        BY <1>1, <2>2, <2>10, <3>2 DEF Slots
      <4>2. buf[Pos(i + 1)] = None /\ Pos(i + 1) \in Slots(cap)
        BY <4>1, <1>2 DEF Inv, RingSound
      <4> QED
        BY <4>1, <4>2, <1>4
    <3> QED
      BY <3>1, <3>2, <1>1 DEF Slots
  <2>11. \A i \in Slots(size - 1) :
            buf'[Pos(i)'] \in DOMAIN index' /\ index'[buf'[Pos(i)']] = Pos(i)'
    <3>1. \A i \in Slots(size - 1) : /\ buf[Pos(i + 1)] # buf[head]
                                     /\ buf[Pos(i + 1)] \in DOMAIN index
                                     /\ index[buf[Pos(i + 1)]] = Pos(i + 1)
      BY <2>4, <2>5 DEF Inv, RingSound
    <3> QED
      BY <3>1, <2>6, <1>5
  <2>12. ASSUME NEW x \in DOMAIN index' PROVE buf'[index'[x]] = x
    <3>1. x \in DOMAIN index /\ x # buf[head] /\ index'[x] = index[x]
      BY <1>5
    <3>2. buf[index[x]] = x /\ index[x] \in Slots(cap)
      BY <3>1 DEF Inv, RingSound, TypeOK
    <3> QED
      BY <3>1, <3>2, <1>4
  <2> QED
    BY <1>1, <2>7, <2>8, <2>9, <2>10, <2>11, <2>12 DEF Inv, RingSound
<1> QED
  BY <1>1, <1>8, <1>9

(* Reset empties all slots.                                                *)
LEMMA InvReset ==
    ASSUME Inv, Reset
    PROVE  Inv'
<1> DEFINE none == [p \in Slots(0) |-> None]
<1>1. cap \in Nat \ {0} /\ 0 \in 0..cap /\ Slots(0) = {}
  BY DEF Inv, TypeOK, Slots
<1>2. Rebuilt(cap, 0, none)
  <2>1. buf' = [p \in Slots(cap) |-> IF p < 0 THEN none[p] ELSE None]
    BY <1>1 DEF Reset, Empty, Slots
  <2>2. DOMAIN index' = {}
    BY DEF Reset, NoIndex
  <2> QED
    BY <1>1, <2>1, <2>2 DEF Rebuilt, Reset
<1>3. ret' \in Seq(Ids)
  BY DEF Reset
<1> QED
  BY <1>1, <1>2, <1>3, InvRebuilt

(* Every operation keeps the representation.                               *)
LEMMA InvNext == Inv /\ [Next]_vars => Inv'
<1> SUFFICES ASSUME Inv, [Next]_vars PROVE Inv'
  OBVIOUS
<1>1. ASSUME NEW id \in Ids, PushGrow(id) PROVE Inv'
  <2> DEFINE vals == [p \in Slots(size + 1) |-> IF p < size THEN buf[Pos(p)] ELSE id]
  <2>1. ret' \in Seq(Ids)
    BY <1>1 DEF PushGrow
  <2>2. /\ cap' \in Nat \ {0} /\ size + 1 \in 0..cap'
        /\ Rebuilt(cap', size + 1, vals)
        /\ \A p \in Slots(size + 1) : vals[p] \in Ids
        /\ \A p, q \in Slots(size + 1) : vals[p] = vals[q] => p = q
    BY <1>1, GrowRebuilds, Zenon
  <2> HIDE DEF vals
  <2> QED
    BY <2>1, <2>2, InvRebuilt
<1>2. ASSUME NEW id \in Ids, PushFits(id) PROVE Inv'
  BY <1>2, InvPushFits
<1>3. ASSUME NEW id \in Ids, PushAgain(id) \/ RemoveNothing(id) PROVE Inv'
  <2>1. UNCHANGED <<cap, buf, head, size, index>> /\ ret' = <<>>
    BY <1>3 DEF PushAgain, RemoveNothing
  <2>2. ret' \in Seq(Ids)
    BY <2>1
  <2> QED
    BY <2>1, <2>2, InvSame
<1>4. ASSUME NEW id \in Ids, Remove(id) PROVE Inv'
  <2>1. PICK k \in Slots(size) : buf[Pos(k)] = id
    BY <1>4 DEF Remove
  <2>2. ret' \in Seq(Ids) /\ cap \in Nat \ {0}
    BY <1>4 DEF Remove, Inv, TypeOK
  <2> QED
    BY <1>4, <2>1, <2>2, RemoveRebuilds, InvRebuilt
<1>5. CASE PopFront
  BY <1>5, InvPopFront
<1>6. CASE PopEmpty
  BY <1>6, InvSame DEF PopEmpty
<1>7. CASE Values
  BY <1>7, InvSame, ContentType DEF Values
<1>8. CASE Reset
  BY <1>8, InvReset
<1>9. CASE UNCHANGED vars
  <2>1. ret' \in Seq(Ids)
    BY <1>9 DEF vars, Inv, TypeOK
  <2> QED
    BY <1>9, <2>1, InvSame DEF vars
<1> QED
  BY <1>1, <1>2, <1>3, <1>4, <1>5, <1>6, <1>7, <1>8, <1>9 DEF Next

(* The window of the ring and its index describe each other after any      *)
(* sequence of operations of the idRing in memory/type_/util.go.           *)
THEOREM RingSoundHolds == Spec => []RingSound
<1>1. Inv => RingSound
  BY DEF Inv
<1> QED
  BY <1>1, InvInit, InvNext, PTL DEF Spec

(* Types and bounds of head and size.                                      *)
THEOREM RingTypeCorrect == Spec => []TypeOK
<1>1. Inv => TypeOK
  BY DEF Inv
<1> QED
  BY <1>1, InvInit, InvNext, PTL DEF Spec

-----------------------------------------------------------------------------
(* Refinement of IdQueue.                                                  *)

(* Append and Tail as functions.                                           *)
LEMMA AppendFun ==
    ASSUME NEW s \in Seq(Ids), NEW x \in Ids
    PROVE  Append(s, x) = [i \in 1..(Len(s) + 1) |-> IF i = Len(s) + 1 THEN x ELSE s[i]]
<1> DEFINE t == [i \in 1..(Len(s) + 1) |-> IF i = Len(s) + 1 THEN x ELSE s[i]]
<1>1. Len(s) \in Nat /\ \A i \in 1..Len(s) : s[i] \in Ids
  OBVIOUS
<1>2. \A i \in 1..(Len(s) + 1) : (IF i = Len(s) + 1 THEN x ELSE s[i]) \in Ids
  BY <1>1
<1>3. t \in Seq(Ids) /\ Len(t) = Len(s) + 1
  BY <1>1, <1>2
<1>4. /\ Append(s, x) \in Seq(Ids) /\ Len(Append(s, x)) = Len(s) + 1
      /\ \A i \in 1..Len(s) : Append(s, x)[i] = s[i]
      /\ Append(s, x)[Len(s) + 1] = x
  BY AppendProperties
<1>5. \A i \in 1..(Len(s) + 1) : Append(s, x)[i] = t[i]
  BY <1>1, <1>4
<1> QED
  BY <1>3, <1>4, <1>5, SeqEqual

(* The tail of a sequence, as a function.                                  *)
LEMMA TailFun ==
    ASSUME NEW s \in Seq(Ids), s # <<>>
    PROVE  Tail(s) = [i \in 1..(Len(s) - 1) |-> s[i + 1]]
<1> DEFINE t == [i \in 1..(Len(s) - 1) |-> s[i + 1]]
<1>1. Len(s) \in Nat \ {0} /\ \A i \in 1..Len(s) : s[i] \in Ids
  BY EmptySeq
<1>2. \A i \in 1..(Len(s) - 1) : s[i + 1] \in Ids
  BY <1>1
<1>3. t \in Seq(Ids) /\ Len(t) = Len(s) - 1
  BY <1>1, <1>2
<1>4. /\ Tail(s) \in Seq(Ids) /\ Len(Tail(s)) = Len(s) - 1
      /\ \A i \in 1..(Len(s) - 1) : Tail(s)[i] = s[i + 1]
  BY HeadTailProperties
<1>5. \A i \in 1..(Len(s) - 1) : Tail(s)[i] = t[i]
  BY <1>4
<1> QED
  BY <1>3, <1>4, <1>5, SeqEqual

(* The members of the queue are the ids of the index.                      *)
LEMMA MembersContent ==
    ASSUME Inv
    PROVE  Queue!Members(Content) = DOMAIN index
<1>1. size \in Nat /\ DOMAIN Content = 1..size
  BY DEF Inv, TypeOK, Content
<1>2. \A i \in 1..size : i - 1 \in Slots(size) /\ Content[i] = buf[Pos(i - 1)]
  BY <1>1 DEF Content, Slots
<1>3. \A i \in 1..size : Content[i] \in DOMAIN index
  BY <1>2, WindowIds DEF Contains
<1>4. ASSUME NEW x \in DOMAIN index PROVE \E i \in 1..size : Content[i] = x
  <2>1. PICK p \in Slots(size) : buf[Pos(p)] = x
    BY IndexInWindow
  <2>2. p + 1 \in 1..size /\ (p + 1) - 1 = p
    BY <1>1 DEF Slots
  <2>3. Content[p + 1] = buf[Pos((p + 1) - 1)]
    BY <2>2, <1>2
  <2>4. Pos((p + 1) - 1) = Pos(p)
    BY <2>2 DEF Pos
  <2>5. Content[p + 1] = x
    BY <2>1, <2>3, <2>4
  <2> QED
    BY <2>2, <2>5
<1> QED
  BY <1>1, <1>3, <1>4 DEF Queue!Members

(* A ring built from vals contains vals.                                   *)
LEMMA RebuiltContent ==
    ASSUME NEW c \in Nat \ {0}, NEW n \in 0..c, NEW vals, Rebuilt(c, n, vals)
    PROVE  Content' = [i \in 1..n |-> vals[i - 1]]
<1>1. \A i \in 1..n : i - 1 \in Slots(c) /\ i - 1 < n
  BY DEF Slots
<1>2. \A p \in Slots(c) : (0 + p) % c = p
  BY PosZero
<1>3. \A i \in 1..n : (0 + (i - 1)) % c = i - 1
  BY <1>1, <1>2
<1>4. Content' = [i \in 1..n |-> buf'[(0 + (i - 1)) % c]]
  BY DEF Content, Pos, Rebuilt
<1>5. \A i \in 1..n : buf'[(0 + (i - 1)) % c] = vals[i - 1]
  BY <1>1, <1>3 DEF Rebuilt
<1> QED
  BY <1>4, <1>5

(* PushBack of a new id, with and without growth, appends it.              *)
LEMMA RefinePush ==
    ASSUME Inv, NEW id \in Ids, PushGrow(id) \/ PushFits(id)
    PROVE  Queue!PushBack(id)
<1>1. Content \in Seq(Ids) /\ Len(Content) = size /\ size \in Nat
  BY ContentType DEF Inv, TypeOK
<1>2. id \notin Queue!Members(Content) /\ ret' = <<>>
  BY MembersContent DEF PushGrow, PushFits, Contains
<1>3. \A i \in 1..size : Content[i] = buf[Pos(i - 1)] /\ i - 1 \in Slots(size)
  BY <1>1 DEF Content, Slots
<1>4. Append(Content, id) = [i \in 1..(size + 1) |-> IF i = size + 1 THEN id ELSE Content[i]]
  BY <1>1, AppendFun
<1>5. CASE PushGrow(id)
  <2> DEFINE vals == [p \in Slots(size + 1) |-> IF p < size THEN buf[Pos(p)] ELSE id]
  <2>0. /\ cap' \in Nat \ {0} /\ size + 1 \in 0..cap'
        /\ Rebuilt(cap', size + 1, vals)
    BY <1>5, GrowRebuilds
  <2>1. Content' = [i \in 1..(size + 1) |-> vals[i - 1]]
    <3> HIDE DEF vals
    <3> QED
      BY <2>0, RebuiltContent
  <2>2. \A i \in 1..(size + 1) : vals[i - 1] = IF i = size + 1 THEN id ELSE Content[i]
    BY <1>1, <1>3 DEF Slots
  <2>3. Content' = Append(Content, id)
    BY <2>1, <2>2, <1>4
  <2> QED
    BY <2>3, <1>2 DEF Queue!PushBack
<1>6. CASE PushFits(id)
  <2>1. /\ cap' = cap /\ head' = head /\ size' = size + 1 /\ size \in Slots(cap)
        /\ buf' = [buf EXCEPT ![Pos(size)] = id]
        /\ buf \in [Slots(cap) -> Ids \cup {None}]
    BY <1>6 DEF PushFits, Inv, TypeOK, Slots
  <2>2. Content' = [i \in 1..(size + 1) |-> buf'[Pos(i - 1)]]
    BY <2>1 DEF Content, Pos
  <2>3. /\ \A i \in Slots(cap) : Pos(i) \in Slots(cap)
        /\ \A i, j \in Slots(cap) : Pos(i) = Pos(j) => i = j
        /\ Slots(size) \subseteq Slots(cap)
    BY PosFacts DEF Inv
  <2>4. buf'[Pos(size)] = id
    BY <2>1, <2>3
  <2>5. \A i \in 1..size : buf'[Pos(i - 1)] = Content[i]
    <3> SUFFICES ASSUME NEW i \in 1..size PROVE buf'[Pos(i - 1)] = Content[i]
      OBVIOUS
    <3>1. i - 1 \in Slots(cap) /\ i - 1 # size
      BY <1>1, <1>3, <2>3 DEF Slots
    <3> QED
      BY <3>1, <1>3, <2>1, <2>3
  <2>6. \A i \in 1..(size + 1) :
           buf'[Pos(i - 1)] = IF i = size + 1 THEN id ELSE Content[i]
    <3> SUFFICES ASSUME NEW i \in 1..(size + 1)
                 PROVE  buf'[Pos(i - 1)] = IF i = size + 1 THEN id ELSE Content[i]
      OBVIOUS
    <3>1. CASE i = size + 1
      <4>1. i - 1 = size
        BY <3>1, <1>1
      <4> QED
        BY <3>1, <4>1, <2>4
    <3>2. CASE i # size + 1
      <4>1. i \in 1..size
        BY <3>2, <1>1
      <4> QED
        BY <3>2, <4>1, <2>5
    <3> QED
      BY <3>1, <3>2
  <2>7. Content' = Append(Content, id)
    BY <2>2, <2>6, <1>4
  <2> QED
    BY <2>7, <1>2 DEF Queue!PushBack
<1> QED
  BY <1>5, <1>6

(* PopFront takes the oldest id.                                           *)
LEMMA RefinePop ==
    ASSUME Inv, PopFront
    PROVE  Queue!PopFront
<1>1. /\ Content \in Seq(Ids) /\ Len(Content) = size /\ size \in Nat /\ size > 0
      /\ cap \in Nat \ {0} /\ head \in Slots(cap) /\ size <= cap
      /\ buf \in [Slots(cap) -> Ids \cup {None}]
      /\ cap' = cap /\ size' = size - 1
      /\ buf' = [buf EXCEPT ![head] = None]
      /\ head' = IF size = 1 THEN 0 ELSE (head + 1) % cap
      /\ ret' = <<buf[head]>>
  BY ContentType DEF Inv, TypeOK, PopFront
<1>2. /\ \A i \in Slots(cap) : Pos(i) \in Slots(cap)
      /\ \A i, j \in Slots(cap) : Pos(i) = Pos(j) => i = j
      /\ Slots(size) \subseteq Slots(cap) /\ Pos(0) = head
  BY PosFacts DEF Inv
<1>3. \A i \in 1..size : Content[i] = buf[Pos(i - 1)] /\ i - 1 \in Slots(size)
  BY <1>1 DEF Content, Slots
<1>4. Content # <<>> /\ Content[1] = buf[head]
  BY <1>1, <1>2, <1>3
<1>5. Tail(Content) = [i \in 1..(size - 1) |-> Content[i + 1]]
  BY <1>1, <1>4, TailFun
<1>6. Content' = [i \in 1..(size - 1) |-> buf'[(head' + (i - 1)) % cap]]
  BY <1>1 DEF Content, Pos
<1>7. ASSUME NEW i \in 1..(size - 1) PROVE buf'[(head' + (i - 1)) % cap] = Content[i + 1]
  <2>1. /\ size > 1 /\ i - 1 \in Slots(cap) /\ i \in Slots(cap) /\ 1 \in Slots(cap)
        /\ i + 1 \in 1..size /\ (i + 1) - 1 = i /\ i # 0 /\ 0 \in Slots(cap)
    BY <1>1 DEF Slots
  <2>2. head' = (head + 1) % cap
    BY <1>1, <2>1
  <2>3. head' = (IF head + 1 < cap THEN head + 1 ELSE head + 1 - cap) /\ head' \in Slots(cap)
    <3>1. (head + 1) % cap = IF head + 1 < cap THEN head + 1 ELSE head + 1 - cap
      BY <1>1, <2>1, Wrap
    <3>2. (head + 1) % cap \in Slots(cap)
      BY <1>1, <2>1, PosBijective
    <3> QED
      BY <2>2, <3>1, <3>2
  <2> DEFINE a == (head' + (i - 1)) % cap
             b == (head + i) % cap
  <2>4. /\ a = IF head' + (i - 1) < cap THEN head' + (i - 1) ELSE head' + (i - 1) - cap
        /\ b = IF head + i < cap THEN head + i ELSE head + i - cap
    BY <1>1, <2>1, <2>3, Wrap
  <2>5. i \in Nat /\ i < cap /\ head \in Nat /\ head < cap /\ cap \in Nat
    BY <1>1, <2>1 DEF Slots
  <2> HIDE DEF a, b
  <2>6. a = b
    <3>1. CASE head + 1 < cap
      BY <3>1, <2>3, <2>4, <2>5
    <3>2. CASE head + 1 >= cap
      BY <3>2, <2>3, <2>4, <2>5
    <3> QED
      BY <3>1, <3>2, <2>5
  <2>7. b = Pos(i) /\ Pos(i) \in Slots(cap) /\ Pos(i) # head
    BY <1>2, <2>1 DEF b, Pos
  <2>8. buf'[a] = buf[Pos(i)]
    BY <2>6, <2>7, <1>1
  <2>9. Content[i + 1] = buf[Pos(i)]
    BY <2>1, <1>3
  <2> QED
    BY <2>8, <2>9 DEF a
<1>8. Content' = Tail(Content)
  BY <1>5, <1>6, <1>7
<1> QED
  BY <1>1, <1>4, <1>8 DEF Queue!PopFront

(* Remove takes out one id and keeps the order of the others.              *)
LEMMA RefineRemove ==
    ASSUME Inv, NEW id \in Ids, Remove(id)
    PROVE  Queue!Remove(id)
<1>1. PICK k \in Slots(size) : buf[Pos(k)] = id
  BY DEF Remove
<1>2. Content \in Seq(Ids) /\ Len(Content) = size /\ size \in Nat /\ cap \in Nat \ {0}
  BY ContentType DEF Inv, TypeOK
<1>3. k + 1 \in DOMAIN Content /\ Content[k + 1] = id
  <2>1. k + 1 \in 1..size /\ (k + 1) - 1 = k
    BY <1>2 DEF Slots
  <2> QED
    BY <2>1, <1>1, <1>2 DEF Content
<1>4. Content' = [i \in 1..(size - 1) |-> Rest(k)[i - 1]]
  BY <1>1, <1>2, RemoveRebuilds, RebuiltContent
<1>5. ASSUME NEW i \in 1..(size - 1)
      PROVE  Rest(k)[i - 1] = IF i < k + 1 THEN Content[i] ELSE Content[i + 1]
  <2>1. /\ i - 1 \in Slots(size - 1) /\ i \in 1..size /\ i + 1 \in 1..size
        /\ (i - 1) + 1 = (i + 1) - 1 /\ (i - 1 < k <=> i < k + 1)
    BY <1>2 DEF Slots
  <2>2. Rest(k)[i - 1] = buf[Pos(IF i - 1 < k THEN i - 1 ELSE (i - 1) + 1)]
    BY <2>1 DEF Rest
  <2>3. Content[i] = buf[Pos(i - 1)] /\ Content[i + 1] = buf[Pos((i + 1) - 1)]
    BY <2>1 DEF Content
  <2> QED
    BY <2>1, <2>2, <2>3
<1>6. Content' = Queue!Without(Content, k + 1)
  BY <1>2, <1>4, <1>5 DEF Queue!Without
<1>7. ret' = <<id>>
  BY DEF Remove
<1> QED
  BY <1>3, <1>6, <1>7 DEF Queue!Remove

(* Every operation of the ring is the operation of the queue.              *)
LEMMA RefineNext == Inv /\ [Next]_vars => [Queue!Next]_<<Content, ret>>
<1> SUFFICES ASSUME Inv, [Next]_vars PROVE [Queue!Next]_<<Content, ret>>
  OBVIOUS
<1>1. ASSUME UNCHANGED <<cap, buf, head, size, index>> PROVE Content' = Content
  BY <1>1 DEF Content, Pos
<1>2. ASSUME NEW id \in Ids, PushGrow(id) \/ PushFits(id) PROVE Queue!Next
  BY <1>2, RefinePush DEF Queue!Next
<1>3. ASSUME NEW id \in Ids, PushAgain(id) PROVE Queue!Next
  <2>1. Content' = Content /\ ret' = <<>> /\ id \in Queue!Members(Content)
    BY <1>1, <1>3, MembersContent DEF PushAgain, Contains
  <2> QED
    BY <2>1 DEF Queue!Next, Queue!PushBack
<1>4. ASSUME NEW id \in Ids, Remove(id) PROVE Queue!Next
  BY <1>4, RefineRemove DEF Queue!Next
<1>5. ASSUME NEW id \in Ids, RemoveNothing(id) PROVE Queue!Next
  <2>1. Content' = Content /\ ret' = <<>> /\ id \notin Queue!Members(Content)
    BY <1>1, <1>5, MembersContent DEF RemoveNothing, Contains
  <2> QED
    BY <2>1 DEF Queue!Next, Queue!Remove
<1>6. CASE PopFront
  BY <1>6, RefinePop DEF Queue!Next
<1>7. CASE PopEmpty
  <2>1. Content' = Content /\ ret' = <<>> /\ size = 0
    BY <1>1, <1>7 DEF PopEmpty
  <2>2. Content = <<>>
    BY <2>1, ContentType
  <2> QED
    BY <2>1, <2>2 DEF Queue!Next, Queue!PopFront
<1>8. CASE Values
  BY <1>1, <1>8 DEF Values, Queue!Next, Queue!Values
<1>9. CASE Reset
  <2>1. size' = 0 /\ ret' = <<>> /\ Inv'
    BY <1>9, InvReset DEF Reset
  <2>2. Content' = <<>>
    BY <2>1 DEF Content
  <2> QED
    BY <2>1, <2>2 DEF Queue!Next, Queue!Reset
<1>10. CASE UNCHANGED vars
  BY <1>1, <1>10 DEF vars
<1> QED
  BY <1>2, <1>3, <1>4, <1>5, <1>6, <1>7, <1>8, <1>9, <1>10 DEF Next

(* The ring buffer of memory/type_/util.go implements a queue of ids       *)
(* without repetition: wrapping, growing and rebuilding do not show.       *)
THEOREM RingImplementsQueue == Spec => Implements
<1>1. Init => Queue!Init
  <2> SUFFICES ASSUME Init PROVE Queue!Init
    OBVIOUS
  <2>1. Content = <<>>
    BY DEF Init, Content
  <2> QED
    BY <2>1 DEF Init, Queue!Init
<1> QED
  BY <1>1, InvInit, InvNext, RefineNext, PTL DEF Spec, Implements, Queue!Spec

-----------------------------------------------------------------------------
(* Long-term memory: the inductive invariant.                              *)

Items == [type : {"episodic", "semantic"}, user : Users \cup {NoUser}, content : Contents]
Ops == {"idle", "add", "update", "delete", "delete2", "clear", "clear2", "summarize"}
Operations ==
    [op : Ops, todo : Seq(Items), ids : SUBSET Contents, fresh : SUBSET Contents,
     err1 : {"ok", "err"}]

(* What an operation has to do and has done while s is in the semantic     *)
(* memory: after a removal there that succeeded, what it works on is not   *)
(* there unless somebody has added it again.                               *)
OperationGood(r, s) ==
    /\ r \in Operations
    /\ r.op \in {"add", "update"} => r.todo # <<>>
    /\ r.op \in {"delete", "delete2"} => \E i \in Contents : r.ids = {i}
    /\ r.fresh \subseteq r.ids
    /\ r.op \in {"delete2", "clear2"} /\ r.err1 = "ok" => r.fresh \cap s = {}
    /\ r.op = "clear2" => r.err1 = "ok"

OperationsGood ==
    /\ call = [k \in Clients |-> call[k]]
    /\ \A k \in Clients : OperationGood(call[k], sem)

IsMap(f) == /\ DOMAIN f \subseteq Contents
            /\ f = [i \in DOMAIN f |-> f[i]]

MapsGood == /\ memories = [u \in Users |-> memories[u]]
            /\ \A u \in Users : IsMap(memories[u])

LongTermInv == OperationsGood /\ MapsGood /\ GoneStaysGone

(* What a step that adds the ids in A does to the ghosts.                  *)
GhostsLess(A) == gone' = gone \ A /\ hidden' = hidden \ A

-----------------------------------------------------------------------------
(* What the steps do to the store, one disjunct per answer of it.          *)
SetAnswer(k, a) == answer' = [answer EXCEPT ![k] = a]

StoreEffect(k) ==
    \/ UNCHANGED memories /\ SetAnswer(k, "err")
    \/ \E u \in Users, m \in Contents :
          /\ ~Full(u)
          /\ memories' = [memories EXCEPT ![u] = Put(@, m, m)]
          /\ SetAnswer(k, "added")
    \/ \E i, m \in Contents :
          /\ i \in Entries(Me)
          /\ memories' = [memories EXCEPT ![Me][i] = m]
          /\ SetAnswer(k, "updated")
    \/ \E i \in Contents :
          /\ memories' = [memories EXCEPT ![Me] = [j \in Entries(Me) \ {i} |-> @[j]]]
          /\ SetAnswer(k, "removed")
    \/ /\ memories' = [memories EXCEPT ![Me] = <<>>]
       /\ SetAnswer(k, "removed")

(* The item at the head of a batch.                                        *)
LEMMA HeadItem ==
    ASSUME NEW r, NEW s, OperationGood(r, s), r.op \in {"add", "update"}
    PROVE  /\ Head(r.todo) \in Items /\ Tail(r.todo) \in Seq(Items)
           /\ Head(r.todo).user \in Users \cup {NoUser} /\ Head(r.todo).content \in Contents
<1>1. r.todo \in Seq(Items) /\ r.todo # <<>>
  BY DEF OperationGood, Operations
<1>2. Head(r.todo) \in Items /\ Tail(r.todo) \in Seq(Items)
  BY <1>1, HeadTailProperties
<1> QED
  BY <1>2 DEF Items

LEMMA EpisodicAddEffect ==
    ASSUME OperationsGood, NEW k \in Clients, EpisodicAdd(k) PROVE StoreEffect(k)
<1> DEFINE it == Head(call[k].todo)
<1>1. it.user \in Users \cup {NoUser} /\ it.content \in Contents
  BY HeadItem DEF OperationsGood, EpisodicAdd
<1>2. PICK res \in {"ok", "err"} :
        StoreAdd(it.user, it.content, res) /\ Answered(k, "added", res)
  BY DEF EpisodicAdd
<1> HIDE DEF it
<1>3. CASE it.user = NoUser \/ Full(it.user)
  <2>1. res = "err" /\ UNCHANGED memories
    BY <1>2, <1>3 DEF StoreAdd, Refuse
  <2> QED
    BY <1>2, <2>1 DEF StoreEffect, Answered, SetAnswer
<1>4. CASE ~(it.user = NoUser \/ Full(it.user))
  <2>1. /\ res = "ok" /\ it.user \in Users /\ ~Full(it.user)
        /\ memories' = [memories EXCEPT ![it.user] = Put(@, it.content, it.content)]
    BY <1>1, <1>2, <1>4 DEF StoreAdd
  <2>2. SetAnswer(k, "added")
    BY <1>2, <2>1 DEF Answered, SetAnswer
  <2> QED
    BY <1>1, <2>1, <2>2, Zenon DEF StoreEffect
<1> QED
  BY <1>3, <1>4

LEMMA EpisodicUpdateEffect ==
    ASSUME OperationsGood, NEW k \in Clients, EpisodicUpdate(k)
    PROVE  StoreEffect(k) \/ UNCHANGED <<memories, answer>>
<1> DEFINE i == Head(call[k].todo).content
<1>1. i \in Contents
  BY HeadItem DEF OperationsGood, EpisodicUpdate
<1>2. CASE UNCHANGED <<memories, answer>>
  BY <1>2
<1>3. CASE \E res \in {"ok", "err"}, m \in Contents :
             StoreUpdate(Me, i, m, res) /\ Answered(k, "updated", res)
  <2>1. PICK res \in {"ok", "err"}, m \in Contents :
          StoreUpdate(Me, i, m, res) /\ Answered(k, "updated", res)
    BY <1>3
  <2> HIDE DEF i
  <2>2. CASE i \notin Entries(Me)
    <3>1. res = "err" /\ UNCHANGED memories
      BY <2>1, <2>2 DEF StoreUpdate, Refuse
    <3> QED
      BY <2>1, <3>1 DEF StoreEffect, Answered, SetAnswer
  <2>3. CASE i \in Entries(Me)
    <3>1. res = "ok" /\ memories' = [memories EXCEPT ![Me][i] = m]
      BY <2>1, <2>3 DEF StoreUpdate
    <3>2. SetAnswer(k, "updated")
      BY <2>1, <3>1 DEF Answered, SetAnswer
    <3> QED
      BY <1>1, <2>1, <2>3, <3>1, <3>2, Zenon DEF StoreEffect
  <2> QED
    BY <2>2, <2>3
<1> QED
  BY <1>2, <1>3 DEF EpisodicUpdate

LEMMA EpisodicDeleteEffect ==
    ASSUME OperationsGood, NEW k \in Clients, EpisodicDelete(k) PROVE StoreEffect(k)
<1>1. PICK res \in {"ok", "err"}, i \in call[k].ids :
        StoreDelete(Me, i, res) /\ Answered(k, "removed", res)
  BY DEF EpisodicDelete
<1>2. i \in Contents
  BY <1>1 DEF OperationsGood, OperationGood, Operations
<1>3. CASE i \notin Entries(Me)
  <2>1. res = "err" /\ UNCHANGED memories
    BY <1>1, <1>3 DEF StoreDelete, Refuse
  <2> QED
    BY <1>1, <2>1 DEF StoreEffect, Answered, SetAnswer
<1>4. CASE i \in Entries(Me)
  <2>1. /\ res = "ok"
        /\ memories' = [memories EXCEPT ![Me] = [j \in Entries(Me) \ {i} |-> @[j]]]
    BY <1>1, <1>4 DEF StoreDelete
  <2>2. SetAnswer(k, "removed")
    BY <1>1, <2>1 DEF Answered, SetAnswer
  <2> QED
    BY <1>2, <2>1, <2>2, Zenon DEF StoreEffect
<1> QED
  BY <1>3, <1>4

LEMMA EpisodicClearEffect ==
    ASSUME NEW k \in Clients, EpisodicClear(k) PROVE StoreEffect(k)
  BY DEF EpisodicClear, StoreClear, Answered, SetAnswer, StoreEffect

(* Nothing else touches the store.                                         *)
LEMMA StoreSteps ==
    ASSUME OperationsGood, [LongTermNext]_longTermVars
    PROVE  UNCHANGED <<memories, answer>> \/ \E k \in Clients : StoreEffect(k)
<1>1. CASE UNCHANGED longTermVars
  BY <1>1 DEF longTermVars
<1>2. ASSUME NEW k \in Clients,
             \/ \E b \in Batches : Add(k, b) \/ Update(k, b)
             \/ \E i \in Contents : Delete(k, i)
             \/ Clear(k) \/ AddMessage(k) \/ Promote(k) \/ Summarize(k)
             \/ SemanticItem(k) \/ SemanticRemove(k)
      PROVE  UNCHANGED <<memories, answer>>
  BY <1>2 DEF Add, Update, Delete, Clear, AddMessage, Promote, Summarize, SemanticItem,
              SemanticRemove
<1>3. ASSUME NEW k \in Clients, EpisodicAdd(k) PROVE StoreEffect(k)
  BY <1>3, EpisodicAddEffect
<1>4. ASSUME NEW k \in Clients, EpisodicUpdate(k)
      PROVE  StoreEffect(k) \/ UNCHANGED <<memories, answer>>
  BY <1>4, EpisodicUpdateEffect
<1>5. ASSUME NEW k \in Clients, EpisodicDelete(k) PROVE StoreEffect(k)
  BY <1>5, EpisodicDeleteEffect
<1>6. ASSUME NEW k \in Clients, EpisodicClear(k) PROVE StoreEffect(k)
  BY <1>6, EpisodicClearEffect
<1> QED
  BY <1>1, <1>2, <1>3, <1>4, <1>5, <1>6 DEF LongTermNext

-----------------------------------------------------------------------------
(* The maps of the store.                                                  *)

(* The empty map.                                                          *)
LEMMA NoEntries == /\ DOMAIN <<>> = {} /\ IsMap(<<>>)
                   /\ \A f : <<>> = [i \in {} |-> f[i]]
<1>1. DOMAIN <<>> = {}
  OBVIOUS
<1>2. \A f : <<>> = [i \in {} |-> f[i]]
  OBVIOUS
<1> QED
  BY <1>1, <1>2 DEF IsMap

(* The map of one user is replaced.                                        *)
LEMMA MapReplaced ==
    ASSUME MapsGood, NEW u \in Users, NEW g, IsMap(g), memories' = [memories EXCEPT ![u] = g]
    PROVE  /\ MapsGood' /\ memories'[u] = g
           /\ \A v \in Users : v # u => memories'[v] = memories[v]
<1>1. memories' = [v \in Users |-> IF v = u THEN g ELSE memories[v]]
  BY DEF MapsGood
<1>2. /\ memories' = [v \in Users |-> memories'[v]]
      /\ memories'[u] = g /\ \A v \in Users : v # u => memories'[v] = memories[v]
  BY <1>1
<1> QED
  BY <1>2 DEF MapsGood

LEMMA PutMap ==
    ASSUME NEW f, IsMap(f), NEW m \in Contents
    PROVE  /\ IsMap(Put(f, m, m)) /\ DOMAIN Put(f, m, m) = DOMAIN f \cup {m}
           /\ Put(f, m, m)[m] = m
           /\ \A i \in DOMAIN f : Put(f, m, m)[i] \in {f[i], i}
  BY DEF IsMap, Put

LEMMA UpdatedMap ==
    ASSUME NEW f, IsMap(f), NEW i \in DOMAIN f, NEW m
    PROVE  IsMap([f EXCEPT ![i] = m]) /\ DOMAIN [f EXCEPT ![i] = m] = DOMAIN f
  BY DEF IsMap

LEMMA RemovedMap ==
    ASSUME NEW f, IsMap(f), NEW i
    PROVE  /\ IsMap([j \in DOMAIN f \ {i} |-> f[j]])
           /\ DOMAIN [j \in DOMAIN f \ {i} |-> f[j]] = DOMAIN f \ {i}
  BY DEF IsMap

(* What a change of the store does to the maps: entries of other users     *)
(* stay, and ids appear only where an item was added.                      *)
MapsStep(added) ==
    /\ MapsGood'
    /\ Entries(Me)' \subseteq Entries(Me) \cup added
    /\ \A u \in Users \ {Me} : \A i \in Entries(u) :
          i \in DOMAIN memories'[u] /\ memories'[u][i] \in {memories[u][i], i}

LEMMA MapsUnchanged ==
    ASSUME MapsGood, UNCHANGED memories, NEW added PROVE MapsStep(added)
  BY DEF MapsGood, MapsStep, Entries

LEMMA MapsAdd ==
    ASSUME MapsGood, NEW u \in Users, NEW m \in Contents,
           memories' = [memories EXCEPT ![u] = Put(@, m, m)]
    PROVE  MapsStep(IF u = Me THEN {m} ELSE {})
<1> DEFINE g == Put(memories[u], m, m)
<1>0. Me \in Users
  BY LongTermAssumption
<1>1. IsMap(memories[u])
  BY DEF MapsGood
<1>2. /\ IsMap(g) /\ DOMAIN g = DOMAIN memories[u] \cup {m}
      /\ \A i \in DOMAIN memories[u] : g[i] \in {memories[u][i], i}
  BY <1>1, PutMap
<1>3. memories' = [memories EXCEPT ![u] = g]
  OBVIOUS
<1> HIDE DEF g
<1>4. /\ MapsGood' /\ memories'[u] = g
      /\ \A v \in Users : v # u => memories'[v] = memories[v]
  BY <1>2, <1>3, MapReplaced
<1>5. Entries(Me)' \subseteq Entries(Me) \cup (IF u = Me THEN {m} ELSE {})
  BY <1>0, <1>2, <1>4 DEF Entries
<1>6. ASSUME NEW v \in Users \ {Me}, NEW i \in Entries(v)
      PROVE  i \in DOMAIN memories'[v] /\ memories'[v][i] \in {memories[v][i], i}
  BY <1>2, <1>4 DEF Entries
<1> QED
  BY <1>4, <1>5, <1>6 DEF MapsStep

(* The map of the memory's own user loses entries or changes their         *)
(* contents.                                                               *)
LEMMA MapsMine ==
    ASSUME MapsGood, NEW g, IsMap(g), DOMAIN g \subseteq Entries(Me),
           memories' = [memories EXCEPT ![Me] = g], NEW added
    PROVE  MapsStep(added) /\ Entries(Me)' = DOMAIN g
<1>0. Me \in Users
  BY LongTermAssumption
<1>1. /\ MapsGood' /\ memories'[Me] = g
      /\ \A v \in Users : v # Me => memories'[v] = memories[v]
  BY <1>0, MapReplaced
<1> QED
  BY <1>0, <1>1 DEF MapsStep, Entries

-----------------------------------------------------------------------------
(* The operations in progress.                                             *)

LEMMA IdleGood == ASSUME NEW s PROVE OperationGood(NoCall, s)
<1>1. <<>> \in Seq(Items)
  OBVIOUS
<1>2. NoCall \in Operations
  BY <1>1 DEF NoCall, Operation, Operations, Ops
<1> QED
  BY <1>2 DEF NoCall, Operation, OperationGood

(* An operation that begins.                                               *)
LEMMA BegunGood ==
    ASSUME NEW s, NEW op \in {"add", "update", "delete", "clear", "summarize"},
           NEW todo \in Seq(Items), NEW ids \in SUBSET Contents,
           op \in {"add", "update"} => todo # <<>>,
           op = "delete" => \E i \in Contents : ids = {i}
    PROVE  OperationGood(Operation(op, todo, ids), s)
<1> DEFINE r == Operation(op, todo, ids)
<1>1. r \in Operations
  BY DEF Operation, Operations, Ops
<1>2. r.op = op /\ r.todo = todo /\ r.ids = ids /\ r.fresh = ids
  BY DEF Operation
<1> HIDE DEF r
<1>3. OperationGood(r, s)
  BY <1>1, <1>2 DEF OperationGood
<1> QED
  BY <1>3 DEF r

(* What somebody else adds is no longer fresh.                             *)
LEMMA FreshLess ==
    ASSUME NEW r, NEW s, OperationGood(r, s), NEW A, NEW s2, s2 \subseteq s \cup A
    PROVE  LET q == [r EXCEPT !.fresh = @ \ A] IN
           OperationGood(q, s2) /\ q.op = r.op /\ q.todo = r.todo
<1> DEFINE q == [r EXCEPT !.fresh = @ \ A]
<1>1. r \in Operations
  BY DEF OperationGood
<1>2. /\ q \in Operations /\ q.op = r.op /\ q.todo = r.todo /\ q.ids = r.ids
      /\ q.err1 = r.err1 /\ q.fresh = r.fresh \ A
  BY <1>1 DEF Operations
<1> HIDE DEF q
<1>3. OperationGood(q, s2)
  BY <1>2 DEF OperationGood
<1> QED
  BY <1>2, <1>3 DEF q

(* Less in the semantic memory.                                            *)
LEMMA LessGood ==
    ASSUME NEW r, NEW s, OperationGood(r, s), NEW s2, s2 \subseteq s
    PROVE  OperationGood(r, s2)
  BY DEF OperationGood

(* The operation of one client changes.                                    *)
LEMMA OneOperation ==
    ASSUME OperationsGood, NEW k \in Clients, NEW r, OperationGood(r, sem'),
           sem' \subseteq sem, call' = [call EXCEPT ![k] = r]
    PROVE  OperationsGood'
<1>1. call' = [l \in Clients |-> IF l = k THEN r ELSE call[l]]
  BY DEF OperationsGood
<1>2. \A l \in Clients : OperationGood(call[l], sem')
  BY LessGood DEF OperationsGood
<1>3. call' = [l \in Clients |-> call'[l]] /\ \A l \in Clients : OperationGood(call'[l], sem')
  BY <1>1, <1>2
<1> QED
  BY <1>3 DEF OperationsGood

LEMMA ReturnGood ==
    ASSUME OperationsGood, NEW k \in Clients, NEW res, Return(k, res), sem' \subseteq sem
    PROVE  OperationsGood'
  BY IdleGood, OneOperation DEF Return

LEMMA BeginGood ==
    ASSUME OperationsGood, NEW k \in Clients,
           NEW op \in {"add", "update", "delete", "clear", "summarize"},
           NEW todo \in Seq(Items), NEW ids \in SUBSET Contents,
           op \in {"add", "update"} => todo # <<>>,
           op = "delete" => \E i \in Contents : ids = {i},
           Begin(k, op, todo, ids), sem' = sem
    PROVE  OperationsGood' /\ UNCHANGED <<gone, hidden>>
<1> DEFINE r == Operation(op, todo, ids)
<1>1. OperationGood(r, sem')
  BY BegunGood, Zenon
<1>2. call' = [call EXCEPT ![k] = r] /\ UNCHANGED <<gone, hidden>>
  BY DEF Begin
<1> HIDE DEF r
<1> QED
  BY <1>1, <1>2, OneOperation

LEMMA BeginItemsGood ==
    ASSUME OperationsGood, NEW k \in Clients, NEW op \in {"add", "update"},
           NEW b \in Batches, BeginItems(k, op, b), sem' = sem
    PROVE  OperationsGood' /\ UNCHANGED <<gone, hidden>>
<1>1. b \in Seq(Items)
  BY LongTermAssumption DEF Items
<1>2. CASE b # <<>> /\ Begin(k, op, b, {})
  BY <1>1, <1>2, BeginGood
<1>3. CASE Return(k, "ok") /\ UNCHANGED <<gone, hidden>>
  BY <1>3, ReturnGood
<1> QED
  BY <1>2, <1>3 DEF BeginItems

LEMMA NextItemGood ==
    ASSUME OperationsGood, NEW k \in Clients, call[k].op \in {"add", "update"},
           NEW res, NEW added, NextItem(k, res, added), sem' \subseteq sem \cup added
    PROVE  OperationsGood' /\ GhostsLess(added)
<1> DEFINE seen == [l \in Clients |-> [call[l] EXCEPT !.fresh = @ \ added]]
           rest == Tail(call[k].todo)
           q == seen[k]
           more == [q EXCEPT !.todo = rest]
<1>1. \A l \in Clients :
         /\ OperationGood(seen[l], sem')
         /\ seen[l].op = call[l].op /\ seen[l].todo = call[l].todo
  BY FreshLess DEF OperationsGood
<1>2. rest \in Seq(Items)
  BY HeadItem DEF OperationsGood
<1>3. \/ rest # <<>> /\ call' = [seen EXCEPT ![k] = more]
      \/ call' = [seen EXCEPT ![k] = NoCall]
  BY DEF NextItem
<1>4. rest # <<>> => OperationGood(more, sem')
  <2>1. OperationGood(q, sem') /\ q.op \in {"add", "update"}
    BY <1>1
  <2> HIDE DEF q, rest
  <2>2. q \in Operations
    BY <2>1 DEF OperationGood
  <2>3. /\ more \in Operations /\ more.op = q.op /\ more.todo = rest /\ more.ids = q.ids
        /\ more.err1 = q.err1 /\ more.fresh = q.fresh
    BY <1>2, <2>2 DEF Operations
  <2> HIDE DEF more
  <2> QED
    BY <2>1, <2>3 DEF OperationGood
<1>5. seen = [l \in Clients |-> seen[l]]
  OBVIOUS
<1> HIDE DEF seen, more, rest, q
<1>6. OperationGood(NoCall, sem')
  BY IdleGood
<1>7. ASSUME NEW r, OperationGood(r, sem'), call' = [seen EXCEPT ![k] = r]
      PROVE  OperationsGood'
  <2>1. call' = [l \in Clients |-> IF l = k THEN r ELSE seen[l]]
    BY <1>5, <1>7
  <2>2. /\ call' = [l \in Clients |-> call'[l]]
        /\ \A l \in Clients : OperationGood(call'[l], sem')
    BY <1>1, <1>7, <2>1
  <2> QED
    BY <2>2 DEF OperationsGood
<1>8. GhostsLess(added)
  BY DEF NextItem, GhostsLess
<1> QED
  BY <1>3, <1>4, <1>6, <1>7, <1>8

-----------------------------------------------------------------------------
(* One lemma per group of actions.                                         *)

(* A step that adds at most A keeps the invariant.                         *)
LEMMA Adds ==
    ASSUME GoneStaysGone, NEW A, OperationsGood', GhostsLess(A),
           sem' \subseteq sem \cup A, MapsStep(A)
    PROVE  LongTermInv'
<1>1. MapsGood' /\ Entries(Me)' \subseteq Entries(Me) \cup A
  BY DEF MapsStep
<1>2. GoneStaysGone'
  BY <1>1 DEF GoneStaysGone, GhostsLess
<1> QED
  BY <1>1, <1>2 DEF LongTermInv

(* A step that leaves the store alone.                                     *)
LEMMA StoreUnchanged ==
    ASSUME LongTermInv, NEW A, OperationsGood', GhostsLess(A), sem' \subseteq sem \cup A,
           UNCHANGED memories
    PROVE  LongTermInv' /\ MapsStep(A)
<1>1. MapsStep(A)
  BY MapsUnchanged DEF LongTermInv
<1> QED
  BY <1>1, Adds DEF LongTermInv

LEMMA BeginSteps ==
    ASSUME LongTermInv, NEW k \in Clients,
           \/ \E b \in Batches : Add(k, b) \/ Update(k, b)
           \/ \E i \in Contents : Delete(k, i)
           \/ Clear(k) \/ AddMessage(k) \/ Promote(k)
    PROVE  LongTermInv' /\ MapsStep({})
<1>0. OperationsGood /\ <<>> \in Seq(Items)
  BY DEF LongTermInv
<1>1. OperationsGood' /\ UNCHANGED <<gone, hidden>> /\ sem' = sem /\ UNCHANGED memories
  <2>1. ASSUME NEW b \in Batches, Add(k, b)
        PROVE  OperationsGood' /\ UNCHANGED <<gone, hidden>> /\ sem' = sem /\ UNCHANGED memories
    BY <1>0, <2>1, BeginItemsGood DEF Add
  <2>2. ASSUME NEW b \in Batches, Update(k, b)
        PROVE  OperationsGood' /\ UNCHANGED <<gone, hidden>> /\ sem' = sem /\ UNCHANGED memories
    BY <1>0, <2>2, BeginItemsGood DEF Update
  <2>3. ASSUME NEW i \in Contents, Delete(k, i)
        PROVE  OperationsGood' /\ UNCHANGED <<gone, hidden>> /\ sem' = sem /\ UNCHANGED memories
    <3>1. Begin(k, "delete", <<>>, {i}) /\ sem' = sem /\ UNCHANGED memories
      BY <2>3 DEF Delete
    <3>2. {i} \in SUBSET Contents
      OBVIOUS
    <3> QED
      BY <1>0, <3>1, <3>2, BeginGood, Zenon
  <2>4. CASE Clear(k)
    <3>1. Begin(k, "clear", <<>>, Contents) /\ sem' = sem /\ UNCHANGED memories
      BY <2>4 DEF Clear
    <3> QED
      BY <1>0, <3>1, BeginGood
  <2>5. CASE AddMessage(k)
    BY <1>0, <2>5 DEF AddMessage, OperationsGood
  <2>6. CASE Promote(k)
    <3>1. sem' = sem /\ UNCHANGED memories
      BY <2>6 DEF Promote
    <3>2. CASE Begin(k, "summarize", <<>>, {})
      <4>1. {} \in SUBSET Contents
        OBVIOUS
      <4> QED
        BY <1>0, <3>1, <3>2, <4>1, BeginGood, Zenon
    <3>3. ASSUME NEW res, Return(k, res), UNCHANGED <<gone, hidden>>
          PROVE  OperationsGood' /\ UNCHANGED <<gone, hidden>>
      BY <1>0, <3>1, <3>3, ReturnGood
    <3> QED
      BY <2>6, <3>1, <3>2, <3>3 DEF Promote
  <2> QED
    BY <2>1, <2>2, <2>3, <2>4, <2>5, <2>6
<1> QED
  BY <1>1, StoreUnchanged DEF GhostsLess

LEMMA SummarizeStep ==
    ASSUME LongTermInv, NEW k \in Clients, Summarize(k)
    PROVE  LongTermInv' /\ MapsStep({})
<1>0. OperationsGood /\ UNCHANGED <<gone, hidden>> /\ sem' = sem /\ UNCHANGED memories
  BY DEF LongTermInv, Summarize
<1>1. ASSUME NEW res, Return(k, res) PROVE OperationsGood'
  BY <1>0, <1>1, ReturnGood
<1>2. ASSUME NEW m \in Contents,
             call' = [call EXCEPT ![k] = Operation("add",
                   <<[type |-> "semantic", user |-> NoUser, content |-> m]>>, {})]
      PROVE  OperationsGood'
  <2> DEFINE todo == <<[type |-> "semantic", user |-> NoUser, content |-> m]>>
             r == Operation("add", todo, {})
  <2>1. todo \in Seq(Items) /\ todo # <<>>
    BY DEF Items
  <2>2. call' = [call EXCEPT ![k] = r]
    BY <1>2
  <2> HIDE DEF todo
  <2>3. OperationGood(r, sem')
    <3>1. {} \in SUBSET Contents
      OBVIOUS
    <3> QED
      BY <2>1, <3>1, BegunGood, Zenon
  <2> HIDE DEF r
  <2> QED
    BY <1>0, <2>2, <2>3, OneOperation
<1>3. OperationsGood'
  BY <1>1, <1>2 DEF Summarize
<1> QED
  BY <1>0, <1>3, StoreUnchanged DEF GhostsLess

LEMMA SemanticItemStep ==
    ASSUME LongTermInv, NEW k \in Clients, SemanticItem(k)
    PROVE  LongTermInv' /\ \E A : MapsStep(A)
<1>0. OperationsGood /\ UNCHANGED memories /\ call[k].op \in {"add", "update"}
  BY DEF LongTermInv, SemanticItem
<1>1. PICK res, A : sem' \subseteq sem \cup A /\ NextItem(k, res, A)
  BY DEF SemanticItem
<1>2. OperationsGood' /\ GhostsLess(A)
  BY <1>0, <1>1, NextItemGood
<1> QED
  BY <1>0, <1>1, <1>2, StoreUnchanged

LEMMA SemanticRemoveStep ==
    ASSUME LongTermInv, NEW k \in Clients, SemanticRemove(k)
    PROVE  LongTermInv' /\ MapsStep({})
<1>0. /\ OperationsGood /\ UNCHANGED <<gone, hidden>> /\ UNCHANGED memories
      /\ call[k].op \in {"delete", "clear"} /\ OperationGood(call[k], sem)
  BY DEF LongTermInv, OperationsGood, SemanticRemove
<1>1. PICK res \in {"ok", "err"} :
        /\ \/ sem' = sem \ call[k].ids
           \/ res = "err" /\ UNCHANGED sem
        /\ IF res = "err" /\ call[k].op = "clear"
           THEN Return(k, "err")
           ELSE /\ call' = [call EXCEPT ![k] = [@ EXCEPT !.err1 = res,
                    !.op = IF call[k].op = "delete" THEN "delete2" ELSE "clear2"]]
                /\ UNCHANGED returned
  BY DEF SemanticRemove
<1>2. sem' \subseteq sem
  BY <1>1
<1>3. CASE Return(k, "err")
  BY <1>0, <1>2, <1>3, ReturnGood, StoreUnchanged DEF GhostsLess
<1>4. CASE /\ ~(res = "err" /\ call[k].op = "clear")
           /\ call' = [call EXCEPT ![k] = [@ EXCEPT !.err1 = res,
                    !.op = IF call[k].op = "delete" THEN "delete2" ELSE "clear2"]]
  <2>1. PICK r, q, op : /\ r = call[k]
                        /\ op = IF call[k].op = "delete" THEN "delete2" ELSE "clear2"
                        /\ q = [r EXCEPT !.err1 = res, !.op = op]
    OBVIOUS
  <2>2. call' = [call EXCEPT ![k] = q]
    BY <1>4, <2>1
  <2>3. r \in Operations /\ OperationGood(r, sem)
    BY <1>0, <2>1 DEF OperationGood
  <2>4. /\ op \in Ops
        /\ op = "delete2" => \E i \in Contents : r.ids = {i}
        /\ op \notin {"add", "update", "delete"}
        /\ op = "clear2" => res = "ok"
    BY <1>0, <1>4, <2>1, <2>3 DEF Ops, OperationGood
  <2>5. /\ q \in Operations /\ q.op = op /\ q.ids = r.ids /\ q.fresh = r.fresh
        /\ q.err1 = res
    BY <2>1, <2>3, <2>4 DEF Operations
  <2>6. q.fresh \subseteq q.ids
    BY <2>3, <2>5 DEF OperationGood
  <2>7. q.err1 = "ok" => q.fresh \cap sem' = {}
    BY <1>1, <2>1, <2>5, <2>6
  <2>9. OperationGood(q, sem')
    BY <2>4, <2>5, <2>6, <2>7 DEF OperationGood
  <2>10. OperationsGood'
    BY <1>0, <1>2, <2>2, <2>9, OneOperation
  <2> QED
    BY <1>0, <1>2, <2>10, StoreUnchanged DEF GhostsLess
<1> QED
  BY <1>1, <1>3, <1>4

LEMMA EpisodicAddStep ==
    ASSUME LongTermInv, NEW k \in Clients, EpisodicAdd(k)
    PROVE  LongTermInv' /\ \E A : MapsStep(A)
<1> DEFINE it == Head(call[k].todo)
<1>0. /\ OperationsGood /\ MapsGood /\ GoneStaysGone /\ sem' = sem
      /\ call[k].op \in {"add", "update"}
  BY DEF LongTermInv, EpisodicAdd
<1>1. it.user \in Users \cup {NoUser} /\ it.content \in Contents
  BY <1>0, HeadItem DEF OperationsGood
<1>2. PICK res \in {"ok", "err"} :
        /\ StoreAdd(it.user, it.content, res)
        /\ NextItem(k, res, IF res = "ok" /\ it.user = Me THEN {it.content} ELSE {})
  BY DEF EpisodicAdd
<1>3. PICK A : A = IF res = "ok" /\ it.user = Me THEN {it.content} ELSE {}
  OBVIOUS
<1> HIDE DEF it
<1>4. OperationsGood' /\ GhostsLess(A)
  BY <1>0, <1>2, <1>3, NextItemGood
<1>5. MapsStep(A)
  <2>1. CASE it.user = NoUser \/ Full(it.user)
    <3>1. UNCHANGED memories
      BY <1>2, <2>1 DEF StoreAdd, Refuse
    <3> QED
      BY <1>0, <3>1, MapsUnchanged
  <2>2. CASE ~(it.user = NoUser \/ Full(it.user))
    <3>1. /\ res = "ok" /\ it.user \in Users
          /\ memories' = [memories EXCEPT ![it.user] = Put(@, it.content, it.content)]
      BY <1>1, <1>2, <2>2 DEF StoreAdd
    <3>2. MapsStep(IF it.user = Me THEN {it.content} ELSE {})
      BY <1>0, <1>1, <3>1, MapsAdd
    <3> QED
      BY <1>3, <3>1, <3>2
  <2> QED
    BY <2>1, <2>2
<1> QED
  BY <1>0, <1>4, <1>5, Adds

LEMMA EpisodicUpdateStep ==
    ASSUME LongTermInv, NEW k \in Clients, EpisodicUpdate(k)
    PROVE  LongTermInv' /\ MapsStep({})
<1> DEFINE it == Head(call[k].todo)
<1>0. /\ OperationsGood /\ MapsGood /\ GoneStaysGone /\ sem' = sem
      /\ call[k].op \in {"add", "update"} /\ Me \in Users
  BY LongTermAssumption DEF LongTermInv, EpisodicUpdate
<1>1. PICK res : NextItem(k, res, {})
  BY DEF EpisodicUpdate
<1>2. OperationsGood' /\ GhostsLess({})
  BY <1>0, <1>1, NextItemGood
<1>3. MapsStep({})
  <2>1. CASE UNCHANGED memories
    BY <1>0, <2>1, MapsUnchanged
  <2>2. ASSUME NEW i, NEW m, i \in Entries(Me), memories' = [memories EXCEPT ![Me][i] = m]
        PROVE  MapsStep({})
    <3> DEFINE g == [memories[Me] EXCEPT ![i] = m]
    <3>1. IsMap(memories[Me])
      BY <1>0 DEF MapsGood
    <3>2. IsMap(g) /\ DOMAIN g = Entries(Me)
      BY <2>2, <3>1, UpdatedMap DEF Entries
    <3>3. memories' = [memories EXCEPT ![Me] = g]
      BY <2>2
    <3> HIDE DEF g
    <3> QED
      BY <1>0, <3>2, <3>3, MapsMine
  <2> QED
    BY <2>1, <2>2 DEF EpisodicUpdate, StoreUpdate, Refuse
<1> QED
  BY <1>0, <1>2, <1>3, Adds

(* A removal that returns nil.                                             *)
LEMMA Removes ==
    ASSUME LongTermInv, OperationsGood', NEW k \in Clients, Removed(k), sem' = sem,
           call[k].err1 = "ok" => call[k].fresh \cap sem = {},
           call[k].fresh \cap Entries(Me)' = {}, MapsStep({})
    PROVE  LongTermInv'
<1>1. MapsGood' /\ Entries(Me)' \subseteq Entries(Me)
  BY DEF MapsStep
<1>2. GoneStaysGone'
  BY <1>1 DEF Removed, GoneStaysGone, LongTermInv
<1> QED
  BY <1>1, <1>2 DEF LongTermInv

LEMMA EpisodicDeleteStep ==
    ASSUME LongTermInv, NEW k \in Clients, EpisodicDelete(k)
    PROVE  LongTermInv' /\ MapsStep({})
<1>0. /\ OperationsGood /\ MapsGood /\ GoneStaysGone /\ sem' = sem
      /\ call[k].op = "delete2" /\ OperationGood(call[k], sem) /\ Me \in Users
  BY LongTermAssumption DEF LongTermInv, OperationsGood, EpisodicDelete
<1>1. PICK res \in {"ok", "err"}, i \in call[k].ids :
        /\ StoreDelete(Me, i, res)
        /\ IF call[k].err1 = "err" /\ res = "err"
           THEN Return(k, "err") /\ UNCHANGED <<gone, hidden>>
           ELSE Removed(k)
  BY DEF EpisodicDelete
<1>2. OperationsGood'
  BY <1>0, <1>1, ReturnGood DEF Removed
<1>3. MapsStep({}) /\ i \notin Entries(Me)'
  <2>1. CASE i \notin Entries(Me)
    <3>1. UNCHANGED memories
      BY <1>1, <2>1 DEF StoreDelete, Refuse
    <3> QED
      BY <1>0, <2>1, <3>1, MapsUnchanged DEF Entries
  <2>2. CASE i \in Entries(Me)
    <3> DEFINE g == [j \in DOMAIN memories[Me] \ {i} |-> memories[Me][j]]
    <3>1. IsMap(memories[Me])
      BY <1>0 DEF MapsGood
    <3>2. IsMap(g) /\ DOMAIN g = Entries(Me) \ {i}
      BY <3>1, RemovedMap DEF Entries
    <3>3. memories' = [memories EXCEPT ![Me] = g]
      BY <1>1, <2>2 DEF StoreDelete, Entries
    <3> HIDE DEF g
    <3> QED
      BY <1>0, <3>2, <3>3, MapsMine
  <2> QED
    BY <2>1, <2>2
<1>4. call[k].fresh \subseteq {i} /\ (call[k].err1 = "ok" => call[k].fresh \cap sem = {})
  BY <1>0, <1>1 DEF OperationGood
<1>5. CASE UNCHANGED <<gone, hidden>>
  BY <1>0, <1>2, <1>3, <1>5, Adds DEF GhostsLess
<1>6. CASE Removed(k)
  BY <1>0, <1>2, <1>3, <1>4, <1>6, Removes
<1> QED
  BY <1>1, <1>5, <1>6

LEMMA EpisodicClearStep ==
    ASSUME LongTermInv, NEW k \in Clients, EpisodicClear(k)
    PROVE  LongTermInv' /\ MapsStep({})
<1>0. /\ OperationsGood /\ MapsGood /\ sem' = sem
      /\ call[k].op = "clear2" /\ OperationGood(call[k], sem)
  BY DEF LongTermInv, OperationsGood, EpisodicClear
<1>1. OperationsGood'
  BY <1>0, ReturnGood DEF EpisodicClear, Removed
<1>2. memories' = [memories EXCEPT ![Me] = <<>>]
  BY DEF EpisodicClear, StoreClear
<1>3. MapsStep({}) /\ Entries(Me)' = {}
  BY <1>0, <1>2, NoEntries, MapsMine
<1>4. Removed(k)
  BY DEF EpisodicClear
<1>5. call[k].fresh \cap sem = {}
  BY <1>0 DEF OperationGood
<1> QED
  BY <1>0, <1>1, <1>3, <1>4, <1>5, Removes

-----------------------------------------------------------------------------
(* The theorems.                                                           *)

LEMMA LongTermInitInv == LongTermInit => LongTermInv
<1> SUFFICES ASSUME LongTermInit PROVE LongTermInv
  OBVIOUS
<1>0. Me \in Users
  BY LongTermAssumption
<1>1. OperationsGood
  <2>1. call = [k \in Clients |-> NoCall]
    BY DEF LongTermInit
  <2> QED
    BY <2>1, IdleGood DEF OperationsGood
<1>2. MapsGood
  <2>1. memories = [u \in Users |-> <<>>]
    BY DEF LongTermInit, NewInMemoryStore
  <2> QED
    BY <2>1, NoEntries DEF MapsGood
<1>3. GoneStaysGone
  BY DEF LongTermInit, GoneStaysGone
<1> QED
  BY <1>1, <1>2, <1>3 DEF LongTermInv

(* What OthersOnlyGrow says of a step.                                     *)
OthersGrow ==
    \A u \in Users \ {Me} : \A i \in Entries(u) :
        i \in DOMAIN memories'[u] /\ memories'[u][i] \in {memories[u][i], i}

LEMMA LongTermStep ==
    ASSUME LongTermInv, [LongTermNext]_longTermVars
    PROVE  LongTermInv' /\ OthersGrow
<1>1. CASE UNCHANGED longTermVars
  <2>1. /\ OperationsGood' /\ GhostsLess({}) /\ sem' \subseteq sem \cup {}
        /\ UNCHANGED memories
    BY <1>1 DEF GhostsLess, longTermVars, LongTermInv, OperationsGood
  <2> QED
    BY <2>1, StoreUnchanged DEF MapsStep, OthersGrow
<1>2. ASSUME NEW k \in Clients,
             \/ \E b \in Batches : Add(k, b) \/ Update(k, b)
             \/ \E i \in Contents : Delete(k, i)
             \/ Clear(k) \/ AddMessage(k) \/ Promote(k)
      PROVE  LongTermInv' /\ \E A : MapsStep(A)
  BY <1>2, BeginSteps
<1>3. ASSUME NEW k \in Clients, \/ Summarize(k) \/ SemanticItem(k) \/ SemanticRemove(k)
      PROVE  LongTermInv' /\ \E A : MapsStep(A)
  BY <1>3, SummarizeStep, SemanticItemStep, SemanticRemoveStep
<1>4. ASSUME NEW k \in Clients,
             EpisodicAdd(k) \/ EpisodicUpdate(k) \/ EpisodicDelete(k) \/ EpisodicClear(k)
      PROVE  LongTermInv' /\ \E A : MapsStep(A)
  BY <1>4, EpisodicAddStep, EpisodicUpdateStep, EpisodicDeleteStep, EpisodicClearStep
<1>5. ASSUME NEW A, MapsStep(A) PROVE OthersGrow
  BY <1>5 DEF MapsStep, OthersGrow
<1>6. CASE LongTermNext
  BY <1>2, <1>3, <1>4, <1>5, <1>6 DEF LongTermNext
<1> QED
  BY <1>1, <1>6

(* The long-term memory keeps its inductive invariant while operations of  *)
(* any number of clients interleave and any call of a memory fails.        *)
THEOREM LongTermInvHolds == LongTermSpec => []LongTermInv
<1>1. LongTermInit => LongTermInv
  BY LongTermInitInv
<1>2. LongTermInv /\ [LongTermNext]_longTermVars => LongTermInv'
  BY LongTermStep
<1> QED
  BY <1>1, <1>2, PTL DEF LongTermSpec

(* LongTermMemoryImpl.Delete and Clear: an id for which they returned nil, *)
(* and which nobody has added since, is not in the episodic memory, and in *)
(* the semantic memory only if that Delete hid an error of it, whatever    *)
(* the calls of other clients did between the two removals.                *)
THEOREM GoneHolds == LongTermSpec => []GoneStaysGone
<1>1. LongTermInv => GoneStaysGone
  BY DEF LongTermInv
<1> QED
  BY <1>1, LongTermInvHolds, PTL

(* EpisodicMemoryImpl: no operation removes an entry of another user.      *)
THEOREM OthersHold == LongTermSpec => OthersOnlyGrow
<1>1. LongTermInv /\ [LongTermNext]_longTermVars => [OthersGrow]_longTermVars
  BY LongTermStep
<1>2. [][OthersGrow]_longTermVars => OthersOnlyGrow
  BY PTL DEF OthersGrow, OthersOnlyGrow
<1> QED
  BY <1>1, <1>2, LongTermInvHolds, PTL DEF LongTermSpec

-----------------------------------------------------------------------------
(* The episodic store implements MemoryStore.                              *)

LEMMA StoreInitRefines == LongTermInit => Store!Init
  BY DEF LongTermInit, NewInMemoryStore, Store!Init

LEMMA StoreEffectRefines ==
    ASSUME MapsGood, NEW k \in Clients, StoreEffect(k)
    PROVE  Store!Next
<1>0. Me \in Users /\ memoryLimit \in Nat /\ IsFiniteSet(Contents)
  BY LongTermAssumption, InMemoryAssumption
<1>1. CASE UNCHANGED memories /\ SetAnswer(k, "err")
  <2>1. Store!Fail(k)
    BY <1>1 DEF SetAnswer, Store!Fail, Store!Answer
  <2> QED
    BY <2>1 DEF Store!Next
<1>2. ASSUME NEW u \in Users, NEW m \in Contents, ~Full(u),
             memories' = [memories EXCEPT ![u] = Put(@, m, m)], SetAnswer(k, "added")
      PROVE  Store!Next
  <2>1. Cardinality(Entries(u)) < memoryLimit
    <3>1. Entries(u) \subseteq Contents
      BY DEF MapsGood, IsMap, Entries
    <3>2. Cardinality(Entries(u)) \in Nat
      BY <1>0, <3>1, FS_Subset, FS_CardinalityType
    <3> QED
      BY <1>0, <1>2, <3>2 DEF Full
  <2>2. memories' = [memories EXCEPT ![u] =
            [i \in Store!Stored(u) \cup {m} |-> IF i = m THEN m ELSE memories[u][i]]]
    BY <1>2 DEF Put, Store!Stored
  <2>3. Store!Answer(k, {"added", "err"})
    BY <1>2 DEF SetAnswer, Store!Answer
  <2>4. Store!Add(k, u, m)
    <3>1. Store!Cardinality(Store!Stored(u)) < memoryLimit
      BY <2>1 DEF Store!Stored, Entries, Store!Cardinality, Cardinality
    <3> QED
      BY <2>2, <2>3, <3>1 DEF Store!Add
  <2> QED
    BY <2>4, Zenon DEF Store!Next
<1>3. ASSUME NEW i \in Contents, NEW m \in Contents, i \in Entries(Me),
             memories' = [memories EXCEPT ![Me][i] = m], SetAnswer(k, "updated")
      PROVE  Store!Next
  <2>1. Store!Answer(k, {"updated", "err"})
    BY <1>3 DEF SetAnswer, Store!Answer
  <2>2. Store!Update(k, Me, i, m)
    BY <1>3, <2>1, Zenon DEF Store!Update, Store!Stored, Entries
  <2> QED
    BY <1>0, <2>2, Zenon DEF Store!Next
<1>4. ASSUME NEW I \in {{i} : i \in Contents} \cup {Contents},
             memories' = [memories EXCEPT ![Me] = [j \in Entries(Me) \ I |-> memories[Me][j]]],
             SetAnswer(k, "removed")
      PROVE  Store!Next
  <2>1. Store!Answer(k, {"removed", "err"})
    BY <1>4 DEF SetAnswer, Store!Answer
  <2>2. Store!Remove(k, Me, I)
    BY <1>4, <2>1, Zenon DEF Store!Remove, Store!Stored, Entries
  <2> QED
    BY <1>0, <2>2, Zenon DEF Store!Next
<1>5. ASSUME NEW i \in Contents,
             memories' = [memories EXCEPT ![Me] = [j \in Entries(Me) \ {i} |-> @[j]]],
             SetAnswer(k, "removed")
      PROVE  Store!Next
  <2>1. {i} \in {{n} : n \in Contents} \cup {Contents}
    OBVIOUS
  <2>2. memories' = [memories EXCEPT ![Me] = [j \in Entries(Me) \ {i} |-> memories[Me][j]]]
    BY <1>5
  <2> QED
    BY <1>4, <1>5, <2>1, <2>2
<1>6. CASE memories' = [memories EXCEPT ![Me] = <<>>] /\ SetAnswer(k, "removed")
  <2>1. Entries(Me) \ Contents = {}
    BY <1>0 DEF MapsGood, IsMap, Entries
  <2>2. [j \in Entries(Me) \ Contents |-> memories[Me][j]] = <<>>
    BY <2>1, NoEntries
  <2>3. Contents \in {{n} : n \in Contents} \cup {Contents}
    OBVIOUS
  <2> QED
    BY <1>4, <1>6, <2>2, <2>3
<1> QED
  BY <1>1, <1>2, <1>3, <1>5, <1>6 DEF StoreEffect

(* InMemoryStore, driven by any number of clients of the long-term memory: *)
(* every step is a step of a memory store of bounded size, or none.        *)
THEOREM StoreImplemented == LongTermSpec => ImplementsStore
<1>1. LongTermInit => Store!Init
  BY StoreInitRefines
<1>2. LongTermInv /\ [LongTermNext]_longTermVars => [Store!Next]_<<memories, answer>>
  <2> SUFFICES ASSUME LongTermInv, [LongTermNext]_longTermVars
               PROVE  [Store!Next]_<<memories, answer>>
    OBVIOUS
  <2>1. UNCHANGED <<memories, answer>> \/ \E k \in Clients : StoreEffect(k)
    BY StoreSteps DEF LongTermInv
  <2> QED
    BY <2>1, StoreEffectRefines DEF LongTermInv
<1> QED
  BY <1>1, <1>2, LongTermInvHolds, PTL DEF LongTermSpec, ImplementsStore, Store!Spec
=============================================================================
