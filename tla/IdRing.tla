------------------------------- MODULE IdRing -------------------------------
(***************************************************************************)
(* The ring buffer of ids of memory/type_/util.go, with its index from ids *)
(* to positions.  Positions start at 0 as in the code; None is the empty   *)
(* string that marks a free slot.                                          *)
(***************************************************************************)
EXTENDS Naturals, Sequences

CONSTANTS
    Ids,      \* ids other than the empty string
    None,     \* the empty string
    CapHint,  \* the argument of newIDRing
    MinCap    \* the smallest buffer, 16 in the code

ASSUME RingAssumption ==
    None \notin Ids /\ CapHint \in Nat /\ MinCap \in Nat \ {0}

VARIABLES
    cap,     \* len(r.buf)
    buf,     \* r.buf
    head, size,
    index,   \* r.index
    ret      \* what the last operation returned, as a sequence of ids

vars == <<cap, buf, head, size, index, ret>>

Slots(c) == 0..(c - 1)
Empty(c) == [p \in Slots(c) |-> None]
NoIndex == [x \in {} |-> 0]

(* Position of the i-th element, counting from 0.                          *)
Pos(i) == (head + i) % cap

Contains(id) == id \in DOMAIN index

(* Values leaves out empty slots: there are none between head and the end, *)
(* see RingSound.                                                          *)
Content == [i \in 1..size |-> buf[Pos(i - 1)]]

(* The values of the ring, counting from 0, and the place of x in the n    *)
(* values vals of a new ring.                                              *)
Unrolled == [i \in Slots(size) |-> buf[Pos(i)]]
IndexIn(vals, n, x) == CHOOSE p \in Slots(n) : vals[p] = x

-----------------------------------------------------------------------------
PushGrowCopied(id) ==   \* mutant: the new buffer is a copy of the old one
    /\ size = cap /\ ~Contains(id)
    /\ cap' = IF 2 * cap < MinCap THEN MinCap ELSE 2 * cap
    /\ buf' = [p \in Slots(cap') |->
                  IF p < size THEN buf[p] ELSE IF p = size THEN id ELSE None]
    /\ index' = [x \in DOMAIN index \cup {id} |->
                  IF x = id THEN size ELSE IndexIn(Unrolled, size, x)]
    /\ head' = 0
    /\ size' = size + 1
    /\ ret' = <<>>

(* PushBack when ensureCapacity moves the elements to a larger buffer.     *)
PushGrow(id) ==
    /\ size = cap /\ ~Contains(id)
    /\ cap' = IF 2 * cap < MinCap THEN MinCap ELSE 2 * cap
    /\ buf' = [p \in Slots(cap') |->
                  IF p < size THEN Unrolled[p] ELSE IF p = size THEN id ELSE None]
    /\ index' = [x \in DOMAIN index \cup {id} |->
                  IF x = id THEN size ELSE IndexIn(Unrolled, size, x)]
    /\ head' = 0
    /\ size' = size + 1
    /\ ret' = <<>>

(* PushBack with room.                                                     *)
PushFits(id) ==
    /\ size < cap /\ ~Contains(id)
    /\ buf' = [buf EXCEPT ![Pos(size)] = id]
    /\ index' = [x \in DOMAIN index \cup {id} |-> IF x = id THEN Pos(size) ELSE index[x]]
    /\ size' = size + 1
    /\ ret' = <<>>
    /\ UNCHANGED <<cap, head>>

(* PushBack of an id the ring has.                                         *)
PushAgain(id) ==
    /\ Contains(id)
    /\ ret' = <<>>
    /\ UNCHANGED <<cap, buf, head, size, index>>

PopFrontKeepsIndex ==   \* mutant: the id stays in the index
    /\ size > 0
    /\ ret' = <<buf[head]>>
    /\ buf' = [buf EXCEPT ![head] = None]
    /\ head' = IF size = 1 THEN 0 ELSE (head + 1) % cap
    /\ size' = size - 1
    /\ UNCHANGED <<cap, index>>

PopFront ==
    /\ size > 0
    /\ ret' = <<buf[head]>>
    /\ index' = [x \in DOMAIN index \ {buf[head]} |-> index[x]]
    /\ buf' = [buf EXCEPT ![head] = None]
    /\ head' = IF size = 1 THEN 0 ELSE (head + 1) % cap
    /\ size' = size - 1
    /\ UNCHANGED cap

PopEmpty ==
    /\ size = 0
    /\ ret' = <<>>
    /\ UNCHANGED <<cap, buf, head, size, index>>

(* The values of the ring without the k-th, counting from 0.               *)
Rest(k) == [p \in Slots(size - 1) |-> buf[Pos(IF p < k THEN p ELSE p + 1)]]

(* Remove rebuilds the ring from its other values.                         *)
Remove(id) ==
    /\ Contains(id)
    /\ \E k \in Slots(size) :
          /\ buf[Pos(k)] = id
          /\ buf' = [p \in Slots(cap) |-> IF p < size - 1 THEN Rest(k)[p] ELSE None]
          /\ index' = [x \in DOMAIN index \ {id} |->
                          IndexIn(Rest(k), size - 1, x)]
    /\ head' = 0
    /\ size' = size - 1
    /\ ret' = <<id>>
    /\ UNCHANGED cap

RemoveNothing(id) ==
    /\ ~Contains(id)
    /\ ret' = <<>>
    /\ UNCHANGED <<cap, buf, head, size, index>>

Values ==
    /\ ret' = Content
    /\ UNCHANGED <<cap, buf, head, size, index>>

Reset ==
    /\ buf' = Empty(cap)
    /\ head' = 0
    /\ size' = 0
    /\ index' = NoIndex
    /\ ret' = <<>>
    /\ UNCHANGED cap

-----------------------------------------------------------------------------
Init ==
    /\ cap = IF CapHint < MinCap THEN MinCap ELSE CapHint
    /\ buf = Empty(cap)
    /\ head = 0 /\ size = 0 /\ index = NoIndex
    /\ ret = <<>>

Next ==
    \/ \E id \in Ids :
          \/ PushGrow(id) \/ PushFits(id) \/ PushAgain(id)
          \/ Remove(id) \/ RemoveNothing(id)
    \/ PopFront \/ PopEmpty \/ Values \/ Reset

Spec == Init /\ [][Next]_vars

-----------------------------------------------------------------------------
(* Types: the head stays within the buffer, the ring holds at most as many *)
(* ids as the buffer has slots, and no operation returns a free slot.      *)
TypeOK ==
    /\ cap \in Nat \ {0}
    /\ buf \in [Slots(cap) -> Ids \cup {None}]
    /\ head \in Slots(cap)
    /\ size \in 0..cap
    /\ DOMAIN index \subseteq Ids
    /\ \A x \in DOMAIN index : index[x] \in Slots(cap)
    /\ ret \in Seq(Ids)

(* The window of size slots from head on holds ids, all different, the     *)
(* other slots are free, and the index has exactly these ids with their    *)
(* positions, although the window wraps around, moves to position 0 when   *)
(* the ring runs empty, and is copied when the ring grows or loses an id.  *)
RingSound ==
    /\ \A i \in Slots(size) : buf[Pos(i)] # None
    /\ \A i, j \in Slots(size) : buf[Pos(i)] = buf[Pos(j)] => i = j
    /\ \A i \in Slots(cap) : i >= size => buf[Pos(i)] = None
    /\ \A i \in Slots(size) :
          buf[Pos(i)] \in DOMAIN index /\ index[buf[Pos(i)]] = Pos(i)
    /\ \A x \in DOMAIN index : buf[index[x]] = x

(* The ring seen as the queue of its content.                              *)
Queue == INSTANCE IdQueue WITH order <- Content

(* PushBack, PopFront, Remove, Values and Reset change the content and     *)
(* return results as the same operations of a queue of different ids do,   *)
(* wherever the head is and whether or not the buffer grows.               *)
Implements == Queue!Spec
=============================================================================
