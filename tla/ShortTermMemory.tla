-------------------------- MODULE ShortTermMemory --------------------------
(***************************************************************************)
(* memory/type_/short_term.go: insertion order, expiry and trimming on top *)
(* of a store.  The order is the queue that IdRing implements; the store   *)
(* is any StoreManager, each of whose calls may fail, with or without      *)
(* having taken effect.                                                    *)
(*                                                                         *)
(* A call holds m.mu from its first step to its return, so calls do not    *)
(* overlap; the steps of one call are its calls of the store.  Time is     *)
(* read once per call.  Items have the user of the memory.  Calls that     *)
(* return before they take the lock (a cancelled context, an empty id) are *)
(* left out; Update of several items is a sequence of Updates.             *)
(***************************************************************************)
EXTENDS Naturals, Sequences, FiniteSets

CONSTANTS
    Ids,        \* memory ids: equal content has equal ids
    Capacity,   \* m.capacity, 0 for no limit
    Ttl,        \* m.ttl, 0 for none
    MaxTime,    \* bound: the last moment
    Expiries,   \* bound: the values of ExpiresAt that callers of Add set
    MaxBatch,   \* bound: items in one Add
    MaxFaults   \* bound: failing calls of the store

ASSUME MemoryAssumption ==
    /\ Capacity \in Nat /\ Ttl \in Nat /\ MaxTime \in Nat
    /\ Expiries \subseteq 0..MaxTime
    /\ MaxBatch \in Nat \ {0} /\ MaxFaults \in Nat

(* A nil ExpiresAt.                                                        *)
Never == MaxTime + Ttl + 1
Items == [id : Ids, exp : Expiries \cup {Never}]
Batches == UNION {[1..n -> Items] : n \in 1..MaxBatch}

VARIABLES
    order,    \* m.order
    store,    \* the stored items of the user, reduced to their expiry
    now,
    phase,    \* where the current call is
    call,     \* the current or the last call
    items,    \* what Add has left to add
    expired,  \* what cleanupExpiredLocked has left to delete
    ret,      \* what the last call returned
    faults,   \* history: how many calls of the store have failed
    doubtful, \* history: the ids whose last change in the store failed
    late,     \* history: ids pushed by Add since one last came to trimming
    pre       \* history: the order that Add should lead to, faults before it

storeVars == <<store, faults, doubtful>>
vars == <<order, storeVars, now, phase, call, items, expired, ret, late, pre>>

Phases == {"idle", "clean", "add", "trim", "get", "list"}

(* The operations of m.order: Remove, PushBack and Values.                 *)
Queue == INSTANCE IdQueue

Members(s) == Queue!Members(s)

Removed(s, x) ==
    IF x \in Members(s) THEN Queue!Without(s, CHOOSE k \in DOMAIN s : s[k] = x) ELSE s

Pushed(s, x) == IF x \in Members(s) THEN s ELSE Append(s, x)

IsExpired(x) == now > store[x]

Without(x)   == [y \in DOMAIN store \ {x} |-> store[y]]
With(x, exp) == [y \in DOMAIN store \cup {x} |-> IF y = x THEN exp ELSE store[y]]

LastN(s, n) == IF n > 0 /\ Len(s) > n THEN SubSeq(s, Len(s) - n + 1, Len(s)) ELSE s

(* The elements of s at the positions in P, and those in S, in their order. *)
Selected(s, P) ==
    LET F[i \in 0..Len(s)] ==
            IF i = 0 THEN <<>>
            ELSE IF i \in P THEN Append(F[i - 1], s[i]) ELSE F[i - 1]
    IN  F[Len(s)]

Kept(s, S) == Selected(s, {i \in DOMAIN s : s[i] \in S})

Fresh == {x \in DOMAIN store : ~IsExpired(x)}

(* The sliding window an Add should leave: what has not expired, in its    *)
(* order, then the new ids in the order of their first occurrence, and of  *)
(* all these the last Capacity.                                            *)
IdsOf(batch) == [i \in DOMAIN batch |-> batch[i].id]

FirstNew(old, ids) ==
    {i \in DOMAIN ids : ids[i] \notin old /\ \A j \in 1..(i - 1) : ids[j] # ids[i]}

Grown(s, ids) == s \o Selected(ids, FirstNew(Members(s), ids))

WindowAfter(batch) == LastN(Grown(Kept(order, Fresh), IdsOf(batch)), Capacity)
NoWindow == [window |-> <<>>, faults |-> 0]

-----------------------------------------------------------------------------
(* The store.  A call succeeds, or fails and may have taken effect.        *)

StoreOk(ids, effect) ==
    /\ store' = effect
    /\ doubtful' = doubtful \ ids
    /\ UNCHANGED faults

StoreFault(ids, effect) ==
    /\ faults < MaxFaults
    /\ faults' = faults + 1
    /\ store' \in {store, effect}
    /\ doubtful' = doubtful \cup ids

(* store.Delete whose error is ignored; an unknown id is an error too.     *)
StoreDelete(x) == StoreOk({x}, Without(x)) \/ StoreFault({x}, Without(x))

(* Calls of store.Get, of which those for the ids in failed fail.          *)
StoreGets(failed) ==
    /\ faults + Cardinality(failed) <= MaxFaults
    /\ faults' = faults + Cardinality(failed)
    /\ UNCHANGED <<store, doubtful>>

-----------------------------------------------------------------------------
(* Calls.                                                                  *)

Begin(c) ==
    /\ phase = "idle"
    /\ call' = c
    /\ UNCHANGED <<now, late>>

CleanupScanUnreadable ==   \* mutant: the expiry is not looked at
    \E failed \in SUBSET Members(order) :
       /\ StoreGets(failed)
       /\ expired' = {x \in Members(order) : x \in failed \/ x \notin DOMAIN store}
       /\ phase' = "clean"
       /\ UNCHANGED <<order, ret>>

(* m.order.Values and a store.Get for each: those that failed count as     *)
(* expired.                                                                *)
CleanupScan ==
    \E failed \in SUBSET Members(order) :
       /\ StoreGets(failed)
       /\ expired' = {x \in Members(order) :
             x \in failed \/ x \notin DOMAIN store \/ IsExpired(x)}
       /\ phase' = "clean"
       /\ UNCHANGED <<order, ret>>

Add(batch) ==
    /\ Begin([op |-> "add"])
    /\ pre' = [window |-> WindowAfter(batch), faults |-> faults]
    /\ items' = batch
    /\ CleanupScan

Get(id) ==
    /\ Begin([op |-> "get", id |-> id])
    /\ pre' = NoWindow
    /\ CleanupScan
    /\ UNCHANGED items

List(limit) ==
    /\ Begin([op |-> "list", limit |-> limit])
    /\ pre' = NoWindow
    /\ CleanupScan
    /\ UNCHANGED items

CleanupDeleteKeepingOrder ==   \* mutant: the id stays in the ring
    /\ phase = "clean"
    /\ \E x \in expired :
          /\ StoreDelete(x)
          /\ expired' = expired \ {x}
    /\ UNCHANGED <<order, now, phase, call, items, ret, late, pre>>

(* _ = m.store.Delete; m.order.Remove                                      *)
CleanupDelete ==
    /\ phase = "clean"
    /\ \E x \in expired :
          /\ StoreDelete(x)
          /\ order' = Removed(order, x)
          /\ expired' = expired \ {x}
    /\ UNCHANGED <<now, phase, call, items, ret, late, pre>>

CleanupDone ==
    /\ phase = "clean" /\ expired = {}
    /\ phase' = call.op
    /\ UNCHANGED <<order, storeVars, now, call, items, expired, ret, late, pre>>

-----------------------------------------------------------------------------
(* The rest of Add.                                                        *)

ExpiresAt(item) == IF item.exp = Never /\ Ttl > 0 THEN now + Ttl ELSE item.exp

AddItem ==
    /\ phase = "add" /\ items # <<>>
    /\ LET x == Head(items).id  effect == With(x, ExpiresAt(Head(items))) IN
          /\ order' = Pushed(order, x)
          /\ late' = late \cup ({x} \ Members(order))
          /\ \/ /\ StoreOk({x}, effect)
                /\ items' = Tail(items)
                /\ UNCHANGED <<phase, ret>>
             \/ /\ StoreFault({x}, effect)
                /\ items' = <<>>
                /\ phase' = "idle" /\ ret' = "error"
    /\ UNCHANGED <<now, call, expired, pre>>

AddDone ==
    /\ phase = "add" /\ items = <<>>
    /\ phase' = "trim"
    /\ late' = {}
    /\ UNCHANGED <<order, storeVars, now, call, items, expired, ret, pre>>

OverLoosely == Capacity > 0 /\ Len(order) > Capacity + 1   \* mutant: one too many
Over == Capacity > 0 /\ Len(order) > Capacity

TrimNewest ==   \* mutant: the youngest id is evicted
    /\ phase = "trim" /\ Over
    /\ order' = SubSeq(order, 1, Len(order) - 1)
    /\ StoreDelete(order[Len(order)])
    /\ UNCHANGED <<now, phase, call, items, expired, ret, late, pre>>

(* m.order.PopFront; _ = m.store.Delete                                    *)
Trim ==
    /\ phase = "trim" /\ Over
    /\ order' = Tail(order)
    /\ StoreDelete(Head(order))
    /\ UNCHANGED <<now, phase, call, items, expired, ret, late, pre>>

TrimDone ==
    /\ phase = "trim" /\ ~Over
    /\ phase' = "idle" /\ ret' = "ok"
    /\ UNCHANGED <<order, storeVars, now, call, items, expired, late, pre>>

-----------------------------------------------------------------------------
(* The rest of Get and List.                                               *)

GetItem ==
    /\ phase = "get"
    /\ \/ StoreGets({}) /\ ret' = IF call.id \in DOMAIN store THEN <<call.id>> ELSE "error"
       \/ StoreGets({call.id}) /\ ret' = "error"
    /\ phase' = "idle"
    /\ UNCHANGED <<order, now, call, items, expired, late, pre>>

(* What the loop of List keeps when the store fails for the ids in failed. *)
(* The filters on the creation time are left out; IncludeExpired does not  *)
(* matter, as cleanupExpiredLocked has removed what is expired.            *)
Listed(failed) == Kept(order, Fresh \ failed)

ListItems ==
    /\ phase = "list"
    /\ \E failed \in SUBSET Members(order) :
          /\ StoreGets(failed)
          /\ ret' = LastN(Listed(failed), call.limit)
    /\ phase' = "idle"
    /\ UNCHANGED <<order, now, call, items, expired, late, pre>>

-----------------------------------------------------------------------------
(* Calls of one step: Update, Delete, Clear.                               *)

(* store.Update changes the content of an item and neither its expiry nor  *)
(* its place in the order.                                                 *)
Update(id) ==
    /\ Begin([op |-> "update"])
    /\ \/ StoreOk({}, store) /\ ret' = IF id \in DOMAIN store THEN "ok" ELSE "error"
       \/ StoreFault({}, store) /\ ret' = "error"
    /\ pre' = NoWindow
    /\ UNCHANGED <<order, phase, items, expired>>

(* The id leaves the ring only when the store has deleted it; it has to    *)
(* be there.                                                               *)
Delete(id) ==
    /\ Begin([op |-> "delete"])
    /\ pre' = NoWindow
    /\ \/ /\ id \in DOMAIN store
          /\ StoreOk({id}, Without(id))
          /\ order' = Removed(order, id)
          /\ ret' = "ok"
       \/ /\ id \notin DOMAIN store
          /\ ret' = "error" /\ UNCHANGED <<order, storeVars>>
       \/ StoreFault({id}, Without(id)) /\ ret' = "error" /\ UNCHANGED order
    /\ UNCHANGED <<phase, items, expired>>

NoItems == [x \in {} |-> 0]

Clear ==
    /\ Begin([op |-> "clear"])
    /\ pre' = NoWindow
    /\ \/ StoreOk(Ids, NoItems) /\ order' = <<>> /\ ret' = "ok"
       \/ StoreFault(Ids, NoItems) /\ ret' = "error" /\ UNCHANGED order
    /\ UNCHANGED <<phase, items, expired>>

Tick ==
    /\ phase = "idle" /\ now < MaxTime
    /\ now' = now + 1
    /\ call' = [op |-> "tick"] /\ ret' = "ok" /\ pre' = NoWindow
    /\ UNCHANGED <<order, storeVars, phase, items, expired, late>>

-----------------------------------------------------------------------------
Init ==
    /\ order = <<>> /\ store = NoItems /\ now = 0
    /\ phase = "idle" /\ call = [op |-> "tick"] /\ ret = "ok"
    /\ items = <<>> /\ expired = {} /\ faults = 0 /\ doubtful = {}
    /\ late = {} /\ pre = NoWindow

Next ==
    \/ \E batch \in Batches : Add(batch)
    \/ \E id \in Ids : Get(id) \/ Update(id) \/ Delete(id)
    \/ \E limit \in 0..1 : List(limit)
    \/ Clear \/ Tick
    \/ CleanupDelete \/ CleanupDone \/ AddItem \/ AddDone \/ Trim \/ TrimDone
    \/ GetItem \/ ListItems

Spec == Init /\ [][Next]_vars

-----------------------------------------------------------------------------
(* Types: the ring has no id twice, and no call leaves work behind.        *)
TypeOK ==
    /\ order \in Seq(Ids)
    /\ \A i, j \in DOMAIN order : order[i] = order[j] => i = j
    /\ DOMAIN store \subseteq Ids
    /\ \A x \in DOMAIN store : store[x] \in 0..Never
    /\ now \in 0..MaxTime /\ phase \in Phases
    /\ faults \in 0..MaxFaults /\ doubtful \subseteq Ids /\ late \subseteq Ids
    /\ items \in Seq(Items) /\ expired \subseteq Members(order)
    /\ phase = "idle" => items = <<>> /\ expired = {}

(* Ring and store have the same ids, but for those whose last change in    *)
(* the store failed: errors of Get are taken for expiry, those of Delete   *)
(* are ignored and Add pushes before it stores, and still the next         *)
(* successful change of an id restores the agreement on it.                *)
Agreement == \A x \in Ids \ doubtful : x \in DOMAIN store <=> x \in Members(order)

(* The memory exceeds its capacity only by ids that Add calls pushed which *)
(* then failed, and so skipped the trimming, and only until an Add that    *)
(* does not fail: whatever else happens, the other ids fit.                *)
CapacityKept ==
    (Capacity > 0 /\ phase = "idle") => Cardinality(Members(order) \ late) <= Capacity

(* An Add during which the store does not fail leaves the sliding window   *)
(* of WindowAfter.                                                         *)
Window ==
    (phase = "idle" /\ call.op = "add" /\ faults = pre.faults) => order = pre.window

(* List never returns what has expired; Get does so only for an item that  *)
(* a failed Delete has left in the store.                                  *)
FreshResults ==
    (phase = "idle" /\ call.op \in {"get", "list"} /\ ret # "error") =>
        \A x \in Members(ret) :
            IsExpired(x) => call.op = "get" /\ faults > 0 /\ x \notin Members(order)
=============================================================================
