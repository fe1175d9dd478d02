--------------------------- MODULE LongTermMemory ---------------------------
(***************************************************************************)
(* memory/manager/manager.go over memory/type_/long_term.go: the manager   *)
(* keeps messages in a short-term memory and promotes summaries of them to *)
(* a long-term memory, which routes items to an episodic memory (episodic  *)
(* .go, for one user) and to a semantic memory.                            *)
(*                                                                         *)
(* Operations of the long-term memory call the two memories one after the  *)
(* other without a lock of their own, so that those of several clients     *)
(* interleave.  The semantic and the short-term memory are interfaces      *)
(* here: each of their operations may fail, also after it took effect.     *)
(* The StoreManager of the episodic memory is an InMemoryStore behind an   *)
(* adapter that hands it the fields of the item: the repository has none   *)
(* (InMemoryStore.Add does not have the signature of StoreManager.Add).    *)
(***************************************************************************)
EXTENDS InMemoryStore, Sequences

CONSTANTS
    Clients,
    Me,        \* EpisodicMemoryImpl.userID
    Batches,   \* the arguments of Add: sequences of items
    MaxShort   \* bound: messages in the short-term memory

ASSUME LongTermAssumption ==
    /\ Me \in Users
    /\ MaxShort \in Nat
    /\ \A b \in Batches : b \in Seq([type : {"episodic", "semantic"},
                                     user : Users \cup {NoUser}, content : Contents])

VARIABLES
    sem,       \* the ids in the semantic memory
    short,     \* the number of messages in the short-term memory
    call,      \* the operation of each client in progress
    answer,    \* what the episodic store answered each client last
    returned,  \* what the last operation of each client returned
    gone,      \* ghost: ids deleted with success and not added since
    hidden     \* ghost: those whose Delete hid an error of the semantic memory

longTermVars == <<memories, sem, short, call, answer, returned, gone, hidden>>

(* fresh is a ghost: the ids nobody has added since the operation began. *)
Operation(op, todo, ids) ==
    [op |-> op, todo |-> todo, ids |-> ids, fresh |-> ids, err1 |-> "ok"]

NoCall == Operation("idle", <<>>, {})

LongTermInit ==
    /\ NewInMemoryStore
    /\ sem = {}
    /\ short = 0
    /\ call = [k \in Clients |-> NoCall]
    /\ answer = [k \in Clients |-> "none"]
    /\ returned = [k \in Clients |-> "none"]
    /\ gone = {} /\ hidden = {}

Begin(k, op, todo, ids) ==
    /\ call[k].op = "idle"
    /\ call' = [call EXCEPT ![k] = Operation(op, todo, ids)]
    /\ returned' = [returned EXCEPT ![k] = "none"]
    /\ UNCHANGED <<gone, hidden>>

Return(k, res) ==
    /\ call' = [call EXCEPT ![k] = NoCall]
    /\ returned' = [returned EXCEPT ![k] = res]

(* The episodic store answered the operation op. *)
Answered(k, op, res) == answer' = [answer EXCEPT ![k] = IF res = "ok" THEN op ELSE "err"]

(* LongTermMemoryImpl *)

(* A call without items returns at once. *)
BeginItems(k, op, items) ==
    \/ items # <<>> /\ Begin(k, op, items, {})
    \/ items = <<>> /\ call[k].op = "idle" /\ Return(k, "ok") /\ UNCHANGED <<gone, hidden>>

Add(k, items) ==
    /\ BeginItems(k, "add", items)
    /\ UNCHANGED <<memories, sem, short, answer>>

Update(k, items) ==
    /\ BeginItems(k, "update", items)
    /\ UNCHANGED <<memories, sem, short, answer>>

Delete(k, i) ==
    /\ Begin(k, "delete", <<>>, {i})
    /\ UNCHANGED <<memories, sem, short, answer>>

Clear(k) ==
    /\ Begin(k, "clear", <<>>, Contents)
    /\ UNCHANGED <<memories, sem, short, answer>>

(* An item of Add or Update: the first error ends the loop, and the items  *)
(* before it stay as they were changed.                                    *)
NextItem(k, res, added) ==
    /\ LET seen == [l \in Clients |-> [call[l] EXCEPT !.fresh = @ \ added]]
           rest == Tail(call[k].todo) IN
       IF res = "ok" /\ rest # <<>>
       THEN /\ call' = [seen EXCEPT ![k] = [@ EXCEPT !.todo = rest]]
            /\ UNCHANGED returned
       ELSE /\ call' = [seen EXCEPT ![k] = NoCall]
            /\ returned' = [returned EXCEPT ![k] = res]
    /\ gone' = gone \ added /\ hidden' = hidden \ added

(* EpisodicMemoryImpl.Add stores the item under the user of the item. *)
EpisodicAdd(k) ==
    LET it == Head(call[k].todo) IN
    /\ call[k].op = "add"
    /\ it.type = "episodic"
    /\ \E res \in {"ok", "err"} :
        /\ StoreAdd(it.user, it.content, res)
        /\ Answered(k, "added", res)
        /\ NextItem(k, res, IF res = "ok" /\ it.user = Me THEN {it.content} ELSE {})
    /\ UNCHANGED <<sem, short>>

(* The other operations use the user of the memory; Update passes over an  *)
(* item that has no Memory.                                                *)
EpisodicUpdate(k) ==
    LET it == Head(call[k].todo) IN
    /\ call[k].op = "update"
    /\ it.type = "episodic"
    /\ \/ \E res \in {"ok", "err"}, m \in Contents :
            /\ StoreUpdate(Me, it.content, m, res)
            /\ Answered(k, "updated", res)
            /\ NextItem(k, res, {})
       \/ NextItem(k, "ok", {}) /\ UNCHANGED <<memories, answer>>
    /\ UNCHANGED <<sem, short>>

SemanticItem(k) ==
    LET it == Head(call[k].todo)
        added == IF call[k].op = "add" THEN {it.content} ELSE {} IN
    /\ call[k].op \in {"add", "update"}
    /\ it.type = "semantic"
    /\ \/ /\ sem' = sem \cup added
          /\ \E res \in {"ok", "err"} : NextItem(k, res, added)
       \/ UNCHANGED sem /\ NextItem(k, "err", {})
    /\ UNCHANGED <<memories, short, answer>>

(* Delete and Clear call the semantic memory first.  An error ends Clear;  *)
(* Delete goes on and keeps it.                                            *)
SemanticRemove(k) ==
    /\ call[k].op \in {"delete", "clear"}
    /\ \E res \in {"ok", "err"} :
        /\ \/ sem' = sem \ call[k].ids
           \/ res = "err" /\ UNCHANGED sem
        /\ IF res = "err" /\ call[k].op = "clear"
           THEN Return(k, "err")
           ELSE /\ call' = [call EXCEPT ![k] = [@ EXCEPT !.err1 = res,
                    !.op = IF call[k].op = "delete" THEN "delete2" ELSE "clear2"]]
                /\ UNCHANGED returned
    /\ UNCHANGED <<memories, short, answer, gone, hidden>>

(* The operation returns nil. *)
Removed(k) ==
    /\ Return(k, "ok")
    /\ gone' = gone \cup call[k].fresh
    /\ hidden' = IF call[k].err1 = "ok" THEN hidden \ call[k].fresh
                                       ELSE hidden \cup call[k].fresh

(* Delete fails only if both memories did. *)
EpisodicDelete(k) ==
    /\ call[k].op = "delete2"
    /\ \E res \in {"ok", "err"}, i \in call[k].ids :
        /\ StoreDelete(Me, i, res)
        /\ Answered(k, "removed", res)
        /\ IF call[k].err1 = "err" /\ res = "err"
           THEN Return(k, "err") /\ UNCHANGED <<gone, hidden>>
           ELSE Removed(k)
    /\ UNCHANGED <<sem, short>>

EpisodicClear(k) ==
    /\ call[k].op = "clear2"
    /\ StoreClear(Me, "ok")
    /\ Answered(k, "removed", "ok")
    /\ Removed(k)
    /\ UNCHANGED <<sem, short>>

(* MemoryManager *)

AddMessage(k) ==
    /\ call[k].op = "idle"
    /\ \/ short < MaxShort /\ short' = short + 1 /\ returned' = [returned EXCEPT ![k] = "ok"]
       \/ UNCHANGED short /\ returned' = [returned EXCEPT ![k] = "err"]
    /\ UNCHANGED <<memories, sem, call, answer, gone, hidden>>

(* Promote takes a snapshot; an error and an empty memory end it. *)
Promote(k) ==
    /\ call[k].op = "idle"
    /\ \/ short > 0 /\ Begin(k, "summarize", <<>>, {})
       \/ /\ \E res \in {"err"} \cup (IF short = 0 THEN {"ok"} ELSE {}) : Return(k, res)
          /\ UNCHANGED <<gone, hidden>>
    /\ UNCHANGED <<memories, sem, short, answer>>

(* The summarizer fails, has nothing to say, or returns a summary, which   *)
(* is added to the long-term memory as a semantic item without a user.     *)
Summarize(k) ==
    /\ call[k].op = "summarize"
    /\ \/ \E res \in {"ok", "err"} : Return(k, res)
       \/ \E m \in Contents :
            /\ call' = [call EXCEPT ![k] = Operation("add",
                  <<[type |-> "semantic", user |-> NoUser, content |-> m]>>, {})]
            /\ UNCHANGED returned
    /\ UNCHANGED <<memories, sem, short, answer, gone, hidden>>

LongTermNext == \E k \in Clients :
    \/ \E b \in Batches : Add(k, b) \/ Update(k, b)
    \/ \E i \in Contents : Delete(k, i)
    \/ Clear(k) \/ AddMessage(k) \/ Promote(k) \/ Summarize(k)
    \/ EpisodicAdd(k) \/ EpisodicUpdate(k) \/ SemanticItem(k)
    \/ SemanticRemove(k) \/ EpisodicDelete(k) \/ EpisodicClear(k)

LongTermSpec == LongTermInit /\ [][LongTermNext]_longTermVars

-----------------------------------------------------------------------------
(* The episodic store is a memory store that never holds more than         *)
(* memoryLimit items of a user, whatever the clients do: the lock makes    *)
(* the check of the limit and the insertion one step.                      *)
Store == INSTANCE MemoryStore WITH items <- memories, Capacity <- memoryLimit

ImplementsStore == Store!Spec

(* An id for which Delete or Clear returned nil, and which nobody has      *)
(* added since the call began, is in neither memory: no update that runs   *)
(* at the same time brings it back, and no memory is skipped.  The one     *)
(* exception is in the code: a Delete that the semantic memory refused     *)
(* returns nil when the episodic memory had the id, and the item may stay  *)
(* in the semantic one, where Get finds it.                                *)
GoneStaysGone == gone \cap Entries(Me) = {} /\ gone \cap sem \subseteq hidden

(* The episodic memory stores items under the user they name and works on  *)
(* its own user otherwise: entries it has added for another user are never *)
(* removed, and change only when they are added again.                     *)
OthersOnlyGrow ==
    [][\A u \in Users \ {Me} : \A i \in Entries(u) :
        i \in DOMAIN memories'[u] /\ memories'[u][i] \in {memories[u][i], i}]_longTermVars
=============================================================================
