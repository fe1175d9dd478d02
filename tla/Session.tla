------------------------------ MODULE Session ------------------------------
(***************************************************************************)
(* session/session.go, buffer.go and store.go: one Session object shared   *)
(* by the callers of a process, its token-bounded history, and the store   *)
(* its state is saved to and loaded from.                                  *)
(*                                                                         *)
(* Save holds the lock of the session twice, once to copy the fields and   *)
(* once to read the id, and takes the snapshot of the scheduler between    *)
(* the two without it; Load changes the fields under the lock and may then *)
(* fail in Scheduler.Restore.  FileStore.Save truncates the file and then  *)
(* writes it, SQLiteStore.Save is one upsert.  A crash loses the object    *)
(* and the calls in progress; the next process starts with NewSession.     *)
(*                                                                         *)
(* Abstracted: a message is a model value with a token count, the state of *)
(* a scheduler is the id of the session it was made for, a payload is the  *)
(* record it encodes; user, metadata and timestamps move with the id.      *)
(* Snapshot and Restore are external: at this commit the schedule package  *)
(* has neither, and they are modelled from how session.go uses them.       *)
(***************************************************************************)
EXTENDS Naturals, Sequences, FiniteSetsExt

CONSTANTS
    Callers,    \* goroutines that use the session
    Messages,   \* messages
    Tokens,     \* tokenizer: [Messages -> Nat]
    MaxTokens,  \* Buffer.maxTokens
    UserID,     \* [Ids -> users]: whom NewSession is called for
    Blank,      \* a userID that is empty once it is trimmed
    MaxIds,     \* bound: sessions created by NewSession, one per process
    MaxLog,     \* bound: messages in a conversation
    MaxSaves,   \* bound: calls of Save and LoadFromStorage
    None,       \* the store has nothing under an id
    Partial,    \* a file truncated and not, or not completely, written
    Mixed       \* a file with one payload over the rest of a longer one

ASSUME SessionAssumption ==
    /\ Tokens \in [Messages -> Nat]
    /\ MaxTokens \in Nat \ {0}   \* NewSession replaces a size <= 0
    /\ MaxIds \in Nat \ {0} /\ {MaxLog, MaxSaves} \subseteq Nat

(* What generateSessionKey returns is never blank. *)
Ids == 1..MaxIds

(* What a session saves: log and tainted are ghosts, the conversation and  *)
(* whether the state of two sessions was mixed.                            *)
Payloads == [id : Ids, hist : Seq(Messages), sched : Ids,
             log : Seq(Messages), tainted : BOOLEAN]

ASSUME StoreAssumption ==
    /\ None \notin {Partial, Mixed}
    /\ \A v \in {None, Partial, Mixed} : v \notin Payloads

VARIABLES
    kind,     \* "file" or "sqlite": the implementation of SessionStore
    sess,     \* the Session object, one of Payloads
    created,  \* ids given out by generateSessionKey
    store,    \* what the store holds per id
    call,     \* the Save or LoadFromStorage of each caller
    calls,    \* how many of them were started
    spoiled   \* ghost: ids whose last file write was cut off or overlapped

vars == <<kind, sess, created, store, call, calls, spoiled>>

(* Buffer *)

TokenCount(s) ==
    LET Sum[k \in 0..Len(s)] == IF k = 0 THEN 0 ELSE Sum[k - 1] + Tokens[s[k]]
    IN  Sum[Len(s)]

From(s, k) == SubSeq(s, k, Len(s))

(* Mutant: the loop stops one message too early. *)
TrimKeepsTwo(s) ==
    LET First[k \in 1..Len(s)] ==
            IF TokenCount(From(s, k)) > MaxTokens /\ k + 1 < Len(s) THEN First[k + 1] ELSE k
    IN  From(s, First[1])

Trim(s) ==
    LET First[k \in 1..Len(s)] ==
            IF TokenCount(From(s, k)) > MaxTokens /\ k < Len(s) THEN First[k + 1] ELSE k
    IN  From(s, First[1])

AppendTo(hist, m) == Trim(Append(hist, m))

(* Load appends the messages of a payload to an empty buffer. *)
Refilled(s) ==
    LET Buf[k \in 0..Len(s)] == IF k = 0 THEN <<>> ELSE AppendTo(Buf[k - 1], s[k])
    IN  Buf[Len(s)]

(* Session *)

NewSession(id) ==
    [id |-> id, hist |-> <<>>, sched |-> id, log |-> <<>>, tainted |-> FALSE]

NoCall == [pc |-> "idle", data |-> None, key |-> 0, switched |-> FALSE]

Init ==
    /\ kind \in {"file", "sqlite"}
    /\ created = 1
    /\ sess = NewSession(1)
    /\ store = [i \in Ids |-> None]
    /\ call = [c \in Callers |-> NoCall]
    /\ calls = 0
    /\ spoiled = {}

AddMessage(c, m) ==
    /\ call[c].pc = "idle"
    /\ Len(sess.log) < MaxLog
    /\ sess' = [sess EXCEPT !.hist = AppendTo(@, m), !.log = Append(@, m)]
    /\ UNCHANGED <<kind, created, store, call, calls, spoiled>>

NewConversation(c) ==
    /\ call[c].pc = "idle"
    /\ sess' = [sess EXCEPT !.hist = <<>>, !.log = <<>>]
    /\ UNCHANGED <<kind, created, store, call, calls, spoiled>>

(* Save: Dump copies the fields under the read lock ... *)
SaveDump(c) ==
    /\ call[c].pc = "idle"
    /\ calls < MaxSaves
    /\ calls' = calls + 1
    /\ call' = [call EXCEPT ![c] = [NoCall EXCEPT !.pc = "dumped", !.data = sess]]
    /\ UNCHANGED <<kind, sess, created, store, spoiled>>

(* Scheduler.Snapshot returns the state of the scheduler. *)
Snapshot == sess.sched

(* ... and asks the scheduler for its state, without the lock. *)
SaveSnapshot(c) ==
    /\ call[c].pc = "dumped"
    /\ \/ call' = [call EXCEPT ![c] = [@ EXCEPT !.pc = "snapped", !.data.sched = Snapshot]]
       \/ call' = [call EXCEPT ![c] = NoCall]
    /\ UNCHANGED <<kind, sess, created, store, calls, spoiled>>

(* Save then reads the id it stores the payload under; the payload is      *)
(* tainted when another session was loaded since the copy was made.        *)
SaveKey(c) ==
    /\ call[c].pc = "snapped"
    /\ call' = [call EXCEPT ![c] = [@ EXCEPT !.pc = "keyed", !.key = sess.id,
                    !.data.tainted = call[c].data.tainted \/ call[c].switched]]
    /\ UNCHANGED <<kind, sess, created, store, calls, spoiled>>

(* The store refuses the call (context done, directory, database error). *)
StoreRefuses(c) ==
    /\ call[c].pc = "keyed"
    /\ call' = [call EXCEPT ![c] = NoCall]
    /\ UNCHANGED <<kind, sess, created, store, calls, spoiled>>

Writing(i) == {c \in Callers : call[c].pc = "opened" /\ call[c].key = i}

(* Mutant: the file is opened without truncating it. *)
FileOpenAppend(c) ==
    /\ kind = "file" /\ call[c].pc = "keyed"
    /\ LET i == call[c].key IN
       /\ store' = [store EXCEPT ![i] = IF @ = None THEN Partial ELSE @]
       /\ spoiled' = IF Writing(i) = {} THEN spoiled \ {i} ELSE spoiled \cup {i}
    /\ call' = [call EXCEPT ![c].pc = "opened"]
    /\ UNCHANGED <<kind, sess, created, calls>>

(* os.WriteFile of FileStore.Save opens and truncates the file ... *)
FileOpen(c) ==
    /\ kind = "file" /\ call[c].pc = "keyed"
    /\ LET i == call[c].key IN
       /\ store' = [store EXCEPT ![i] = Partial]
       /\ spoiled' = IF Writing(i) = {} THEN spoiled \ {i} ELSE spoiled \cup {i}
    /\ call' = [call EXCEPT ![c].pc = "opened"]
    /\ UNCHANGED <<kind, sess, created, calls>>

(* ... and writes it: over what another writer of the file has written     *)
(* since, the rest of a longer payload stays.  The write may fail.         *)
FileWrite(c) ==
    /\ call[c].pc = "opened"
    /\ LET i == call[c].key IN
       \/ /\ \E d \in {call[c].data} \cup (IF store[i] = Partial THEN {} ELSE {Mixed}) :
                store' = [store EXCEPT ![i] = d]
          /\ UNCHANGED spoiled
       \/ /\ store' = [store EXCEPT ![i] = IF @ = Partial THEN @ ELSE Mixed]
          /\ spoiled' = spoiled \cup {i}
    /\ call' = [call EXCEPT ![c] = NoCall]
    /\ UNCHANGED <<kind, sess, created, calls>>

SQLiteSave(c) ==
    /\ kind = "sqlite" /\ call[c].pc = "keyed"
    /\ store' = [store EXCEPT ![call[c].key] = call[c].data]
    /\ call' = [call EXCEPT ![c] = NoCall]
    /\ UNCHANGED <<kind, sess, created, calls, spoiled>>

(* LoadFromStorage reads the payload of an id, by default its own; an      *)
(* unknown id is an error and changes nothing.                             *)
LoadFromStorage(c, i) ==
    /\ call[c].pc = "idle"
    /\ calls < MaxSaves
    /\ store[i] # None
    /\ calls' = calls + 1
    /\ call' = [call EXCEPT ![c] = [NoCall EXCEPT !.pc = "read", !.data = store[i]]]
    /\ UNCHANGED <<kind, sess, created, store, spoiled>>

Readable(d) == d \notin {None, Partial, Mixed}

(* What is not JSON, and a payload whose user is blank, which NewSession   *)
(* and Save let pass, is refused before the session is touched.            *)
Loadable(d) == Readable(d) /\ UserID[d.id] # Blank

LoadRefuses(c) ==
    /\ call[c].pc = "read"
    /\ ~Loadable(call[c].data)
    /\ call' = [call EXCEPT ![c] = NoCall]
    /\ UNCHANGED <<kind, sess, created, store, calls, spoiled>>

(* The calls of Save that copied the session before it was replaced. *)
Switch(c) ==
    [o \in Callers |->
        IF o = c THEN NoCall
        ELSE [call[o] EXCEPT !.switched = @ \/ call[o].pc \in {"dumped", "snapped"}]]

(* Mutant: the session keeps its own id. *)
LoadedKeepsId(d, sched, tainted) ==
    [d EXCEPT !.id = sess.id, !.hist = Refilled(d.hist),
              !.sched = sched, !.tainted = tainted]

Loaded(d, sched, tainted) ==
    [d EXCEPT !.hist = Refilled(d.hist), !.sched = sched, !.tainted = tainted]

(* Scheduler.Restore succeeds, or fails with or without effect. *)
Restore(d) ==
    \/ sess' = Loaded(d, d.sched, d.tainted)
    \/ \E s \in {sess.sched, d.sched} : sess' = Loaded(d, s, TRUE)

Load(c) ==
    LET d == call[c].data IN
    /\ call[c].pc = "read"
    /\ Loadable(d)
    /\ Restore(d)
    /\ call' = Switch(c)
    /\ UNCHANGED <<kind, created, store, calls, spoiled>>

(* The process stops and a new one creates its session: files being        *)
(* written stay as they are.                                               *)
Crash ==
    /\ created < MaxIds
    /\ created' = created + 1
    /\ sess' = NewSession(created + 1)
    /\ call' = [c \in Callers |-> NoCall]
    /\ spoiled' = spoiled \cup {i \in Ids : Writing(i) # {}}
    /\ UNCHANGED <<kind, store, calls>>

CallerStep(c) ==
    \/ \E m \in Messages : AddMessage(c, m)
    \/ NewConversation(c)
    \/ SaveDump(c) \/ SaveSnapshot(c) \/ SaveKey(c) \/ StoreRefuses(c)
    \/ FileOpen(c) \/ FileWrite(c) \/ SQLiteSave(c)
    \/ \E i \in Ids : LoadFromStorage(c, i)
    \/ LoadRefuses(c) \/ Load(c)

Next == Crash \/ \E c \in Callers : CallerStep(c)

Spec == Init /\ [][Next]_vars

-----------------------------------------------------------------------------
(* The longest part of the conversation, counted from its end, that fits   *)
(* the token budget, and at least the last message.                        *)
Window(log) ==
    From(log, Min({k \in 1..Len(log) : TokenCount(From(log, k)) <= MaxTokens}
                  \cup {Len(log)}))

(* The history that Append, trim, Dump and Load maintain, across saves,    *)
(* loads and restarts, is the longest end of the conversation that fits:   *)
(* neither trimming step by step nor the second trimming in Load loses a   *)
(* message that fits.                                                      *)
HistoryIsWindow ==
    \A d \in {sess} \cup {store[i] : i \in {j \in Ids : Readable(store[j])}} :
        d.log # <<>> => d.hist = Window(d.log)

(* What the store holds under an id is the state of that session, with the *)
(* scheduler state of that session, unless another session was loaded      *)
(* between the two critical sections of Save, or Load failed half-way.     *)
StoredCoherently ==
    \A i \in Ids : Readable(store[i]) =>
        store[i].tainted \/ (store[i].id = i /\ store[i].sched = i)

(* Load refuses what the store holds under an id only in these cases: its  *)
(* session was made for a blank user; Save stored another session there,   *)
(* as in StoredCoherently; or, in a FileStore, it cannot be read because a *)
(* Save of it is writing, or because a crash, a failed write or a second   *)
(* writer cut into one.  An undisturbed Save mends an unreadable file.     *)
UnloadableOnlyBy ==
    \A i \in Ids : store[i] # None /\ ~Loadable(store[i]) =>
        IF Readable(store[i])
        THEN UserID[i] = Blank \/ store[i].tainted
        ELSE kind = "file" /\ (Writing(i) # {} \/ i \in spoiled)
=============================================================================
