----------------------------- MODULE MessageBus -----------------------------
(***************************************************************************)
(* The message bus of schedule/context.go for one key: Register starts a   *)
(* goroutine that copies every message of the producer channel into        *)
(* history and to the channels of all consumers; Subscribe adds a consumer *)
(* and replays history to it.                                              *)
(*                                                                         *)
(* Messages are numbered in the order the producer sends them.  Three      *)
(* accesses are not under the lock that guards the data: the append to     *)
(* history, the loop that closes the consumers, and the map reads at the   *)
(* beginning of Subscribe.  What such a read returns while the write is in *)
(* progress is a choice (Racy).                                            *)
(*                                                                         *)
(* The producer's channel is not nil.  A second Register of the same key   *)
(* returns without effect and is left out.                                 *)
(***************************************************************************)
EXTENDS Naturals, Sequences, SequencesExt

CONSTANTS
    Subscribers,   \* the Subscribe calls
    Buffer,        \* DefaultChanMaxBuffer, the capacity of a consumer channel
    ProducerCap,   \* the capacity of the producer's channel
    MaxMsgs,       \* bound: how many messages the producer sends
    NoChan         \* a nil channel

ASSUME BusAssumption ==
    /\ Buffer \in Nat \ {0} /\ ProducerCap \in Nat \ {0} /\ MaxMsgs \in Nat
    /\ NoChan \notin Subscribers

Torn == 0
Msgs == 1..MaxMsgs

VARIABLES
    reg,        \* Register: not called, assigning c.queues[key], or returned
    sent,       \* how many messages the producer has sent
    producer,   \* its channel
    pclosed,    \* the producer closed it
    bus,        \* pc of the goroutine started by Register
    msg,        \* its variable msg
    todo,       \* the consumers left in its current loop
    history,    \* queue.history
    consumers,  \* queue.Consumers
    sub,        \* pc of each Subscribe call and of the consumer behind it
    replay,     \* what Subscribe has left to replay
    chan,       \* the consumer channels
    closed,     \* closed consumer channels
    got,        \* the messages each consumer has read
    since,      \* history: how many messages were sent when Subscribe returned
    panic       \* "no", or why the process went down

prodVars == <<reg, sent, pclosed>>
subVars  == <<consumers, sub, replay, since>>
vars == <<prodVars, producer, bus, msg, todo, history, subVars, chan, closed, got, panic>>

(* queue.mu: held for reading by the goroutine while it broadcasts, and    *)
(* for writing by a Subscribe call from Lock to its return.                *)
ReadLocked  == bus = "send"
WriteLocked == \E s \in Subscribers : sub[s] \in {"append", "replay"}

(* What an unsynchronised reader finds in slice while its last element is  *)
(* being appended: append stores the new length before the element.        *)
Racy(slice, appending, junk) ==
    IF appending THEN {slice, Front(slice), Append(Front(slice), junk)} ELSE {slice}

-----------------------------------------------------------------------------
(* Register, whose map assignment Subscribe may observe, and the producer. *)

Register ==
    /\ reg = "idle"
    /\ reg' = "write"
    /\ UNCHANGED <<sent, pclosed, producer, bus, msg, todo, history, subVars, chan, closed,
                   got, panic>>

RegisterReturns ==
    /\ reg = "write"
    /\ reg' = "done"
    /\ bus' = "recv"
    /\ UNCHANGED <<sent, pclosed, producer, msg, todo, history, subVars, chan, closed, got,
                   panic>>

Send ==
    /\ ~pclosed
    /\ sent < MaxMsgs /\ Len(producer) < ProducerCap
    /\ sent' = sent + 1
    /\ producer' = Append(producer, sent + 1)
    /\ UNCHANGED <<reg, pclosed, bus, msg, todo, history, subVars, chan, closed, got, panic>>

CloseProducer ==
    /\ ~pclosed
    /\ pclosed' = TRUE
    /\ UNCHANGED <<reg, sent, producer, bus, msg, todo, history, subVars, chan, closed, got,
                   panic>>

-----------------------------------------------------------------------------
(* The goroutine started by Register.                                      *)

(* for msg := range ch, and the append to queue.history begins.            *)
Receive ==
    /\ bus = "recv"
    /\ producer # <<>>
    /\ msg' = Head(producer)
    /\ producer' = Tail(producer)
    /\ history' = Append(history, Head(producer))
    /\ bus' = "append"
    /\ UNCHANGED <<prodVars, todo, subVars, chan, closed, got, panic>>

Appended ==
    /\ bus = "append"
    /\ bus' = "rlock"
    /\ UNCHANGED <<prodVars, producer, msg, todo, history, subVars, chan, closed, got, panic>>

(* Mutant: the message is broadcast without taking queue.mu.               *)
RLockNotTaken ==
    /\ bus = "rlock"
    /\ todo' = consumers
    /\ bus' = IF consumers = <<>> THEN "recv" ELSE "send"
    /\ UNCHANGED <<prodVars, producer, msg, history, subVars, chan, closed, got, panic>>

RLock ==
    /\ bus = "rlock"
    /\ ~WriteLocked
    /\ todo' = consumers
    /\ bus' = IF consumers = <<>> THEN "recv" ELSE "send"
    /\ UNCHANGED <<prodVars, producer, msg, history, subVars, chan, closed, got, panic>>

(* Mutant: a message for a full channel is dropped.                        *)
BroadcastDropping ==
    /\ bus = "send"
    /\ chan' = [chan EXCEPT ![Head(todo)] =
                   IF Len(@) < Buffer THEN Append(@, msg) ELSE @]
    /\ todo' = Tail(todo)
    /\ bus' = IF Len(todo) = 1 THEN "recv" ELSE "send"
    /\ UNCHANGED <<prodVars, producer, msg, history, subVars, closed, got, panic>>

(* Mutant: the loop returns to the range without the last consumer.        *)
BroadcastShort ==
    /\ bus = "send"
    /\ Len(chan[Head(todo)]) < Buffer
    /\ chan' = [chan EXCEPT ![Head(todo)] = Append(@, msg)]
    /\ todo' = Tail(todo)
    /\ bus' = IF Len(todo) <= 2 THEN "recv" ELSE "send"
    /\ UNCHANGED <<prodVars, producer, msg, history, subVars, closed, got, panic>>

(* consumer <- msg, blocking while the channel is full; RUnlock after the  *)
(* last one.                                                               *)
Broadcast ==
    /\ bus = "send"
    /\ Len(chan[Head(todo)]) < Buffer
    /\ chan' = [chan EXCEPT ![Head(todo)] = Append(@, msg)]
    /\ todo' = Tail(todo)
    /\ bus' = IF Len(todo) = 1 THEN "recv" ELSE "send"
    /\ UNCHANGED <<prodVars, producer, msg, history, subVars, closed, got, panic>>

(* Mutant: the consumers are closed before the closed channel is drained.  *)
StartClosingEarly ==
    /\ bus = "recv"
    /\ pclosed
    /\ todo' \in Racy(consumers, \E s \in Subscribers : sub[s] = "append", NoChan)
    /\ bus' = IF todo' = <<>> THEN "exited" ELSE "close"
    /\ UNCHANGED <<prodVars, producer, msg, history, subVars, chan, closed, got, panic>>

(* The producer channel is closed and drained: range queue.Consumers,      *)
(* without the lock.                                                       *)
StartClosing ==
    /\ bus = "recv"
    /\ producer = <<>> /\ pclosed
    /\ todo' \in Racy(consumers, \E s \in Subscribers : sub[s] = "append", NoChan)
    /\ bus' = IF todo' = <<>> THEN "exited" ELSE "close"
    /\ UNCHANGED <<prodVars, producer, msg, history, subVars, chan, closed, got, panic>>

(* close(consumer); closing a nil channel panics.                          *)
CloseConsumer ==
    /\ bus = "close"
    /\ IF Head(todo) = NoChan
       THEN panic' = "close of nil channel" /\ UNCHANGED closed
       ELSE closed' = closed \cup {Head(todo)} /\ UNCHANGED panic
    /\ todo' = Tail(todo)
    /\ bus' = IF Len(todo) = 1 THEN "exited" ELSE "close"
    /\ UNCHANGED <<prodVars, producer, msg, history, subVars, chan, got>>

Bus == Receive \/ Appended \/ RLock \/ Broadcast \/ StartClosing \/ CloseConsumer

-----------------------------------------------------------------------------
(* Subscribe and the consumer that ranges over the channel it returns.     *)

(* The reads of c.queues without c.mu: while Register assigns to the map   *)
(* they see it or not, and the runtime may stop the process.               *)
Subscribe(s) ==
    /\ sub[s] = "idle"
    /\ \/ reg # "done" /\ sub' = [sub EXCEPT ![s] = "nil"] /\ UNCHANGED panic
       \/ reg # "idle" /\ sub' = [sub EXCEPT ![s] = "lock"] /\ UNCHANGED panic
       \/ /\ reg = "write"
          /\ panic' = "concurrent map read and map write"
          /\ UNCHANGED sub
    /\ UNCHANGED <<prodVars, producer, bus, msg, todo, history, consumers, replay, since,
                   chan, closed, got>>

(* Mutant: the channel is registered twice.                                *)
LockAddingTwice(s) ==
    /\ sub[s] = "lock"
    /\ ~ReadLocked /\ ~WriteLocked
    /\ consumers' = consumers \o <<s, s>>
    /\ sub' = [sub EXCEPT ![s] = "append"]
    /\ UNCHANGED <<prodVars, producer, bus, msg, todo, history, replay, since, chan, closed,
                   got, panic>>

(* queue.mu.Lock, and the append to queue.Consumers begins.                *)
Lock(s) ==
    /\ sub[s] = "lock"
    /\ ~ReadLocked /\ ~WriteLocked
    /\ consumers' = Append(consumers, s)
    /\ sub' = [sub EXCEPT ![s] = "append"]
    /\ UNCHANGED <<prodVars, producer, bus, msg, todo, history, replay, since, chan, closed,
                   got, panic>>

(* range queue.history.                                                    *)
RangeHistory(s) ==
    /\ sub[s] = "append"
    /\ \E seen \in Racy(history, bus = "append", Torn) :
          replay' = [replay EXCEPT ![s] = seen]
    /\ sub' = [sub EXCEPT ![s] = "replay"]
    /\ UNCHANGED <<prodVars, producer, bus, msg, todo, history, consumers, since, chan,
                   closed, got, panic>>

(* ch <- msg, blocking while the channel is full.  It panics when the      *)
(* goroutine has closed the channel.                                       *)
Replay(s) ==
    /\ sub[s] = "replay"
    /\ replay[s] # <<>>
    /\ IF s \in closed
       THEN panic' = "send on closed channel" /\ UNCHANGED chan
       ELSE /\ Len(chan[s]) < Buffer
            /\ chan' = [chan EXCEPT ![s] = Append(@, Head(replay[s]))]
            /\ UNCHANGED panic
    /\ replay' = [replay EXCEPT ![s] = Tail(@)]
    /\ UNCHANGED <<prodVars, producer, bus, msg, todo, history, consumers, sub, since,
                   closed, got>>

(* return ch, queue.mu.Unlock.                                             *)
SubscribeReturns(s) ==
    /\ sub[s] = "replay"
    /\ replay[s] = <<>>
    /\ sub' = [sub EXCEPT ![s] = "reading"]
    /\ since' = [since EXCEPT ![s] = sent]
    /\ UNCHANGED <<prodVars, producer, bus, msg, todo, history, consumers, replay, chan,
                   closed, got, panic>>

(* The consumer: for m := range ch.                                        *)
Consume(s) ==
    /\ sub[s] = "reading"
    /\ chan[s] # <<>>
    /\ got' = [got EXCEPT ![s] = Append(@, Head(chan[s]))]
    /\ chan' = [chan EXCEPT ![s] = Tail(@)]
    /\ UNCHANGED <<prodVars, producer, bus, msg, todo, history, subVars, closed, panic>>

SeeClosed(s) ==
    /\ sub[s] = "reading"
    /\ chan[s] = <<>> /\ s \in closed
    /\ sub' = [sub EXCEPT ![s] = "eof"]
    /\ UNCHANGED <<prodVars, producer, bus, msg, todo, history, consumers, replay, since,
                   chan, closed, got, panic>>

Subscriber(s) ==
    \/ Lock(s) \/ RangeHistory(s) \/ Replay(s) \/ SubscribeReturns(s)
    \/ Consume(s) \/ SeeClosed(s)

-----------------------------------------------------------------------------
Init ==
    /\ reg = "idle" /\ sent = 0 /\ producer = <<>> /\ pclosed = FALSE
    /\ bus = "none" /\ msg = Torn /\ todo = <<>>
    /\ history = <<>> /\ consumers = <<>> /\ closed = {}
    /\ sub = [s \in Subscribers |-> "idle"]
    /\ replay = [s \in Subscribers |-> <<>>]
    /\ since = [s \in Subscribers |-> 0]
    /\ chan = [s \in Subscribers |-> <<>>]
    /\ got = [s \in Subscribers |-> <<>>]
    /\ panic = "no"

Next ==
    /\ panic = "no"
    /\ \/ Register \/ RegisterReturns \/ Send \/ CloseProducer \/ Bus
       \/ \E s \in Subscribers : Subscribe(s) \/ Subscriber(s)

Spec == Init /\ [][Next]_vars

(* Goroutines that can run do run, consumers keep reading, and a writer    *)
(* waiting for a sync.RWMutex is not overtaken for ever.  The producer     *)
(* need not send or close, and nobody need subscribe.                      *)
Fairness ==
    /\ WF_vars(RegisterReturns /\ panic = "no")
    /\ WF_vars(Bus /\ panic = "no")
    /\ \A s \in Subscribers :
          WF_vars(Subscriber(s) /\ panic = "no") /\ SF_vars(Lock(s) /\ panic = "no")

FairSpec == Spec /\ Fairness

-----------------------------------------------------------------------------
(* All that a consumer has read or can read, and where message m is in it. *)
Delivered(s) == got[s] \o chan[s]

Places(s, m) == {k \in DOMAIN Delivered(s) : Delivered(s)[k] = m}

Joined(s) == sub[s] \in {"reading", "eof"}

(* No consumer misses a message: once the goroutine is done with message m *)
(* every consumer whose Subscribe has returned has m, whether it came      *)
(* through the replay, the broadcast or both.  This is what appending to   *)
(* history before taking the lock is for.  The one that subscribes when    *)
(* the goroutine is done has m by the replay alone.                        *)
NothingMissed ==
    \A s \in Subscribers : Joined(s) =>
        \A k \in DOMAIN history :
            (k < Len(history) \/ bus \in {"recv", "close", "exited"})
                => Places(s, history[k]) # {}

(* Messages reach a consumer in the order they were sent: a message is     *)
(* delivered only after all earlier ones, although the replay and the      *)
(* broadcast are sent by different goroutines; a torn element may stand in *)
(* for the last replayed message, never for an earlier one.                *)
InOrder ==
    \A s \in Subscribers : \A k \in DOMAIN Delivered(s) :
        \A m \in 1..(Delivered(s)[k] - 1) : \E j \in Places(s, m) : j < k

(* Over its whole life a consumer gets at most one surplus message: the    *)
(* one that was in history but not yet broadcast when it subscribed.       *)
OneDuplicate == \A s \in Subscribers : Len(Delivered(s)) <= Len(history) + 1

(* A message sent after Subscribe returned is delivered at most once.      *)
RealtimeOnce ==
    \A s \in Subscribers : Joined(s) =>
        \A m \in (since[s] + 1)..MaxMsgs : \A j, k \in Places(s, m) : j = k

(* A consumer whose channel is closed and empty has read every message.    *)
EofComplete ==
    \A s \in Subscribers : sub[s] = "eof" => \A m \in 1..sent : Places(s, m) # {}

(* Every message sent reaches every consumer that has subscribed, before   *)
(* or after, unless the process goes down.  History must fit in a consumer *)
(* channel (MaxMsgs <= Buffer), or Subscribe, which holds the lock, waits  *)
(* for a reader that does not have the channel yet.                        *)
Delivery == \A s \in Subscribers : \A m \in Msgs :
    (sent >= m /\ Joined(s)) ~>
        ((\E k \in DOMAIN got[s] : got[s][k] = m) \/ panic # "no")

-----------------------------------------------------------------------------
(* What a comment says and the code does not keep.                         *)

(* Subscribe: "lock to finish the subscription process, including adding   *)
(* the new consumer channel to the queue and sending historical messages". *)
SubscriptionFinishes == panic \notin {"send on closed channel", "close of nil channel"}
=============================================================================
