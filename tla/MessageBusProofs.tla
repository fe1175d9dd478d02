-------------------------- MODULE MessageBusProofs --------------------------
(***************************************************************************)
(* Proofs about MessageBus: what a consumer is delivered, through replay   *)
(* and broadcast together, for any numbers of subscribers and messages and *)
(* any capacities of the channels.                                         *)
(*                                                                         *)
(* The invariant gives a consumer two numbers: how many messages of the    *)
(* history its Subscribe has found, and 1 if the last of them is broadcast *)
(* to it too, else 0.  They determine everything it is ever delivered.     *)
(***************************************************************************)
EXTENDS MessageBus, TLAPS, SequenceTheorems

BusStates == {"none", "recv", "append", "rlock", "send", "close", "exited"}

Adding    == {"append", "replay"}
Replaying == {"replay", "reading", "eof"}

TypeOK ==
    /\ sent \in Nat /\ msg \in Nat /\ bus \in BusStates
    /\ producer \in Seq(Nat) /\ history \in Seq(Nat)
    /\ consumers \in Seq(Subscribers) /\ todo \in Seq(Subscribers \cup {NoChan})
    /\ sub \in [Subscribers -> Adding \cup Replaying \cup {"idle", "nil", "lock"}]
    /\ replay \in [Subscribers -> Seq(Nat)]
    /\ chan \in [Subscribers -> Seq(Nat)]
    /\ got \in [Subscribers -> Seq(Nat)]
    /\ since \in [Subscribers -> Nat]
    /\ closed \subseteq Subscribers

(* The goroutine of Register is broadcasting the last message of history.  *)
Underway == bus \in {"append", "rlock", "send"}

Ending == bus \in {"close", "exited"}

(* History and producer channel together hold what was sent, in order.     *)
Log ==
    /\ \A k \in 1..Len(history) : history[k] = k
    /\ \A k \in 1..Len(producer) : producer[k] = Len(history) + k
    /\ sent = Len(history) + Len(producer)
    /\ Underway => Len(history) > 0 /\ msg = Len(history)
    /\ Ending => pclosed /\ producer = <<>>
    /\ ~Ending => closed = {}
    /\ bus = "none" <=> reg # "done"

In(s, seq) == \E k \in 1..Len(seq) : seq[k] = s

Distinct(seq) == \A j, k \in 1..Len(seq) : seq[j] = seq[k] => j = k

(* Who is a consumer, and who is left in the loop of the broadcast.        *)
Roster ==
    /\ Distinct(consumers)
    /\ \A s \in Subscribers : In(s, consumers) <=> sub[s] \in Adding \cup Replaying
    /\ bus = "send" =>
          /\ todo # <<>> /\ Distinct(todo)
          /\ \A k \in 1..Len(todo) : todo[k] \in Subscribers /\ Joined(todo[k])
          /\ ~WriteLocked
    /\ bus = "close" => todo # <<>>

(* All that a consumer is to get without further broadcasts.               *)
Coming(s) == Delivered(s) \o replay[s]

(* The next message that is broadcast to a consumer.                       *)
NextFor(s) ==
    IF bus \in {"append", "rlock"} \/ (bus = "send" /\ In(s, todo))
    THEN Len(history) ELSE Len(history) + 1

(* The first p are replayed, the last of them perhaps torn, and the others *)
(* broadcast; o is 1 if the broadcast starts with the last one replayed.   *)
Shape(seq, p, o) ==
    /\ p <= Len(seq) /\ o <= p
    /\ \A k \in 1..p : seq[k] = k \/ (k = p /\ o = 1 /\ seq[k] = Torn)
    /\ \A k \in (p + 1)..Len(seq) : seq[k] = k - o

Follows(s, p, o) ==
    /\ Shape(Coming(s), p, o)
    /\ p <= Len(history)
    /\ Joined(s) => p <= since[s] /\ replay[s] = <<>>
    /\ Len(Coming(s)) + 1 = NextFor(s) + o

Served(s) ==
    /\ sub[s] \in Replaying => \E p \in Nat, o \in {0, 1} : Follows(s, p, o)
    /\ sub[s] \notin Replaying => got[s] = <<>> /\ chan[s] = <<>> /\ replay[s] = <<>>

Deliveries == \A s \in Subscribers : Served(s)

Ended == \A s \in Subscribers : sub[s] = "eof" => s \in closed

(* What the five properties of MessageBus say.                             *)
Correct == NothingMissed /\ InOrder /\ OneDuplicate /\ RealtimeOnce /\ EofComplete

(* A step that panics leaves the deliveries as they are, and is the last.  *)
Inv == TypeOK /\ Log /\ Roster /\ Ended /\ (panic = "no" => Deliveries) /\ Correct
-----------------------------------------------------------------------------
(* Sequences.                                                              *)

LEMMA MoveFirst ==
    ASSUME NEW S, NEW a \in Seq(S), NEW b \in Seq(S), b # <<>>
    PROVE  Append(a, Head(b)) \o Tail(b) = a \o b
<1>1. Head(b) \in S /\ Tail(b) \in Seq(S) /\ Len(Tail(b)) = Len(b) - 1
  BY HeadTailProperties
<1>2. /\ Append(a, Head(b)) \in Seq(S) /\ Len(Append(a, Head(b))) = Len(a) + 1
      /\ \A i \in 1..Len(a) : Append(a, Head(b))[i] = a[i]
      /\ Append(a, Head(b))[Len(a) + 1] = Head(b)
  BY <1>1, AppendProperties
<1> DEFINE x == Append(a, Head(b)) \o Tail(b)
           y == a \o b
<1>3. Len(a) \in Nat /\ Len(b) \in Nat \ {0} /\ Head(b) = b[1]
      /\ \A i \in 1..Len(b) - 1 : Tail(b)[i] = b[i + 1]
  BY HeadTailProperties
<1>4. x \in Seq(S) /\ y \in Seq(S) /\ Len(x) = Len(a) + Len(b) /\ Len(y) = Len(a) + Len(b)
  BY <1>1, <1>2, <1>3, ConcatProperties
<1>5. ASSUME NEW i \in 1..Len(a) + Len(b)
      PROVE  x[i] = y[i]
  <2>1. CASE i <= Len(a)
    BY <1>1, <1>2, <1>3, <2>1, ConcatProperties
  <2>2. CASE i = Len(a) + 1
    BY <1>1, <1>2, <1>3, <2>2, ConcatProperties
  <2>3. CASE i > Len(a) + 1
    BY <1>1, <1>2, <1>3, <2>3, ConcatProperties
  <2> QED
    BY <1>3, <2>1, <2>2, <2>3
<1> HIDE DEF x, y
<1>6. x = y
  BY <1>4, <1>5, SeqEqual
<1> QED
  BY <1>6 DEF x, y

LEMMA AppendToRight ==
    ASSUME NEW S, NEW a \in Seq(S), NEW b \in Seq(S), NEW m \in S
    PROVE  a \o Append(b, m) = Append(a \o b, m)
BY AppendIsConcat, ConcatAssociative, ConcatProperties

(* Members of the sequences of consumers.                                  *)
LEMMA InAppend ==
    ASSUME NEW S, NEW seq \in Seq(S), NEW e \in S, NEW s
    PROVE  /\ In(s, Append(seq, e)) <=> In(s, seq) \/ s = e
           /\ Distinct(seq) /\ ~In(e, seq) => Distinct(Append(seq, e))
<1>1. /\ Len(seq) \in Nat /\ Len(Append(seq, e)) = Len(seq) + 1
      /\ \A k \in 1..Len(seq) : Append(seq, e)[k] = seq[k]
      /\ Append(seq, e)[Len(seq) + 1] = e
  BY AppendProperties
<1>2. In(s, Append(seq, e)) <=> In(s, seq) \/ s = e
  BY <1>1 DEF In
<1>3. ASSUME Distinct(seq), ~In(e, seq), NEW j \in 1..Len(seq) + 1, NEW k \in 1..Len(seq) + 1,
             Append(seq, e)[j] = Append(seq, e)[k]
      PROVE  j = k
  BY <1>1, <1>3 DEF In, Distinct
<1> QED
  BY <1>1, <1>2, <1>3 DEF Distinct

LEMMA InTail ==
    ASSUME NEW S, NEW seq \in Seq(S), seq # <<>>, NEW s
    PROVE  /\ In(s, seq) <=> s = Head(seq) \/ In(s, Tail(seq))
           /\ Distinct(seq) => Distinct(Tail(seq)) /\ ~In(Head(seq), Tail(seq))
<1>1. /\ Len(seq) \in Nat \ {0} /\ Head(seq) = seq[1] /\ Len(Tail(seq)) = Len(seq) - 1
      /\ \A k \in 1..Len(seq) - 1 : Tail(seq)[k] = seq[k + 1]
  BY HeadTailProperties
<1>2. In(s, seq) => s = Head(seq) \/ In(s, Tail(seq))
  <2> SUFFICES ASSUME NEW k \in 1..Len(seq), seq[k] = s, k # 1
               PROVE  In(s, Tail(seq))
    BY <1>1 DEF In
  <2>1. k - 1 \in 1..Len(seq) - 1 /\ Tail(seq)[k - 1] = s
    BY <1>1
  <2> QED
    BY <1>1, <2>1 DEF In
<1>3. s = Head(seq) \/ In(s, Tail(seq)) => In(s, seq)
  BY <1>1 DEF In
<1>4. Distinct(seq) => Distinct(Tail(seq)) /\ ~In(Head(seq), Tail(seq))
  BY <1>1 DEF Distinct, In
<1> QED
  BY <1>2, <1>3, <1>4
-----------------------------------------------------------------------------
(* Slices read while they are appended to.                                 *)

LEMMA FrontOf ==
    ASSUME NEW S, NEW slice \in Seq(S), slice # <<>>
    PROVE  /\ Front(slice) \in Seq(S) /\ Len(Front(slice)) = Len(slice) - 1
           /\ \A k \in 1..Len(slice) - 1 : Front(slice)[k] = slice[k]
<1>1. Len(slice) \in Nat \ {0} /\ \A k \in 1..Len(slice) - 1 : slice[k] \in S
  BY ElementOfSeq
<1>2. SubSeq(slice, 1, Len(slice) - 1) = Front(slice)
  BY DEF Front
<1> QED
  BY <1>1, <1>2, SubSeqProperties

LEMMA RacySlice ==
    ASSUME NEW S, NEW slice \in Seq(S), NEW appending, NEW junk, appending => slice # <<>>,
           NEW x \in Racy(slice, appending, junk)
    PROVE  x \in Seq(S \cup {junk})
<1>1. CASE x = slice
  BY <1>1, SeqMonotonic
<1>2. CASE slice # <<>> /\ x = Front(slice)
  BY <1>2, FrontOf, SeqMonotonic
<1>3. CASE slice # <<>> /\ x = Append(Front(slice), junk)
  <2>1. Front(slice) \in Seq(S \cup {junk})
    BY <1>3, FrontOf, SeqMonotonic
  <2> QED
    BY <1>3, <2>1, AppendProperties
<1> QED
  BY <1>1, <1>2, <1>3 DEF Racy

-----------------------------------------------------------------------------
LEMMA TypeStep ==
    ASSUME TypeOK, Log, Roster, [Next]_vars
    PROVE  TypeOK'
<1> USE DEF TypeOK, vars, prodVars, subVars
<1>1. CASE UNCHANGED vars
  BY <1>1
<1>2. CASE Register \/ CloseProducer
  BY <1>2 DEF Register, CloseProducer
<1>3. CASE RegisterReturns
  BY <1>3 DEF RegisterReturns, BusStates
<1>4. CASE Send
  BY <1>4 DEF Send
<1>5. CASE Receive
  <2>1. Head(producer) \in Nat /\ Tail(producer) \in Seq(Nat)
    BY <1>5, HeadTailProperties DEF Receive
  <2>2. Append(history, Head(producer)) \in Seq(Nat)
    BY <2>1, AppendProperties
  <2> QED
    BY <1>5, <2>1, <2>2 DEF Receive, BusStates
<1>6. CASE Appended
  BY <1>6 DEF Appended, BusStates
<1>7. CASE RLock
  <2>1. consumers \in Seq(Subscribers \cup {NoChan})
    BY SeqMonotonic
  <2> QED
    BY <1>7, <2>1 DEF RLock, BusStates
<1>8. CASE Broadcast
  <2>1. Head(todo) \in Subscribers
    BY <1>8 DEF Broadcast, Roster
  <2>2. Append(chan[Head(todo)], msg) \in Seq(Nat)
    BY <2>1, AppendProperties
  <2>3. Tail(todo) \in Seq(Subscribers \cup {NoChan})
    BY <1>8, HeadTailProperties DEF Broadcast, Roster
  <2> QED
    BY <1>8, <2>2, <2>3 DEF Broadcast, BusStates
<1>9. CASE StartClosing
  <2> DEFINE appending == \E s \in Subscribers : sub[s] = "append"
  <2>1. appending => consumers # <<>>
    BY DEF Roster, In, Adding
  <2>2. todo' \in Racy(consumers, appending, NoChan)
    BY <1>9 DEF StartClosing
  <2> HIDE DEF appending
  <2>3. todo' \in Seq(Subscribers \cup {NoChan})
    BY <2>1, <2>2, RacySlice
  <2> QED
    BY <1>9, <2>3 DEF StartClosing, BusStates
<1>10. CASE CloseConsumer
  <2>1. Head(todo) \in Subscribers \cup {NoChan} /\ Tail(todo) \in Seq(Subscribers \cup {NoChan})
    BY <1>10, HeadTailProperties DEF CloseConsumer, Roster
  <2> QED
    BY <1>10, <2>1 DEF CloseConsumer, BusStates
<1>11. ASSUME NEW s \in Subscribers, Subscribe(s) PROVE TypeOK'
  BY <1>11 DEF Subscribe
<1>12. ASSUME NEW s \in Subscribers, Lock(s) PROVE TypeOK'
  <2>1. Append(consumers, s) \in Seq(Subscribers)
    BY AppendProperties
  <2> QED
    BY <1>12, <2>1 DEF Lock, Adding
<1>13. ASSUME NEW s \in Subscribers, RangeHistory(s) PROVE TypeOK'
  <2>1. PICK seen \in Racy(history, bus = "append", Torn) : replay' = [replay EXCEPT ![s] = seen]
    BY <1>13 DEF RangeHistory
  <2>2. bus = "append" => history # <<>>
    BY DEF Log, Underway
  <2>3. seen \in Seq(Nat \cup {Torn})
    BY <2>1, <2>2, RacySlice
  <2>4. Nat \cup {Torn} = Nat
    BY DEF Torn
  <2>5. seen \in Seq(Nat)
    BY <2>3, <2>4
  <2> QED
    BY <1>13, <2>1, <2>5 DEF RangeHistory, Adding
<1>14. ASSUME NEW s \in Subscribers, Replay(s) PROVE TypeOK'
  <2>1. Head(replay[s]) \in Nat /\ Tail(replay[s]) \in Seq(Nat)
    BY <1>14, HeadTailProperties DEF Replay
  <2>2. Append(chan[s], Head(replay[s])) \in Seq(Nat)
    BY <2>1, AppendProperties
  <2> QED
    BY <1>14, <2>1, <2>2 DEF Replay
<1>15. ASSUME NEW s \in Subscribers, SubscribeReturns(s) PROVE TypeOK'
  BY <1>15 DEF SubscribeReturns, Replaying
<1>16. ASSUME NEW s \in Subscribers, Consume(s) PROVE TypeOK'
  <2>1. Head(chan[s]) \in Nat /\ Tail(chan[s]) \in Seq(Nat)
    BY <1>16, HeadTailProperties DEF Consume
  <2>2. Append(got[s], Head(chan[s])) \in Seq(Nat)
    BY <2>1, AppendProperties
  <2> QED
    BY <1>16, <2>1, <2>2 DEF Consume
<1>17. ASSUME NEW s \in Subscribers, SeeClosed(s) PROVE TypeOK'
  BY <1>17 DEF SeeClosed, Replaying
<1> QED
  BY <1>1, <1>2, <1>3, <1>4, <1>5, <1>6, <1>7, <1>8, <1>9, <1>10, <1>11, <1>12, <1>13, <1>14,
     <1>15, <1>16, <1>17 DEF Next, Bus, Subscriber
-----------------------------------------------------------------------------
LEMMA LogStep ==
    ASSUME TypeOK, Log, Roster, [Next]_vars
    PROVE  Log'
<1> USE DEF vars, prodVars, subVars
<1>1. CASE UNCHANGED <<sent, producer, pclosed, history, bus, msg, closed, reg>>
  BY <1>1 DEF Log, Underway, Ending
<1>2. CASE UNCHANGED <<sent, producer, pclosed, history, msg, closed, reg>>
             /\ (bus' = "none" <=> bus = "none") /\ (Underway' => Underway) /\ (Ending' <=> Ending)
  BY <1>2 DEF Log
<1>3. CASE CloseProducer
  BY <1>3 DEF CloseProducer, Log, Underway, Ending
<1>4. CASE Send
  <2>1. ~Ending /\ UNCHANGED <<history, bus, msg, closed, pclosed, reg>>
    BY <1>4 DEF Send, Log
  <2>2. /\ producer' \in Seq(Nat) /\ Len(producer') = Len(producer) + 1
        /\ \A k \in 1..Len(producer) : producer'[k] = producer[k]
        /\ producer'[Len(producer) + 1] = sent + 1
    BY <1>4, AppendProperties DEF Send, TypeOK
  <2>3. /\ sent' = sent + 1 /\ sent = Len(history) + Len(producer)
        /\ Len(history) \in Nat /\ Len(producer) \in Nat
    BY <1>4 DEF Send, TypeOK, Log
  <2>4. \A k \in 1..Len(producer') : producer'[k] = Len(history) + k
    <3>1. \A k \in 1..Len(producer) : producer'[k] = Len(history) + k
      BY <2>2 DEF Log
    <3>2. producer'[Len(producer) + 1] = Len(history) + (Len(producer) + 1)
      BY <2>2, <2>3
    <3>3. \A k \in 1..Len(producer') : k \in 1..Len(producer) \/ k = Len(producer) + 1
      BY <2>2, <2>3
    <3> QED
      BY <3>1, <3>2, <3>3
  <2>5. sent' = Len(history) + Len(producer')
    BY <2>2, <2>3
  <2> QED
    BY <2>1, <2>4, <2>5 DEF Log, Underway, Ending
<1>5. CASE Receive
  <2>1. /\ producer # <<>> /\ producer' = Tail(producer) /\ history' = Append(history, Head(producer))
        /\ msg' = Head(producer) /\ bus' = "append" /\ bus = "recv"
        /\ UNCHANGED <<sent, pclosed, closed, reg>>
    BY <1>5 DEF Receive
  <2>2. /\ Head(producer) \in Nat /\ Head(producer) = producer[1]
        /\ Len(producer) \in Nat \ {0} /\ Len(producer') = Len(producer) - 1
        /\ \A k \in 1..Len(producer') : producer'[k] = producer[k + 1]
    BY <2>1, HeadTailProperties DEF TypeOK
  <2>3. Head(producer) = Len(history) + 1
    BY <2>2 DEF Log
  <2>4. /\ Len(history) \in Nat /\ Len(history') = Len(history) + 1
        /\ \A k \in 1..Len(history) : history'[k] = history[k]
        /\ history'[Len(history) + 1] = Head(producer)
    BY <2>1, <2>2, AppendProperties DEF TypeOK
  <2>5. \A k \in 1..Len(history') : history'[k] = k
    BY <2>3, <2>4 DEF Log
  <2>6. \A k \in 1..Len(producer') : producer'[k] = Len(history') + k
    <3> SUFFICES ASSUME NEW k \in 1..Len(producer')
                 PROVE  producer'[k] = Len(history') + k
      OBVIOUS
    <3>1. k + 1 \in 1..Len(producer) /\ producer'[k] = producer[k + 1]
      BY <2>2
    <3>2. producer[k + 1] = Len(history) + (k + 1)
      BY <3>1 DEF Log
    <3> QED
      BY <2>4, <3>1, <3>2
  <2>7. sent' = Len(history') + Len(producer')
    <3>1. sent' = Len(history) + Len(producer)
      BY <2>1 DEF Log
    <3>2. \A a \in Nat, b \in Nat \ {0} : a + b = (a + 1) + (b - 1)
      OBVIOUS
    <3> QED
      BY <2>2, <2>4, <3>1, <3>2
  <2>8. Underway' /\ ~Ending' /\ closed' = {} /\ bus' # "none" /\ reg' = "done"
    BY <2>1 DEF Underway, Ending, Log
  <2>9. Len(history') > 0 /\ msg' = Len(history')
    BY <2>1, <2>3, <2>4
  <2> QED
    BY <2>5, <2>6, <2>7, <2>8, <2>9 DEF Log
<1>6. CASE StartClosing
  <2>1. /\ Ending' /\ ~Underway' /\ pclosed' /\ producer' = <<>>
        /\ bus # "none" /\ bus' # "none"
    BY <1>6 DEF StartClosing, Ending, Underway
  <2> QED
    BY <1>6, <2>1 DEF StartClosing, Log
<1>7. CASE CloseConsumer
  <2>1. /\ Ending /\ Ending' /\ ~Underway' /\ bus # "none" /\ bus' # "none"
        /\ UNCHANGED <<sent, producer, pclosed, history, reg>>
    BY <1>7 DEF CloseConsumer, Ending, Underway
  <2> QED
    BY <2>1 DEF Log
<1>8. CASE RegisterReturns
  <2>1. /\ bus' = "recv" /\ reg' = "done" /\ reg # "done"
        /\ UNCHANGED <<sent, producer, pclosed, history, msg, closed>>
    BY <1>8 DEF RegisterReturns
  <2>2. ~Underway' /\ ~Ending' /\ ~Ending
    BY <2>1 DEF Underway, Ending, Log
  <2> QED
    BY <2>1, <2>2 DEF Log
<1>9. CASE Appended \/ RLock \/ Broadcast
  BY <1>2, <1>9 DEF Appended, RLock, Broadcast, Underway, Ending
<1>10. CASE Register
  BY <1>10 DEF Register, Log, Underway, Ending
<1>11. ASSUME NEW s \in Subscribers, Subscribe(s) \/ Subscriber(s)
       PROVE  UNCHANGED <<sent, producer, pclosed, history, bus, msg, closed, reg>>
  BY <1>11 DEF Subscribe, Subscriber, Lock, RangeHistory, Replay, SubscribeReturns, Consume,
               SeeClosed
<1> QED
  BY <1>1, <1>3, <1>4, <1>5, <1>6, <1>7, <1>8, <1>9, <1>10, <1>11 DEF Next, Bus
-----------------------------------------------------------------------------
LEMMA RosterStep ==
    ASSUME TypeOK, Log, Roster, [Next]_vars
    PROVE  Roster'
<1> USE DEF vars, prodVars, subVars
<1>1. CASE UNCHANGED <<consumers, sub, todo, bus>>
  BY <1>1 DEF Roster, Joined, WriteLocked
<1>2. ASSUME UNCHANGED <<consumers, sub>>, bus' \notin {"send", "close"}
      PROVE  Roster'
  BY <1>2 DEF Roster
<1>3. CASE RegisterReturns \/ Receive \/ Appended
  BY <1>2, <1>3 DEF RegisterReturns, Receive, Appended
<1>4. CASE RLock
  <2>1. CASE consumers = <<>>
    BY <1>2, <1>4, <2>1 DEF RLock
  <2>2. CASE consumers # <<>>
    <3>1. /\ todo' = consumers /\ bus' = "send" /\ ~WriteLocked
          /\ UNCHANGED <<consumers, sub>>
      BY <1>4, <2>2 DEF RLock
    <3>2. ASSUME NEW k \in 1..Len(consumers)
          PROVE  consumers[k] \in Subscribers /\ Joined(consumers[k])
      <4>1. consumers[k] \in Subscribers /\ In(consumers[k], consumers)
        BY ElementOfSeq DEF TypeOK, In
      <4>2. sub[consumers[k]] \in Adding \cup Replaying
        BY <4>1 DEF Roster
      <4> QED
        BY <3>1, <4>1, <4>2 DEF Joined, WriteLocked, Adding, Replaying
    <3> QED
      BY <2>2, <3>1, <3>2 DEF Roster, Joined, WriteLocked
  <2> QED
    BY <2>1, <2>2
<1>5. CASE Broadcast
  <2>1. UNCHANGED <<consumers, sub>> /\ todo' = Tail(todo) /\ bus = "send"
    BY <1>5 DEF Broadcast
  <2>2. /\ todo # <<>> /\ Distinct(todo) /\ ~WriteLocked
        /\ \A k \in 1..Len(todo) : todo[k] \in Subscribers /\ Joined(todo[k])
    BY <2>1 DEF Roster
  <2>3. /\ Len(todo) \in Nat \ {0} /\ Len(todo') = Len(todo) - 1
        /\ \A k \in 1..Len(todo') : todo'[k] = todo[k + 1]
    BY <2>1, <2>2, HeadTailProperties DEF TypeOK
  <2>4. Distinct(todo')
    BY <2>1, <2>2, InTail DEF TypeOK
  <2>5. ASSUME NEW k \in 1..Len(todo')
        PROVE  todo'[k] \in Subscribers /\ Joined(todo[k])'
    <3>1. k + 1 \in 1..Len(todo) /\ todo'[k] = todo[k + 1]
      BY <2>3
    <3>2. todo[k + 1] \in Subscribers /\ Joined(todo[k + 1])
      BY <2>2, <3>1
    <3> QED
      BY <2>1, <3>1, <3>2 DEF Joined
  <2>6. CASE Len(todo) = 1
    BY <1>2, <1>5, <2>1, <2>6 DEF Broadcast
  <2>7. CASE Len(todo) # 1
    <3>1. bus' = "send" /\ todo' # <<>>
      <4>1. Len(todo') # 0
        BY <2>3, <2>7
      <4>2. todo' # <<>>
        BY <4>1
      <4> QED
        BY <1>5, <2>7, <4>2 DEF Broadcast
    <3>2. ~WriteLocked'
      BY <2>1, <2>2 DEF WriteLocked
    <3> QED
      BY <2>1, <2>4, <2>5, <3>1, <3>2 DEF Roster
  <2> QED
    BY <2>6, <2>7
<1>6. CASE StartClosing
  BY <1>6 DEF StartClosing, Roster
<1>7. CASE CloseConsumer
  <2>1. UNCHANGED <<consumers, sub>> /\ todo' = Tail(todo) /\ todo # <<>>
    BY <1>7 DEF CloseConsumer, Roster
  <2>2. Len(todo) \in Nat \ {0} /\ Len(todo') = Len(todo) - 1
    BY <2>1, HeadTailProperties DEF TypeOK
  <2>3. bus' = "close" => todo' # <<>>
    <3>1. bus' = "close" => Len(todo) # 1
      BY <1>7 DEF CloseConsumer
    <3>2. Len(todo) # 1 => Len(todo') # 0
      BY <2>2
    <3>3. Len(todo') # 0 => todo' # <<>>
      OBVIOUS
    <3> QED
      BY <3>1, <3>2, <3>3
  <2> QED
    BY <1>7, <2>1, <2>3 DEF CloseConsumer, Roster
(* Subscribers that are no consumers, before and after the step.           *)
<1>8. ASSUME NEW s \in Subscribers, Subscribe(s) PROVE Roster'
  <2>1. UNCHANGED <<consumers, todo, bus>>
    BY <1>8 DEF Subscribe
  <2>2. \A t \in Subscribers :
           \/ sub'[t] = sub[t]
           \/ sub[t] \notin Adding \cup Replaying /\ sub'[t] \notin Adding \cup Replaying
    BY <1>8 DEF Subscribe, TypeOK, Adding, Replaying
  <2>3. \A t \in Subscribers : Joined(t) => sub'[t] = sub[t]
    BY <2>2 DEF Joined, Replaying
  <2>4. WriteLocked' => WriteLocked
    BY <2>2 DEF WriteLocked, Adding
  <2> QED
    BY <2>1, <2>2, <2>3, <2>4 DEF Roster, Joined
<1>9. ASSUME NEW s \in Subscribers, Lock(s) PROVE Roster'
  <2>1. /\ sub[s] = "lock" /\ bus # "send" /\ UNCHANGED <<bus, todo>>
        /\ consumers' = Append(consumers, s) /\ sub' = [sub EXCEPT ![s] = "append"]
    BY <1>9 DEF Lock, ReadLocked
  <2>2. ~In(s, consumers)
    BY <2>1 DEF Roster, Adding, Replaying
  <2>3. \A t \in Subscribers : In(t, consumers') <=> In(t, consumers) \/ t = s
    BY <2>1, InAppend DEF TypeOK
  <2>4. Distinct(consumers')
    BY <2>1, <2>2, InAppend DEF TypeOK, Roster
  <2>5. \A t \in Subscribers : In(t, consumers') <=> sub'[t] \in Adding \cup Replaying
    BY <2>1, <2>3 DEF Roster, TypeOK, Adding
  <2> QED
    BY <2>1, <2>4, <2>5 DEF Roster
(* Consumers that stay consumers.                                          *)
<1>10. ASSUME NEW s \in Subscribers, NEW to \in Replaying,
              sub' = [sub EXCEPT ![s] = to], UNCHANGED <<consumers, todo, bus>>,
              \/ bus # "send" /\ sub[s] \in Adding
              \/ Joined(s) /\ to = "eof"
       PROVE  Roster'
  <2>1. \A t \in Subscribers :
           sub'[t] \in Adding \cup Replaying <=> sub[t] \in Adding \cup Replaying
    BY <1>10 DEF TypeOK, Joined, Adding, Replaying
  <2>2. bus = "send" => \A t \in Subscribers : (Joined(t) => Joined(t)')
    BY <1>10 DEF TypeOK, Joined
  <2>3. bus = "send" /\ ~WriteLocked => ~WriteLocked'
    BY <1>10 DEF TypeOK, WriteLocked
  <2>4. \A t \in Subscribers : In(t, consumers') <=> sub'[t] \in Adding \cup Replaying
    BY <1>10, <2>1 DEF Roster
  <2>5. bus' = "send" => \A k \in 1..Len(todo') : todo'[k] \in Subscribers /\ Joined(todo[k])'
    BY <1>10, <2>2 DEF Roster, Joined
  <2> QED
    BY <1>10, <2>3, <2>4, <2>5 DEF Roster
<1>11. ASSUME NEW s \in Subscribers, RangeHistory(s) \/ SubscribeReturns(s)
       PROVE  Roster'
  <2>1. sub[s] \in Adding /\ UNCHANGED <<consumers, todo, bus>>
    BY <1>11 DEF RangeHistory, SubscribeReturns, Adding
  <2>2. bus # "send"
    BY <2>1 DEF Roster, WriteLocked, Adding
  <2> QED
    BY <1>10, <1>11, <2>1, <2>2 DEF RangeHistory, SubscribeReturns, Replaying
<1>12. ASSUME NEW s \in Subscribers, SeeClosed(s) PROVE Roster'
  BY <1>10, <1>12 DEF SeeClosed, Joined, Replaying
<1>13. ASSUME NEW s \in Subscribers, Replay(s) \/ Consume(s)
       PROVE  Roster'
  BY <1>1, <1>13 DEF Replay, Consume
<1>14. CASE Register \/ Send \/ CloseProducer
  BY <1>1, <1>14 DEF Register, Send, CloseProducer
<1> QED
  BY <1>1, <1>3, <1>4, <1>5, <1>6, <1>7, <1>8, <1>9, <1>11, <1>12, <1>13, <1>14
     DEF Next, Bus, Subscriber
-----------------------------------------------------------------------------
(* What a consumer is delivered.                                           *)

LEMMA ComingType ==
    ASSUME TypeOK, NEW s \in Subscribers
    PROVE  /\ Delivered(s) \in Seq(Nat) /\ Coming(s) \in Seq(Nat)
           /\ Len(Coming(s)) = Len(Delivered(s)) + Len(replay[s])
           /\ Len(Coming(s)) \in Nat /\ Len(Delivered(s)) \in Nat /\ Len(history) \in Nat
           /\ NextFor(s) \in Nat /\ Len(Delivered(s)) <= Len(Coming(s))
<1>1. got[s] \in Seq(Nat) /\ chan[s] \in Seq(Nat) /\ replay[s] \in Seq(Nat) /\ history \in Seq(Nat)
  BY DEF TypeOK
<1>2. Delivered(s) \in Seq(Nat)
  BY <1>1, ConcatProperties DEF Delivered
<1>3. Coming(s) \in Seq(Nat) /\ Len(Coming(s)) = Len(Delivered(s)) + Len(replay[s])
  BY <1>1, <1>2, ConcatProperties DEF Coming
<1> QED
  BY <1>1, <1>2, <1>3 DEF NextFor

(* A step that leaves alone what a subscriber has and is to get next.      *)
LEMMA ServedKept ==
    ASSUME TypeOK, TypeOK', NEW s \in Subscribers, Served(s),
           sub'[s] = sub[s], since'[s] = since[s], Len(history) <= Len(history'),
           got'[s] = got[s], chan'[s] = chan[s], replay'[s] = replay[s],
           sub[s] \in Replaying => NextFor(s)' = NextFor(s)
    PROVE  Served(s)'
<1>1. CASE sub[s] \in Replaying
  <2>1. PICK p \in Nat, o \in {0, 1} : Follows(s, p, o)
    BY <1>1 DEF Served
  <2>2. Coming(s)' = Coming(s)
    BY DEF Coming, Delivered
  <2>3. Len(history) \in Nat /\ Len(history') \in Nat
    BY DEF TypeOK
  <2>4. Shape(Coming(s)', p, o)
    BY <2>1, <2>2 DEF Follows
  <2>5. p <= Len(history')
    BY <2>1, <2>3 DEF Follows
  <2>6. Joined(s)' => p <= since'[s] /\ replay'[s] = <<>>
    BY <2>1 DEF Follows, Joined
  <2>7. Len(Coming(s)') + 1 = NextFor(s)' + o
    BY <1>1, <2>1, <2>2 DEF Follows
  <2>8. Follows(s, p, o)'
    BY <2>4, <2>5, <2>6, <2>7 DEF Follows
  <2> QED
    BY <1>1, <2>8 DEF Served
<1>2. CASE sub[s] \notin Replaying
  BY <1>2 DEF Served
<1> QED
  BY <1>1, <1>2

(* The same if the messages only move, from replay to chan to got.         *)
LEMMA ServedMoved ==
    ASSUME TypeOK, TypeOK', NEW s \in Subscribers, Served(s), UNCHANGED <<history, bus, todo>>,
           sub[s] \in Replaying, sub'[s] \in Replaying, Coming(s)' = Coming(s),
           Joined(s)' => /\ replay'[s] = <<>>
                         /\ (Joined(s) /\ since'[s] = since[s]) \/ since'[s] >= Len(history)
    PROVE  Served(s)'
<1>1. PICK p \in Nat, o \in {0, 1} : Follows(s, p, o)
  BY DEF Served
<1>2. NextFor(s)' = NextFor(s)
  BY DEF NextFor
<1>3. Len(history) \in Nat /\ since'[s] \in Nat
  BY DEF TypeOK
<1>4. Follows(s, p, o)'
  BY <1>1, <1>2, <1>3 DEF Follows, Shape
<1> QED
  BY <1>4 DEF Served

(* Steps of the goroutine that send nothing.                               *)
LEMMA BusQuiet ==
    ASSUME TypeOK, Log, Roster, NEW s \in Subscribers, sub[s] \in Replaying,
           RegisterReturns \/ Receive \/ Appended \/ RLock \/ StartClosing \/ CloseConsumer
    PROVE  NextFor(s)' = NextFor(s)
<1>1. CASE RegisterReturns
  BY <1>1 DEF RegisterReturns, Log, NextFor
<1>2. CASE Receive
  <2>1. Head(producer) \in Nat
    BY <1>2, HeadTailProperties DEF Receive, TypeOK
  <2>2. Len(history') = Len(history) + 1
    BY <1>2, <2>1, AppendProperties DEF Receive, TypeOK
  <2> QED
    BY <1>2, <2>2 DEF Receive, NextFor
<1>3. CASE Appended
  BY <1>3 DEF Appended, NextFor
<1>4. CASE RLock
  <2>1. In(s, consumers)
    BY DEF Roster
  <2>2. consumers # <<>>
    BY <2>1 DEF In
  <2>3. bus' = "send" /\ todo' = consumers /\ history' = history /\ bus = "rlock"
    BY <1>4, <2>2 DEF RLock
  <2> QED
    BY <2>1, <2>3 DEF NextFor
<1>5. CASE StartClosing
  BY <1>5 DEF StartClosing, NextFor
<1>6. CASE CloseConsumer
  BY <1>6 DEF CloseConsumer, NextFor
<1> QED
  BY <1>1, <1>2, <1>3, <1>4, <1>5, <1>6

(* consumer <- msg                                                         *)
LEMMA ServedBroadcast ==
    ASSUME TypeOK, TypeOK', Log, Roster, NEW s \in Subscribers, Served(s), Broadcast
    PROVE  Served(s)'
<1>1. /\ bus = "send" /\ todo # <<>> /\ Distinct(todo) /\ todo' = Tail(todo)
      /\ \A k \in 1..Len(todo) : todo[k] \in Subscribers /\ Joined(todo[k])
      /\ bus' = IF Len(todo) = 1 THEN "recv" ELSE "send"
      /\ chan' = [chan EXCEPT ![Head(todo)] = Append(@, msg)]
      /\ UNCHANGED <<history, sub, replay, since, got>>
  BY DEF Broadcast, Roster, subVars
<1>2. In(s, todo) <=> s = Head(todo) \/ In(s, todo')
  BY <1>1, InTail DEF TypeOK
<1>3. ~In(Head(todo), todo')
  BY <1>1, InTail DEF TypeOK
<1>4. /\ Len(todo) \in Nat \ {0} /\ Len(todo') = Len(todo) - 1 /\ Head(todo) = todo[1]
  BY <1>1, HeadTailProperties DEF TypeOK
<1>5. bus' = "recv" => ~In(s, todo')
  BY <1>1, <1>4 DEF In
<1>6. Head(todo) \in Subscribers /\ Joined(Head(todo))
  BY <1>1, <1>4
<1>7. NextFor(s)' = IF In(s, todo') THEN Len(history) ELSE Len(history) + 1
  BY <1>1, <1>5 DEF NextFor
<1>8. NextFor(s) = IF In(s, todo) THEN Len(history) ELSE Len(history) + 1
  BY <1>1 DEF NextFor
<1>9. CASE s # Head(todo)
  <2>1. NextFor(s)' = NextFor(s)
    BY <1>2, <1>7, <1>8, <1>9
  <2>2. chan'[s] = chan[s]
    BY <1>1, <1>9 DEF TypeOK
  <2>3. Len(history) <= Len(history')
    BY <1>1 DEF TypeOK
  <2> QED
    BY <1>1, <2>1, <2>2, <2>3, ServedKept
<1>10. CASE s = Head(todo)
  <2>1. sub[s] \in Replaying /\ Joined(s)
    BY <1>6, <1>10 DEF Joined, Replaying
  <2>2. PICK p \in Nat, o \in {0, 1} : Follows(s, p, o)
    BY <2>1 DEF Served
  <2>3. replay[s] = <<>>
    BY <2>1, <2>2 DEF Follows
  <2>4. /\ got[s] \in Seq(Nat) /\ chan[s] \in Seq(Nat) /\ msg \in Nat
        /\ chan'[s] = Append(chan[s], msg) /\ got'[s] = got[s] /\ replay'[s] = <<>>
    BY <1>1, <1>6, <1>10, <2>3 DEF TypeOK
  <2>5. Coming(s) = got[s] \o chan[s]
    BY <2>3, <2>4, ConcatProperties, ConcatEmptySeq DEF Coming, Delivered
  <2>6. Coming(s)' = got[s] \o Append(chan[s], msg)
    <3>1. got[s] \o Append(chan[s], msg) \in Seq(Nat)
      BY <2>4, AppendProperties, ConcatProperties
    <3> QED
      BY <2>4, <3>1, ConcatEmptySeq DEF Coming, Delivered
  <2>7. Coming(s)' = Append(Coming(s), msg)
    <3>1. got[s] \o Append(chan[s], msg) = Append(got[s] \o chan[s], msg)
      <4>1. \A a, b \in Seq(Nat) : \A m \in Nat : a \o Append(b, m) = Append(a \o b, m)
        BY AppendToRight
      <4> QED
        BY <2>4, <4>1, Zenon
    <3> QED
      BY <2>5, <2>6, <3>1
  <2> DEFINE x == Coming(s)
             y == Coming(s)'
  <2>8. /\ Len(x) \in Nat /\ Len(y) = Len(x) + 1
        /\ \A k \in 1..Len(x) : y[k] = x[k]
        /\ y[Len(x) + 1] = msg
    BY <2>4, <2>7, ComingType, AppendProperties
  <2>9. NextFor(s) = Len(history) /\ NextFor(s)' = Len(history) + 1 /\ Len(history) \in Nat
    BY <1>2, <1>3, <1>7, <1>8, <1>10 DEF TypeOK
  <2>10. msg = Len(history)
    BY <1>1 DEF Log, Underway
  <2>11. Shape(x, p, o) /\ Len(x) + 1 = Len(history) + o
    BY <2>2, <2>9 DEF Follows
  <2> HIDE DEF x, y
  <2>12. Len(x) + 1 - o = msg
    BY <2>8, <2>9, <2>10, <2>11
  <2>13. Shape(y, p, o)
    <3>1. p <= Len(y) /\ o <= p
      BY <2>8, <2>11 DEF Shape
    <3>2. ASSUME NEW k \in 1..p PROVE y[k] = k \/ (k = p /\ o = 1 /\ y[k] = Torn)
      BY <2>8, <2>11 DEF Shape
    <3>3. ASSUME NEW k \in (p + 1)..Len(y) PROVE y[k] = k - o
      <4>1. CASE k = Len(x) + 1
        BY <2>8, <2>12, <4>1
      <4>2. CASE k # Len(x) + 1
        BY <2>8, <2>11, <4>2 DEF Shape
      <4> QED
        BY <4>1, <4>2
    <3> QED
      BY <3>1, <3>2, <3>3 DEF Shape
  <2>14. Len(y) + 1 = NextFor(s)' + o
    BY <2>8, <2>9, <2>11
  <2>15. Follows(s, p, o)'
    BY <1>1, <2>2, <2>4, <2>13, <2>14 DEF Follows, Joined, y
  <2> QED
    BY <1>1, <2>1, <2>15 DEF Served
<1> QED
  BY <1>9, <1>10

(* range queue.history, while the goroutine may be appending to it.        *)
LEMMA ServedRange ==
    ASSUME TypeOK, TypeOK', Log, Roster, NEW s \in Subscribers, Served(s), RangeHistory(s)
    PROVE  Served(s)'
<1>1. PICK seen \in Racy(history, bus = "append", Torn) : replay' = [replay EXCEPT ![s] = seen]
  BY DEF RangeHistory
<1>2. /\ sub[s] = "append" /\ sub' = [sub EXCEPT ![s] = "replay"]
      /\ UNCHANGED <<history, bus, todo, got, chan>>
  BY DEF RangeHistory
<1>3. got[s] = <<>> /\ chan[s] = <<>>
  BY <1>2 DEF Served, Replaying
<1>4. bus # "send"
  BY <1>2 DEF Roster, WriteLocked
<1>5. replay'[s] = seen /\ seen \in Seq(Nat) /\ sub'[s] = "replay"
  BY <1>1, <1>2 DEF TypeOK
<1>6. Coming(s)' = seen
  <2>1. Delivered(s)' = <<>>
    BY <1>2, <1>3 DEF Delivered
  <2> QED
    BY <1>5, <2>1, ConcatEmptySeq DEF Coming
<1>7. history \in Seq(Nat) /\ Len(history) \in Nat /\ Len(seen) \in Nat
      /\ \A k \in 1..Len(history) : history[k] = k
  <2>1. history \in Seq(Nat)
    BY DEF TypeOK
  <2>2. Len(history) \in Nat /\ Len(seen) \in Nat /\ DOMAIN history = 1..Len(history)
    BY <1>5, <2>1
  <2> QED
    BY <2>1, <2>2 DEF Log
<1>8. NextFor(s)' = IF bus \in {"append", "rlock"} THEN Len(history) ELSE Len(history) + 1
  BY <1>2, <1>4 DEF NextFor
<1>9. bus \in {"append", "rlock"} => Len(history) > 0 /\ history # <<>>
  BY <1>7 DEF Log, Underway
<1>10. ASSUME NEW p \in Nat, NEW o \in {0, 1}, p = Len(seen), p <= Len(history), o <= p,
              p + 1 = NextFor(s)' + o,
              \A k \in 1..p : seen[k] = k \/ (k = p /\ o = 1 /\ seen[k] = Torn)
       PROVE  Served(s)'
  <2>1. Shape(seen, p, o)
    BY <1>10 DEF Shape
  <2>2. Follows(s, p, o)'
    BY <1>2, <1>5, <1>6, <1>10, <2>1 DEF Follows, Joined
  <2> QED
    BY <1>5, <2>2 DEF Served, Replaying
<1>11. CASE seen = history
  <2>1. CASE bus \in {"append", "rlock"}
    BY <1>7, <1>8, <1>9, <1>10, <1>11, <2>1
  <2>2. CASE bus \notin {"append", "rlock"}
    BY <1>7, <1>8, <1>10, <1>11, <2>2
  <2> QED
    BY <2>1, <2>2
<1>12. CASE bus = "append" /\ seen = Front(history)
  <2>0. /\ Len(Front(history)) = Len(history) - 1
        /\ \A k \in 1..Len(Front(history)) : Front(history)[k] = k
    <3>1. /\ Len(Front(history)) = Len(history) - 1
          /\ \A k \in 1..Len(history) - 1 : Front(history)[k] = history[k]
      BY <1>7, <1>9, <1>12, FrontOf
    <3>2. \A k \in 1..Len(history) - 1 : k \in 1..Len(history)
      BY <1>7
    <3> QED
      BY <1>7, <3>1, <3>2, Zenon
  <2>1. /\ Len(seen) = Len(history) - 1 /\ \A k \in 1..Len(seen) : seen[k] = k
    BY <1>12, <2>0, Zenon
  <2>2. Len(seen) + 1 = NextFor(s)' + 0 /\ Len(seen) <= Len(history) /\ 0 <= Len(seen)
    BY <1>7, <1>8, <1>12, <2>1
  <2> QED
    BY <1>7, <1>10, <2>1, <2>2
<1>13. CASE bus = "append" /\ seen = Append(Front(history), Torn)
  <2>1. /\ Front(history) \in Seq(Nat) /\ Len(Front(history)) = Len(history) - 1
        /\ \A k \in 1..Len(history) - 1 : Front(history)[k] = k
    <3>1. /\ Front(history) \in Seq(Nat) /\ Len(Front(history)) = Len(history) - 1
          /\ \A k \in 1..Len(history) - 1 : Front(history)[k] = history[k]
      BY <1>7, <1>9, <1>13, FrontOf
    <3>2. \A k \in 1..Len(history) - 1 : k \in 1..Len(history)
      BY <1>7
    <3> QED
      BY <1>7, <3>1, <3>2, Zenon
  <2>2. /\ Len(seen) = Len(history) /\ seen[Len(history)] = Torn
        /\ \A k \in 1..Len(history) - 1 : seen[k] = k
    <3>1. Torn \in Nat
      BY DEF Torn
    <3> QED
      BY <1>7, <1>13, <2>1, <3>1, AppendProperties
  <2> QED
    <3>1. Len(seen) + 1 = NextFor(s)' + 1 /\ Len(seen) <= Len(history) /\ 1 <= Len(seen)
      BY <1>7, <1>8, <1>9, <1>13, <2>2
    <3>2. \A k \in 1..Len(seen) : seen[k] = k \/ (k = Len(seen) /\ seen[k] = Torn)
      BY <1>7, <2>2
    <3> QED
      BY <1>7, <1>10, <3>1, <3>2
<1> QED
  BY <1>1, <1>11, <1>12, <1>13 DEF Racy

(* The other subscribers, in a step of s.                                  *)
LEMMA ServedOther ==
    ASSUME TypeOK, TypeOK', NEW s \in Subscribers, NEW t \in Subscribers \ {s}, Served(t),
           Subscribe(s) \/ Subscriber(s)
    PROVE  Served(t)'
<1>1. UNCHANGED <<history, bus, todo>>
  BY DEF Subscribe, Subscriber, Lock, RangeHistory, Replay, SubscribeReturns, Consume, SeeClosed
<1>2. NextFor(t)' = NextFor(t) /\ Len(history) <= Len(history')
  BY <1>1 DEF NextFor, TypeOK
<1>3. /\ sub'[t] = sub[t] /\ since'[t] = since[t] /\ got'[t] = got[t]
      /\ chan'[t] = chan[t] /\ replay'[t] = replay[t]
  <2> USE DEF TypeOK, subVars
  <2>1. CASE Subscribe(s)
    BY <2>1 DEF Subscribe
  <2>2. CASE Lock(s) \/ RangeHistory(s)
    BY <2>2 DEF Lock, RangeHistory
  <2>3. CASE Replay(s)
    BY <2>3 DEF Replay
  <2>4. CASE SubscribeReturns(s)
    BY <2>4 DEF SubscribeReturns
  <2>5. CASE Consume(s)
    BY <2>5 DEF Consume
  <2>6. CASE SeeClosed(s)
    BY <2>6 DEF SeeClosed
  <2> QED
    BY <2>1, <2>2, <2>3, <2>4, <2>5, <2>6 DEF Subscriber
<1> QED
  BY <1>2, <1>3, ServedKept

LEMMA ServedReplay ==
    ASSUME TypeOK, TypeOK', NEW s \in Subscribers, Served(s), Replay(s), panic' = "no"
    PROVE  Served(s)'
<1>1. /\ sub[s] = "replay" /\ replay[s] # <<>> /\ UNCHANGED <<history, bus, todo, sub, since, got>>
      /\ replay' = [replay EXCEPT ![s] = Tail(@)]
      /\ chan' = [chan EXCEPT ![s] = Append(@, Head(replay[s]))]
  BY DEF Replay
<1>2. /\ got[s] \in Seq(Nat) /\ chan[s] \in Seq(Nat) /\ replay[s] \in Seq(Nat)
      /\ replay'[s] = Tail(replay[s]) /\ chan'[s] = Append(chan[s], Head(replay[s]))
      /\ got'[s] = got[s] /\ sub'[s] = sub[s]
  BY <1>1 DEF TypeOK
<1>3. Head(replay[s]) \in Nat
  BY <1>1, <1>2, HeadTailProperties
<1>4. got[s] \o Append(chan[s], Head(replay[s])) = Append(Delivered(s), Head(replay[s]))
  <2>1. \A a, b \in Seq(Nat) : \A m \in Nat : a \o Append(b, m) = Append(a \o b, m)
    BY AppendToRight
  <2> QED
    BY <1>2, <1>3, <2>1, Zenon DEF Delivered
<1>5. Append(Delivered(s), Head(replay[s])) \o Tail(replay[s]) = Coming(s)
  <2>1. \A a, b \in Seq(Nat) : b # <<>> => Append(a, Head(b)) \o Tail(b) = a \o b
    BY MoveFirst
  <2>2. Delivered(s) \in Seq(Nat)
    BY ComingType
  <2> QED
    BY <1>1, <1>2, <2>1, <2>2, Zenon DEF Coming
<1>6. Coming(s)' = Coming(s)
  BY <1>2, <1>4, <1>5 DEF Coming, Delivered
<1> QED
  BY <1>1, <1>2, <1>6, ServedMoved DEF Joined, Replaying

LEMMA ServedReturns ==
    ASSUME TypeOK, TypeOK', Log, NEW s \in Subscribers, Served(s), SubscribeReturns(s)
    PROVE  Served(s)'
<1>1. /\ sub[s] = "replay" /\ replay[s] = <<>> /\ sub'[s] = "reading" /\ since'[s] = sent
      /\ UNCHANGED <<history, bus, todo, replay, chan, got>>
  BY DEF SubscribeReturns, TypeOK
<1>2. Coming(s)' = Coming(s)
  BY <1>1 DEF Coming, Delivered
<1>3. sent >= Len(history)
  BY DEF TypeOK, Log
<1> QED
  BY <1>1, <1>2, <1>3, ServedMoved DEF Joined, Replaying

LEMMA ServedConsume ==
    ASSUME TypeOK, TypeOK', NEW s \in Subscribers, Served(s), Consume(s)
    PROVE  Served(s)'
<1>1. /\ sub[s] = "reading" /\ chan[s] # <<>> /\ UNCHANGED <<history, bus, todo, sub, replay, since>>
      /\ got' = [got EXCEPT ![s] = Append(@, Head(chan[s]))]
      /\ chan' = [chan EXCEPT ![s] = Tail(@)]
  BY DEF Consume, subVars
<1>2. /\ got[s] \in Seq(Nat) /\ chan[s] \in Seq(Nat)
      /\ got'[s] = Append(got[s], Head(chan[s])) /\ chan'[s] = Tail(chan[s])
  BY <1>1 DEF TypeOK
<1>3. Append(got[s], Head(chan[s])) \o Tail(chan[s]) = got[s] \o chan[s]
  <2>1. \A a, b \in Seq(Nat) : b # <<>> => Append(a, Head(b)) \o Tail(b) = a \o b
    BY MoveFirst
  <2> QED
    BY <1>1, <1>2, <2>1, Zenon
<1>4. Coming(s)' = Coming(s)
  BY <1>1, <1>2, <1>3 DEF Coming, Delivered
<1>5. replay[s] = <<>>
  BY <1>1 DEF Served, Follows, Joined, Replaying
<1> QED
  BY <1>1, <1>4, <1>5, ServedMoved DEF Joined, Replaying

LEMMA ServedSeesClosed ==
    ASSUME TypeOK, TypeOK', NEW s \in Subscribers, Served(s), SeeClosed(s)
    PROVE  Served(s)'
<1>1. /\ sub[s] = "reading" /\ sub'[s] = "eof"
      /\ UNCHANGED <<history, bus, todo, replay, since, chan, got>>
  BY DEF SeeClosed, TypeOK
<1>2. Coming(s)' = Coming(s)
  BY <1>1 DEF Coming, Delivered
<1>3. replay[s] = <<>>
  BY <1>1 DEF Served, Follows, Joined, Replaying
<1> QED
  BY <1>1, <1>2, <1>3, ServedMoved DEF Joined, Replaying

LEMMA DeliveriesStep ==
    ASSUME TypeOK, TypeOK', Log, Roster, Deliveries, [Next]_vars, panic' = "no"
    PROVE  Deliveries'
<1> SUFFICES ASSUME NEW s \in Subscribers PROVE Served(s)'
  BY DEF Deliveries
<1>0. Served(s) /\ Len(history) \in Nat /\ Len(history') \in Nat
  <2>1. history \in Seq(Nat) /\ history' \in Seq(Nat)
    BY Zenon DEF TypeOK
  <2>2. Served(s)
    BY Zenon DEF Deliveries
  <2> QED
    BY <2>1, <2>2
<1>1. CASE UNCHANGED <<history, bus, todo, sub, replay, since, chan, got>>
  <2>1. NextFor(s)' = NextFor(s) /\ Len(history) <= Len(history')
    BY <1>0, <1>1 DEF NextFor
  <2> QED
    BY <1>0, <1>1, <2>1, ServedKept
<1>2. CASE UNCHANGED vars \/ Register \/ Send \/ CloseProducer
  BY <1>1, <1>2 DEF Register, Send, CloseProducer, vars, subVars
<1>3. CASE RegisterReturns \/ Receive \/ Appended \/ RLock \/ StartClosing \/ CloseConsumer
  <2>1. UNCHANGED <<sub, replay, since, chan, got>>
    BY <1>3 DEF RegisterReturns, Receive, Appended, RLock, StartClosing, CloseConsumer, subVars
  <2>2. sub[s] \in Replaying => NextFor(s)' = NextFor(s)
    BY <1>3, BusQuiet
  <2>3. Len(history) <= Len(history')
    <3>1. CASE Receive
      <4>1. Head(producer) \in Nat
        BY <3>1, HeadTailProperties DEF Receive, TypeOK
      <4> QED
        BY <1>0, <3>1, <4>1, AppendProperties DEF Receive, TypeOK
    <3>2. CASE ~Receive
      <4>1. UNCHANGED history
        BY <1>3, <3>2 DEF RegisterReturns, Appended, RLock, StartClosing, CloseConsumer
      <4> QED
        BY <1>0, <4>1
    <3> QED
      BY <3>1, <3>2
  <2> QED
    BY <1>0, <2>1, <2>2, <2>3, ServedKept
<1>4. CASE Broadcast
  BY <1>0, <1>4, ServedBroadcast
<1>5. ASSUME NEW t \in Subscribers, Subscribe(t) \/ Subscriber(t)
      PROVE  Served(s)'
  <2>1. CASE t # s
    BY <1>0, <1>5, <2>1, ServedOther
  <2>2. CASE Subscribe(s) \/ Lock(s)
    <3>1. UNCHANGED <<got, chan, replay>> /\ sub[s] \notin Replaying /\ sub'[s] \notin Replaying
      BY <2>2 DEF Subscribe, Lock, TypeOK, Replaying
    <3> QED
      BY <1>0, <3>1 DEF Served
  <2>3. CASE RangeHistory(s)
    BY <1>0, <2>3, ServedRange
  <2>4. CASE Replay(s)
    BY <1>0, <2>4, ServedReplay
  <2>5. CASE SubscribeReturns(s)
    BY <1>0, <2>5, ServedReturns
  <2>6. CASE Consume(s)
    BY <1>0, <2>6, ServedConsume
  <2>7. CASE SeeClosed(s)
    BY <1>0, <2>7, ServedSeesClosed
  <2> QED
    BY <1>5, <2>1, <2>2, <2>3, <2>4, <2>5, <2>6, <2>7 DEF Subscriber
<1> QED
  BY <1>2, <1>3, <1>4, <1>5 DEF Next, Bus

LEMMA EndedStep ==
    ASSUME TypeOK, Ended, [Next]_vars
    PROVE  Ended'
<1>1. CASE closed \subseteq closed' /\ sub' = sub
  BY <1>1 DEF Ended
<1>2. CASE UNCHANGED vars \/ Register \/ RegisterReturns \/ Send \/ CloseProducer
  BY <1>1, <1>2
     DEF vars, subVars, Register, RegisterReturns, Send, CloseProducer
<1>3. CASE Receive \/ Appended \/ RLock \/ Broadcast \/ StartClosing
  BY <1>1, <1>3 DEF subVars, Receive, Appended, RLock, Broadcast, StartClosing
<1>4. CASE CloseConsumer
  BY <1>1, <1>4 DEF subVars, CloseConsumer
<1>5. ASSUME NEW s \in Subscribers, Subscribe(s) \/ Lock(s) \/ RangeHistory(s)
      PROVE  Ended'
  BY <1>5 DEF Subscribe, Lock, RangeHistory, Ended, TypeOK
<1>6. ASSUME NEW s \in Subscribers, Replay(s) \/ Consume(s)
      PROVE  Ended'
  BY <1>1, <1>6 DEF subVars, Replay, Consume
<1>7. ASSUME NEW s \in Subscribers, SubscribeReturns(s) \/ SeeClosed(s)
      PROVE  Ended'
  BY <1>7 DEF SubscribeReturns, SeeClosed, Ended, TypeOK
<1> QED
  BY <1>2, <1>3, <1>4, <1>5, <1>6, <1>7 DEF Next, Bus, Subscriber
-----------------------------------------------------------------------------
(* What the two numbers say of a sequence of deliveries.                   *)

FoundBy(seq, m, n) == \E j \in 1..Len(seq) : seq[j] = m /\ j <= n

(* A message is found, at its own place or, if the one there is torn, at   *)
(* the next.                                                               *)
LEMMA ShapeFinds ==
    ASSUME NEW seq \in Seq(Nat), NEW p \in Nat, NEW o \in {0, 1}, Shape(seq, p, o),
           NEW m \in Nat \ {0}, m + o <= Len(seq)
    PROVE  FoundBy(seq, m, m + o)
<1> SUFFICES \E j \in 1..Len(seq) : seq[j] = m /\ j <= m + o
  BY Zenon DEF FoundBy
<1>1. Len(seq) \in Nat /\ p <= Len(seq)
  BY DEF Shape
<1>2. CASE m <= p /\ seq[m] = m
  BY <1>1, <1>2
<1>3. CASE m <= p /\ seq[m] # m
  <2>1. m = p /\ o = 1
    BY <1>3 DEF Shape
  <2>2. seq[m + 1] = m /\ m + 1 \in 1..Len(seq)
    BY <1>1, <2>1 DEF Shape
  <2> QED
    BY <2>1, <2>2
<1>4. CASE m > p
  <2>1. m + o \in (p + 1)..Len(seq)
    BY <1>1, <1>4
  <2>2. seq[m + o] = m
    BY <2>1 DEF Shape
  <2> QED
    BY <1>1, <2>1, <2>2
<1> QED
  BY <1>2, <1>3, <1>4

(* Before a message, all earlier ones.                                     *)
LEMMA ShapeOrdered ==
    ASSUME NEW seq \in Seq(Nat), NEW p \in Nat, NEW o \in {0, 1}, Shape(seq, p, o),
           NEW k \in 1..Len(seq), NEW m \in 1..(seq[k] - 1)
    PROVE  \E j \in 1..Len(seq) : seq[j] = m /\ j < k
<1>1. Len(seq) \in Nat /\ p <= Len(seq) /\ seq[k] \in Nat
  BY ElementOfSeq DEF Shape
<1>2. CASE k <= p
  <2>1. seq[k] = k
    BY <1>1, <1>2 DEF Shape, Torn
  <2>2. m \in 1..p /\ m # p /\ m < k
    BY <1>2, <2>1
  <2>3. seq[m] = m
    BY <2>2 DEF Shape
  <2> QED
    BY <1>1, <2>2, <2>3
<1>3. CASE k > p
  <2>1. seq[k] = k - o
    BY <1>1, <1>3 DEF Shape
  <2>2. m \in Nat \ {0} /\ m + o < k /\ m + o <= Len(seq)
    BY <1>1, <2>1
  <2>3. PICK j \in 1..Len(seq) : seq[j] = m /\ j <= m + o
    BY <2>2, ShapeFinds, Zenon DEF FoundBy
  <2> QED
    BY <1>1, <2>2, <2>3
<1> QED
  BY <1>1, <1>2, <1>3

(* Only once the messages that are not replayed.                           *)
LEMMA ShapeOnce ==
    ASSUME NEW seq \in Seq(Nat), NEW p \in Nat, NEW o \in {0, 1}, Shape(seq, p, o),
           NEW m \in Nat, m > p, NEW k \in 1..Len(seq), seq[k] = m
    PROVE  k = m + o
<1>1. Len(seq) \in Nat
  OBVIOUS
<1>2. k > p
  BY <1>1 DEF Shape, Torn
<1>3. seq[k] = k - o
  BY <1>1, <1>2 DEF Shape
<1> QED
  BY <1>1, <1>3

(* A consumer that has its channel.                                        *)
LEMMA JoinedShape ==
    ASSUME TypeOK, Deliveries, NEW s \in Subscribers, Joined(s)
    PROVE  \E p \in Nat, o \in {0, 1} :
              /\ Shape(Delivered(s), p, o) /\ p <= since[s]
              /\ Len(Delivered(s)) + 1 = NextFor(s) + o
<1>1. PICK p \in Nat, o \in {0, 1} : Follows(s, p, o)
  BY DEF Deliveries, Served, Joined, Replaying
<1>2. replay[s] = <<>>
  BY <1>1 DEF Follows
<1>3. Coming(s) = Delivered(s)
  BY <1>2, ComingType, ConcatEmptySeq DEF Coming
<1> QED
  BY <1>1, <1>3 DEF Follows

LEMMA JoinedHas ==
    ASSUME TypeOK, Deliveries, NEW s \in Subscribers, Joined(s),
           NEW m \in Nat \ {0}, m < NextFor(s)
    PROVE  Places(s, m) # {}
<1>1. PICK p \in Nat, o \in {0, 1} :
         Shape(Delivered(s), p, o) /\ Len(Delivered(s)) + 1 = NextFor(s) + o
  BY JoinedShape
<1>2. Delivered(s) \in Seq(Nat) /\ Len(Delivered(s)) \in Nat /\ NextFor(s) \in Nat
  BY ComingType
<1>3. m + o <= Len(Delivered(s))
  BY <1>1, <1>2
<1>4. PICK j \in 1..Len(Delivered(s)) : Delivered(s)[j] = m
  <2> DEFINE seq == Delivered(s)
  <2>1. seq \in Seq(Nat) /\ Shape(seq, p, o) /\ m + o <= Len(seq)
    BY <1>1, <1>2, <1>3, Zenon
  <2> HIDE DEF seq
  <2>2. FoundBy(seq, m, m + o)
    BY <2>1, ShapeFinds, Zenon
  <2> QED
    BY <2>2, Zenon DEF FoundBy, seq
<1>5. j \in DOMAIN Delivered(s)
  BY <1>2
<1> QED
  BY <1>4, <1>5 DEF Places

LEMMA Consequences ==
    ASSUME TypeOK, Log, Ended, Deliveries
    PROVE  Correct
<1>1. NothingMissed
  <2> SUFFICES ASSUME NEW s \in Subscribers, Joined(s), NEW k \in DOMAIN history,
                      k < Len(history) \/ bus \in {"recv", "close", "exited"}
               PROVE  Places(s, history[k]) # {}
    BY DEF NothingMissed
  <2>0. history \in Seq(Nat) /\ \A i \in 1..Len(history) : history[i] = i
    BY DEF TypeOK, Log
  <2>1. Len(history) \in Nat /\ k \in 1..Len(history) /\ history[k] = k
    BY <2>0
  <2>2. k < NextFor(s)
    BY <2>1 DEF NextFor
  <2> QED
    BY <2>1, <2>2, JoinedHas
<1>2. InOrder
  <2> SUFFICES ASSUME NEW s \in Subscribers, NEW k \in DOMAIN Delivered(s),
                      NEW m \in 1..(Delivered(s)[k] - 1)
               PROVE  \E j \in Places(s, m) : j < k
    BY DEF InOrder
  <2>1. /\ Delivered(s) \in Seq(Nat) /\ Coming(s) \in Seq(Nat) /\ replay[s] \in Seq(Nat)
        /\ Len(Delivered(s)) \in Nat /\ Len(Coming(s)) \in Nat
        /\ Len(Delivered(s)) <= Len(Coming(s)) /\ k \in 1..Len(Delivered(s))
    <3>1. /\ Delivered(s) \in Seq(Nat) /\ Coming(s) \in Seq(Nat)
          /\ Len(Delivered(s)) \in Nat /\ Len(Coming(s)) \in Nat
          /\ Len(Delivered(s)) <= Len(Coming(s))
      BY ComingType
    <3>2. replay[s] \in Seq(Nat)
      BY DEF TypeOK
    <3>3. DOMAIN Delivered(s) = 1..Len(Delivered(s))
      BY <3>1
    <3> QED
      BY <3>1, <3>2, <3>3
  <2>2. \A j \in 1..Len(Delivered(s)) : Coming(s)[j] = Delivered(s)[j]
    BY <2>1, ConcatProperties DEF Coming
  <2>3. sub[s] \in Replaying
    <3>1. CASE sub[s] \notin Replaying
      <4>1. Delivered(s) = <<>>
        BY <3>1 DEF Deliveries, Served, Delivered
      <4> QED
        BY <2>1, <4>1
    <3> QED
      BY <3>1
  <2>4. PICK p \in Nat, o \in {0, 1} : Shape(Coming(s), p, o)
    BY <2>3 DEF Deliveries, Served, Follows
  <2>5. k \in 1..Len(Coming(s)) /\ m \in 1..(Coming(s)[k] - 1)
    BY <2>1, <2>2
  <2>6. PICK j \in 1..Len(Coming(s)) : Coming(s)[j] = m /\ j < k
    BY <2>1, <2>4, <2>5, ShapeOrdered
  <2>7. j \in 1..Len(Delivered(s)) /\ Delivered(s)[j] = m
    <3>1. j \in 1..Len(Delivered(s))
      BY <2>1, <2>6
    <3> QED
      BY <2>2, <2>6, <3>1, Zenon
  <2>8. j \in DOMAIN Delivered(s)
    BY <2>1, <2>7
  <2> QED
    BY <2>6, <2>7, <2>8 DEF Places
<1>3. OneDuplicate
  <2> SUFFICES ASSUME NEW s \in Subscribers
               PROVE  Len(Delivered(s)) <= Len(history) + 1
    BY DEF OneDuplicate
  <2>1. /\ Len(Delivered(s)) \in Nat /\ Len(Coming(s)) \in Nat /\ Len(history) \in Nat
        /\ Len(Delivered(s)) <= Len(Coming(s)) /\ NextFor(s) <= Len(history) + 1
        /\ NextFor(s) \in Nat
    <3>1. NextFor(s) \in Nat /\ Len(history) \in Nat
      BY ComingType
    <3>2. NextFor(s) <= Len(history) + 1
      BY <3>1 DEF NextFor
    <3> QED
      BY <3>1, <3>2, ComingType
  <2>2. CASE sub[s] \notin Replaying
    <3>1. Delivered(s) = <<>>
      BY <2>2 DEF Deliveries, Served, Delivered
    <3> QED
      BY <2>1, <3>1
  <2>3. CASE sub[s] \in Replaying
    <3>1. PICK o \in {0, 1} : Len(Coming(s)) + 1 = NextFor(s) + o
      BY <2>3 DEF Deliveries, Served, Follows
    <3> QED
      BY <2>1, <3>1
  <2> QED
    BY <2>2, <2>3
<1>4. RealtimeOnce
  <2> SUFFICES ASSUME NEW s \in Subscribers, Joined(s), NEW m \in (since[s] + 1)..MaxMsgs,
                      NEW j \in Places(s, m), NEW k \in Places(s, m)
               PROVE  j = k
    BY DEF RealtimeOnce
  <2>1. Delivered(s) \in Seq(Nat) /\ since[s] \in Nat /\ MaxMsgs \in Nat
    BY ComingType, BusAssumption DEF TypeOK
  <2>2. /\ j \in 1..Len(Delivered(s)) /\ Delivered(s)[j] = m
        /\ k \in 1..Len(Delivered(s)) /\ Delivered(s)[k] = m
    BY <2>1 DEF Places
  <2>3. PICK p \in Nat, o \in {0, 1} : Shape(Delivered(s), p, o) /\ p <= since[s]
    BY JoinedShape
  <2>4. m \in Nat /\ m > p
    BY <2>1, <2>3
  <2>5. j = m + o
    BY <2>1, <2>2, <2>3, <2>4, ShapeOnce
  <2>6. k = m + o
    BY <2>1, <2>2, <2>3, <2>4, ShapeOnce
  <2> QED
    BY <2>5, <2>6
<1>5. EofComplete
  <2> SUFFICES ASSUME NEW s \in Subscribers, sub[s] = "eof", NEW m \in 1..sent
               PROVE  Places(s, m) # {}
    BY DEF EofComplete
  <2>1. Ending
    BY DEF Ended, Log
  <2>2. producer = <<>> /\ sent = Len(history) + Len(producer) /\ Len(history) \in Nat
    BY <2>1 DEF Log, TypeOK
  <2>3. sent = Len(history)
    BY <2>2
  <2>4. m \in Nat \ {0} /\ m < NextFor(s)
    BY <2>1, <2>2, <2>3 DEF NextFor, Ending
  <2> QED
    BY <2>4, JoinedHas DEF Joined
<1> QED
  BY <1>1, <1>2, <1>3, <1>4, <1>5 DEF Correct

(* A step that delivers nothing.                                           *)
LEMMA CorrectKept ==
    ASSUME Correct, UNCHANGED <<history, sub, since, sent, chan, got>>, bus' = bus \/ bus = "close"
    PROVE  Correct'
<1>1. \A s : Delivered(s)' = Delivered(s) /\ (Joined(s)' <=> Joined(s))
  BY DEF Delivered, Joined
<1>2. \A s, m : Places(s, m)' = Places(s, m)
  BY <1>1 DEF Places
<1>3. NothingMissed'
  BY <1>1, <1>2 DEF Correct, NothingMissed
<1>4. InOrder' /\ OneDuplicate' /\ RealtimeOnce' /\ EofComplete'
  BY <1>1, <1>2 DEF Correct, InOrder, OneDuplicate, RealtimeOnce, EofComplete
<1> QED
  BY <1>3, <1>4 DEF Correct

(* The process goes down.                                                  *)
LEMMA PanicStep ==
    ASSUME Correct, Next, panic' # "no"
    PROVE  Correct'
<1>1. /\ UNCHANGED <<history, sub, since, sent, chan, got>>
      /\ bus' = bus \/ bus = "close"
  <2>1. panic = "no"
    BY DEF Next
  <2>2. CASE Register \/ RegisterReturns \/ Send \/ CloseProducer
    BY <2>1, <2>2 DEF Register, RegisterReturns, Send, CloseProducer
  <2>3. CASE Receive \/ Appended \/ RLock \/ Broadcast \/ StartClosing
    BY <2>1, <2>3 DEF Receive, Appended, RLock, Broadcast, StartClosing
  <2>4. CASE CloseConsumer
    BY <2>4 DEF CloseConsumer, prodVars, subVars
  <2>5. ASSUME NEW s \in Subscribers, Subscribe(s)
        PROVE  UNCHANGED <<history, sub, since, sent, chan, got, bus>>
    BY <2>1, <2>5 DEF Subscribe, prodVars
  <2>6. ASSUME NEW s \in Subscribers, Replay(s)
        PROVE  UNCHANGED <<history, sub, since, sent, chan, got, bus>>
    BY <2>1, <2>6 DEF Replay, prodVars
  <2>7. ASSUME NEW s \in Subscribers, \/ Lock(s) \/ RangeHistory(s) \/ SubscribeReturns(s)
                                      \/ Consume(s) \/ SeeClosed(s)
        PROVE  FALSE
    BY <2>1, <2>7 DEF Lock, RangeHistory, SubscribeReturns, Consume, SeeClosed
  <2> QED
    BY <2>2, <2>3, <2>4, <2>5, <2>6, <2>7 DEF Next, Bus, Subscriber
<1> QED
  BY <1>1, CorrectKept
-----------------------------------------------------------------------------
LEMMA InvHolds == Spec => []Inv
<1>1. Init => Inv
  <2> SUFFICES ASSUME Init PROVE Inv
    OBVIOUS
  <2>1. TypeOK
    BY DEF Init, TypeOK, Torn, BusStates
  <2>2. Log /\ Roster /\ Ended
    BY DEF Init, Log, Roster, Ended, Underway, Ending, In, Distinct, Adding, Replaying
  <2>3. Deliveries
    BY DEF Init, Deliveries, Served, Replaying
  <2> QED
    BY <2>1, <2>2, <2>3, Consequences DEF Inv
<1>2. TypeOK /\ Log /\ Ended /\ Deliveries => Correct
  BY Consequences
<1>3. Inv /\ [Next]_vars => Inv'
  <2> SUFFICES ASSUME Inv, [Next]_vars PROVE Inv'
    OBVIOUS
  <2>1. TypeOK' /\ Log' /\ Roster' /\ Ended'
    BY TypeStep, LogStep, RosterStep, EndedStep DEF Inv
  <2>2. CASE panic' = "no"
    <3>1. panic = "no"
      BY <2>2 DEF Next, vars
    <3>2. Deliveries'
      BY <2>1, <2>2, <3>1, DeliveriesStep DEF Inv
    <3>3. Correct'
      BY <1>2, <2>1, <3>2, PTL
    <3> QED
      BY <2>1, <3>2, <3>3 DEF Inv
  <2>3. CASE panic' # "no" /\ Next
    BY <2>1, <2>3, PanicStep DEF Inv
  <2>4. CASE UNCHANGED vars
    <3>1. Correct'
      BY <2>4, CorrectKept DEF Inv, vars, subVars, prodVars
    <3>2. Deliveries' <=> Deliveries
      BY <2>4 DEF Deliveries, Served, Follows, Coming, NextFor, Delivered, Joined, vars, subVars,
             prodVars
    <3> QED
      BY <2>1, <2>4, <3>1, <3>2 DEF Inv, vars
  <2> QED
    BY <2>2, <2>3, <2>4
<1> QED
  BY <1>1, <1>3, PTL DEF Spec

(* Every consumer of a key has every message the goroutine of Register is  *)
(* done with, from the replay in Subscribe, from the broadcast or both.    *)
THEOREM NoMessageMissed == Spec => []NothingMissed
BY InvHolds, PTL DEF Inv, Correct

(* The replay by Subscribe and the broadcast by the goroutine of Register  *)
(* are never mixed up: a message follows all the earlier ones.             *)
THEOREM DeliveredInOrder == Spec => []InOrder
BY InvHolds, PTL DEF Inv, Correct

(* At most one message is delivered twice, or torn and then whole, to a    *)
(* consumer, however many are sent.                                        *)
THEOREM OneDuplicateOnly == Spec => []OneDuplicate
BY InvHolds, PTL DEF Inv, Correct

(* Once Subscribe has returned nothing new is delivered twice.             *)
THEOREM RealtimeDeliveredOnce == Spec => []RealtimeOnce
BY InvHolds, PTL DEF Inv, Correct

(* A consumer that sees its channel closed has every message of the        *)
(* producer, also if it was closed while Subscribe was at work.            *)
THEOREM EofMeansComplete == Spec => []EofComplete
BY InvHolds, PTL DEF Inv, Correct
=============================================================================
