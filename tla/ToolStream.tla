----------------------------- MODULE ToolStream -----------------------------
(***************************************************************************)
(* tools/stream.go: the two ends of a stream.  A goroutine of the tool     *)
(* sends chunks and closes its end, the caller receives them until io.EOF  *)
(* or an error and closes the other end.  send looks at the closed channel *)
(* twice, the second time in a select with the channel of the items.       *)
(*                                                                         *)
(* The tool is one that sends the numbers 1..n (newCounterStreamTool of    *)
(* example/model/openai/toolcall), or an error in place of one of them.    *)
(***************************************************************************)
EXTENDS Naturals, Sequences

CONSTANTS
    sz,     \* NewStream(sz): capacity of the channel of the items
    MaxN,   \* bound: chunks of a stream
    Error   \* a chunk that carries an error

ASSUME StreamAssumption == sz \in Nat \ {0} /\ MaxN \in Nat /\ Error \notin Nat

VARIABLE strm   \* the last stream: writer, i, n, items, eof, closed, got

(* writer: where the goroutine of the tool is; eof: its end is closed;     *)
(* closed: the end of the reader is; got is a ghost: what was received.    *)
NewStream(n) ==
    [writer |-> "ready", i |-> 1, n |-> n, items |-> <<>>, eof |-> FALSE,
     closed |-> FALSE, got |-> <<>>]

NoStream == [NewStream(0) EXCEPT !.writer = "ended", !.eof = TRUE]

(* Send: the stream is closed, or not yet; the loop is over.  The goroutine*)
(* closes its end when it returns.                                         *)
SendCheck ==
    /\ strm.writer = "ready"
    /\ strm' = IF strm.closed \/ strm.i > strm.n
               THEN [strm EXCEPT !.writer = "ended", !.eof = TRUE]
               ELSE [strm EXCEPT !.writer = "sending"]

(* Mutant: a chunk that finds no room is dropped. *)
SendSelectDrops ==
    /\ strm.writer = "sending"
    /\ strm' = [strm EXCEPT !.writer = "ready", !.i = @ + 1,
                   !.items = IF Len(@) < sz THEN Append(@, strm.i) ELSE @]

(* Mutant: the select has no case for the closed channel. *)
SendSelectBlocks ==
    /\ strm.writer = "sending"
    /\ Len(strm.items) < sz
    /\ \E item \in {strm.i, Error} :
        strm' = [strm EXCEPT !.writer = "ready", !.i = @ + 1, !.items = Append(@, item)]

(* The select picks any case that is ready, and waits if none is. *)
SendSelect ==
    /\ strm.writer = "sending"
    /\ \/ /\ strm.closed
          /\ strm' = [strm EXCEPT !.writer = "ended", !.eof = TRUE]
       \/ /\ Len(strm.items) < sz
          /\ \E item \in {strm.i, Error} :
                strm' = [strm EXCEPT !.writer = "ready", !.i = @ + 1, !.items = Append(@, item)]

Writer == SendCheck \/ SendSelect

(* Recv: an item, or io.EOF once the channel is closed and empty. *)
Recv(item) ==
    /\ strm.items # <<>>
    /\ item = Head(strm.items)
    /\ strm' = [strm EXCEPT !.items = Tail(@), !.got = Append(@, item)]

RecvEOF ==
    /\ strm.items = <<>> /\ strm.eof
    /\ UNCHANGED strm

Close == strm' = [strm EXCEPT !.closed = TRUE]
=============================================================================
