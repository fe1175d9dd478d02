----------------------------- MODULE ChatStream -----------------------------
(***************************************************************************)
(* model/openai/openai.go: the goroutine of Stream.  It reads chunks from  *)
(* the server, accumulates them, sends a partial response for each on an   *)
(* unbuffered channel (channelBufferSize is never set), then the final     *)
(* response or an error response; when the context is done it may put the  *)
(* error of the context into errs instead.  At the end it closes errs and  *)
(* then the channel of the responses.                                      *)
(*                                                                         *)
(* Abstracted: a request asks for one choice; a chunk has no choice (the   *)
(* usage at the end), a content, or deltas of tool calls, of which the     *)
(* first for an index carries id and name.  The server, the accumulator of *)
(* openai-go and the transport are external.                               *)
(***************************************************************************)
EXTENDS Naturals, Sequences

CONSTANTS
    Names,       \* names of tools the server may call
    MaxIndex,    \* bound: the largest index of a tool call
    MaxChunks,   \* bound: chunks of a stream
    MaxDeltas,   \* bound: deltas of tool calls in a chunk
    None

Responses ==
    [kind : {"partial", "final", "error"},
     calls : Seq([id : Nat, name : Names, index : Nat])]

ASSUME ChatStreamAssumption ==
    /\ {MaxIndex, MaxChunks, MaxDeltas} \subseteq Nat
    /\ None \notin Responses

VARIABLES
    cancelled,  \* ctx.Done() is closed
    gen         \* the goroutine: pc, chunks, choice, calls, index, resp, errs

Indices == 0..MaxIndex

(* choice: acc.Choices is not empty; calls: its tool calls by index;       *)
(* index: idToIndexMap, the id of a call being its index at the server;    *)
(* resp: the response being sent.                                          *)
NewGen ==
    [pc |-> "next", chunks |-> 0, choice |-> FALSE, calls |-> [j \in Indices |-> None],
     index |-> [j \in Indices |-> None], resp |-> None, errs |-> FALSE]

IdleGen == [NewGen EXCEPT !.pc = "idle"]

(* Deltas of tool calls in one chunk: indices with the name of a new call. *)
Deltas ==
    {d \in UNION {[1..n -> Indices] : n \in 1..MaxDeltas} :
        \A i, j \in DOMAIN d : d[i] = d[j] => i = j}

(* acc.AddChunk of openai-go *)
AddChunk(d, names) ==
    [j \in Indices |->
        IF gen.calls[j] = None /\ \E i \in DOMAIN d : d[i] = j
        THEN names[CHOOSE i \in DOMAIN d : d[i] = j] ELSE gen.calls[j]]

(* Mutant: the place of the delta in its chunk is recorded. *)
updateToolCallIndexMappingPlace(d) ==
    IF gen.calls[d[1]] = None THEN [gen.index EXCEPT ![d[1]] = 0] ELSE gen.index

(* Only the first delta of a chunk is looked at, and only if it has an id. *)
updateToolCallIndexMapping(d) ==
    IF gen.calls[d[1]] = None THEN [gen.index EXCEPT ![d[1]] = d[1]] ELSE gen.index

Send(g, kind) == [g EXCEPT !.pc = "send", !.resp = [kind |-> kind, calls |-> <<>>]]

(* stream.Next returns a chunk. *)
Chunk ==
    /\ gen.pc = "next"
    /\ gen.chunks < MaxChunks
    /\ LET g == [gen EXCEPT !.chunks = @ + 1] IN
       \/ \E choice \in {gen.choice, TRUE} : gen' = Send([g EXCEPT !.choice = choice], "partial")
       \/ \E d \in Deltas : \E names \in [DOMAIN d -> Names] :
            gen' = Send([g EXCEPT !.choice = TRUE, !.calls = AddChunk(d, names),
                                  !.index = updateToolCallIndexMapping(d)], "partial")
    /\ UNCHANGED cancelled

(* Places the server has not used are passed over; the position of a call  *)
(* is its index unless its id is mapped to another one.                    *)
generateToolCalls ==
    LET call(j) == [id |-> j, name |-> gen.calls[j],
                    index |-> IF gen.index[j] = None THEN j ELSE gen.index[j]]
        before[j \in 0..MaxIndex + 1] ==
            IF j = 0 THEN <<>>
            ELSE IF gen.calls[j - 1] = None THEN before[j - 1]
            ELSE Append(before[j - 1], call(j - 1))
    IN  before[MaxIndex + 1]

(* The stream ended without an error.  acc.Choices[0] panics when there is *)
(* no choice.                                                              *)
StreamEnd ==
    /\ gen.pc = "next"
    /\ gen' = IF gen.choice
              THEN [gen EXCEPT !.pc = "send",
                               !.resp = [kind |-> "final", calls |-> generateToolCalls]]
              ELSE [gen EXCEPT !.pc = "panic"]
    /\ UNCHANGED cancelled

(* The stream ended with an error, that of the context for one. *)
StreamFails ==
    /\ gen.pc = "next"
    /\ gen' = Send(gen, "error")
    /\ UNCHANGED cancelled

(* The consumer takes the response. *)
Deliver ==
    /\ gen.pc = "send"
    /\ gen' = [gen EXCEPT !.pc = IF gen.resp.kind = "partial" THEN "next" ELSE "closed",
                          !.resp = None]
    /\ UNCHANGED cancelled

(* Mutant: the error of the context is not reported. *)
GiveUpSilently ==
    /\ gen.pc = "send" /\ cancelled
    /\ gen' = [gen EXCEPT !.pc = "closed", !.resp = None]
    /\ UNCHANGED cancelled

(* The other case of the selects. *)
GiveUp ==
    /\ gen.pc = "send" /\ cancelled
    /\ gen' = [gen EXCEPT !.pc = "closed", !.resp = None, !.errs = TRUE]
    /\ UNCHANGED cancelled

(* The deadline of the context passes. *)
Cancel ==
    /\ ~cancelled
    /\ cancelled' = TRUE
    /\ UNCHANGED gen
=============================================================================
