---------------------------- MODULE ToolCalling ----------------------------
(***************************************************************************)
(* example/model/openai/toolcall/toolcall.go: a program that asks a model, *)
(* executes the tool calls of the answer and asks again, with the          *)
(* non-streaming model (runNonStreamingModel, Generater) or the streaming  *)
(* one (runStreamingModel, Stream), and with tools of both kinds.  It      *)
(* composes ChatStream and ToolStream.                                     *)
(***************************************************************************)
EXTENDS ChatStream, ToolStream

CONSTANTS
    ToolType,   \* [names of the tool map -> type]
    maxTurns

ASSUME ToolCallingAssumption ==
    /\ DOMAIN ToolType \subseteq Names
    /\ maxTurns \in Nat \ {0, 1}   \* a smaller number is replaced by 2

VARIABLE prog   \* the program: mode, pc, turn, final, calls, out

callingVars == <<cancelled, gen, strm, prog>>

CallingInit ==
    /\ cancelled = FALSE
    /\ gen = IdleGen
    /\ strm = NoStream
    /\ \E mode \in {"generate", "stream"} :
        prog = [mode |-> mode, pc |-> "turn", turn |-> 0, final |-> None,
                calls |-> <<>>, out |-> <<>>]

Finish(how) == prog' = [prog EXCEPT !.pc = how, !.calls = <<>>, !.out = <<>>, !.final = None]

(* The messages of the conversation the next request is made of: those of  *)
(* the last turn, which are appended when all its tool calls have results. *)
Conversation ==
    <<[role |-> "user"]>> \o
    (IF prog.calls = <<>> THEN <<>>
     ELSE <<[role |-> "assistant", calls |-> prog.calls]>> \o
          [i \in DOMAIN prog.out |-> [role |-> "tool", toolID |-> prog.out[i].id]])

(* The request has the calls without their index. *)
convertToolCalls(calls) == [i \in DOMAIN calls |-> [id |-> calls[i].id, name |-> calls[i].name]]

ConvertToOpenAIMessages(msgs) ==
    [i \in DOMAIN msgs |->
        CASE msgs[i].role = "assistant" -> [of |-> "assistant", calls |-> convertToolCalls(msgs[i].calls)]
          [] msgs[i].role = "tool"      -> [of |-> "tool", callID |-> msgs[i].toolID]
          [] OTHER                      -> [of |-> "user"]]

Turn ==
    /\ prog.pc = "turn"
    /\ IF prog.turn = maxTurns THEN Finish("exceeded") /\ UNCHANGED gen
       ELSE /\ prog' = [prog EXCEPT !.pc = prog.mode, !.turn = @ + 1]
            /\ gen' = IF prog.mode = "stream" THEN NewGen ELSE gen
    /\ UNCHANGED <<cancelled, strm>>

(* What the program does with the first choice of a response. *)
Act(calls) ==
    IF calls = <<>> THEN Finish("finished")
    ELSE prog' = [prog EXCEPT !.pc = "execute", !.calls = calls, !.out = <<>>, !.final = None]

(* Generater returns a response, with or without choices ... *)
Generated ==
    /\ prog.pc = "generate"
    /\ \/ Finish("empty")
       \/ \E n \in 0..MaxIndex + 1 : \E names \in [1..n -> Names] :
            Act([i \in 1..n |-> [id |-> i - 1, name |-> names[i], index |-> None]])
    /\ UNCHANGED <<cancelled, gen, strm>>

(* ... or the error of the server or of the context. *)
GeneratedError ==
    /\ prog.pc = "generate"
    /\ Finish("error")
    /\ UNCHANGED <<cancelled, gen, strm>>

(* The range over the responses keeps the last one that is not partial. *)
RangeNext ==
    /\ prog.pc = "stream"
    /\ Deliver
    /\ prog' = IF gen.resp.kind = "partial" THEN prog ELSE [prog EXCEPT !.final = gen.resp]
    /\ UNCHANGED strm

(* The channel is closed: errs decides first, then the final response; an  *)
(* error response has no choices and counts as a missing one.              *)
RangeEnd ==
    /\ prog.pc = "stream"
    /\ gen.pc = "closed"
    /\ CASE gen.errs -> Finish("error")
         [] ~gen.errs /\ (prog.final = None \/ prog.final.kind = "error") -> Finish("missing")
         [] OTHER -> Act(prog.final.calls)
    /\ gen' = IdleGen
    /\ UNCHANGED <<cancelled, strm>>

(* The tool call being executed. *)
Current == prog.calls[Len(prog.out) + 1]

(* Its result; the last one ends the turn. *)
Result(chunks, n) ==
    prog' = [prog EXCEPT
        !.pc = IF Len(prog.out) + 1 = Len(prog.calls) THEN "turn" ELSE "execute",
        !.out = Append(@, [id |-> Current.id, chunks |-> chunks, n |-> n])]

TypeOf(call) == IF call.name \in DOMAIN ToolType THEN ToolType[call.name] ELSE "not found"

(* executeToolCall: an error of any kind ends the program. *)
ExecuteError ==
    /\ prog.pc = "execute"
    /\ Finish("tool error")
    /\ UNCHANGED <<cancelled, gen, strm>>

ExecuteTool ==
    /\ prog.pc = "execute"
    /\ TypeOf(Current) = "nonstreaming"
    /\ Result(<<>>, 0)
    /\ UNCHANGED <<cancelled, gen, strm>>

StreamExecute ==
    /\ prog.pc = "execute"
    /\ TypeOf(Current) = "streaming"
    /\ \E n \in 0..MaxN : strm' = NewStream(n)
    /\ prog' = [prog EXCEPT !.pc = "recv"]
    /\ UNCHANGED <<cancelled, gen>>

(* The chunks are collected until io.EOF; an error chunk ends the program. *)
Receive ==
    /\ prog.pc = "recv"
    /\ \/ \E item \in 1..MaxN : Recv(item) /\ UNCHANGED prog
       \/ Recv(Error) /\ prog' = [prog EXCEPT !.pc = "failed"]
       \/ RecvEOF /\ prog' = [prog EXCEPT !.pc = "received"]
    /\ UNCHANGED <<cancelled, gen>>

(* The deferred Close of the reader. *)
CloseReader ==
    /\ \/ prog.pc = "failed" /\ Finish("tool error")
       \/ prog.pc = "received" /\ Result(strm.got, strm.n)
    /\ Close
    /\ UNCHANGED <<cancelled, gen>>

Program ==
    \/ Turn \/ RangeNext \/ RangeEnd \/ ExecuteError \/ ExecuteTool \/ StreamExecute
    \/ Receive \/ CloseReader

(* The process is gone when a goroutine panics. *)
Alive == gen.pc # "panic"

Server == Chunk \/ StreamEnd \/ StreamFails \/ GiveUp \/ Cancel

CallingNext ==
    /\ Alive
    /\ \/ Program \/ Generated \/ GeneratedError
       \/ Server /\ UNCHANGED <<strm, prog>>
       \/ Writer /\ UNCHANGED <<cancelled, gen, prog>>

(* The program and the goroutines are scheduled; the deadline passes; the  *)
(* transport reports a cancelled context.  The server need not answer.     *)
Fairness ==
    /\ WF_callingVars(Alive /\ Program)
    /\ WF_callingVars(Alive /\ Writer /\ UNCHANGED <<cancelled, gen, prog>>)
    /\ WF_callingVars(Alive /\ Cancel /\ UNCHANGED <<strm, prog>>)
    /\ WF_callingVars(Alive /\ cancelled /\ StreamFails /\ UNCHANGED <<strm, prog>>)
    /\ WF_callingVars(Alive /\ cancelled /\ GeneratedError)

CallingSpec == CallingInit /\ [][CallingNext]_callingVars /\ Fairness

-----------------------------------------------------------------------------
Returned == prog.pc \in {"exceeded", "finished", "empty", "error", "missing", "tool error"}

(* In the request of the next turn an assistant message with tool calls is *)
(* followed by one tool message per call, in order, as the API demands;    *)
(* the result of a streaming tool holds every number the tool has sent,    *)
(* once and in order: none is lost when the channel is full or when the    *)
(* writer closes its end before the reader has caught up.                  *)
ResultsComplete ==
    prog.pc = "turn" =>
        LET req == ConvertToOpenAIMessages(Conversation) IN
        /\ \A i \in DOMAIN req : req[i].of = "assistant" =>
            SubSeq(req, i + 1, Len(req)) =
                [j \in DOMAIN req[i].calls |-> [of |-> "tool", callID |-> req[i].calls[j].id]]
        /\ \A i \in DOMAIN prog.out : prog.out[i].chunks = [k \in 1..prog.out[i].n |-> k]

(* However the deltas of several tool calls are spread over chunks, and    *)
(* whatever indices the server skips, the final response lists every call  *)
(* that was announced, once, in the order and with the index of the        *)
(* server: the question a comment of the code asks about the mapping.      *)
CallsAssembled ==
    gen.resp # None /\ gen.resp.kind = "final" =>
        LET c == gen.resp.calls IN
        /\ {<<c[i].id, c[i].name, c[i].index>> : i \in DOMAIN c}
             = {<<j, gen.calls[j], j>> : j \in {k \in Indices : gen.calls[k] # None}}
        /\ \A i, j \in DOMAIN c : i < j => c[i].id < c[j].id

(* When the responses end, the consumer has a last response that is not    *)
(* partial or finds an error in errs, and never both; the goroutine panics *)
(* only if no chunk had a choice.                                          *)
OneOutcome ==
    /\ gen.pc = "closed" => (prog.final # None) # gen.errs
    /\ gen.pc = "panic" => ~gen.choice

(* The program returns and leaves no goroutine behind, the one of a stream *)
(* it gave up included, or the process has panicked.                       *)
EverythingEnds ==
    <>(gen.pc = "panic" \/ (Returned /\ gen.pc \in {"idle", "closed"} /\ strm.writer = "ended"))
=============================================================================
