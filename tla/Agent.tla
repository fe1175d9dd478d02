------------------------------- MODULE Agent -------------------------------
(***************************************************************************)
(* agent/react.go, plan_execute.go and agent.go: one call of Run, the same *)
(* in both kinds of agents but for prompt and name of the limit, which     *)
(* lists the tools once, asks the model with them until it answers without *)
(* tool calls, and executes the calls of every answer one by one with the  *)
(* tools the registry holds by then, while other goroutines change the     *)
(* registry and call MCP tools.                                            *)
(*                                                                         *)
(* Abstracted: of the messages of the conversation, which is only ever     *)
(* appended to, those since the last request are kept; the content of a    *)
(* tool message is "ok" or why it is an error.  The model and the hooks    *)
(* are external: any answer, any error.                                    *)
(***************************************************************************)
EXTENDS ToolRegistry, MCPClient, Sequences

CONSTANTS
    Type,           \* [Tools -> {"nonstreaming", "streaming", "mcp"}]
    maxIterations,  \* of ReActAgent; maxSteps of PlanExecuteAgent
    MaxCalls        \* bound: tool calls in an answer of the model

ASSUME AgentAssumption ==
    /\ Users \subseteq Callers
    /\ Type \in [Tools -> {"nonstreaming", "streaming", "mcp"}]
    /\ maxIterations \in Nat \ {0}   \* the constructors replace a value <= 0
    /\ MaxCalls \in Nat

VARIABLES
    run,      \* Run: pc, i, toolMap, msgs, todo, tool
    removed   \* ghost: keys of listed tools, unregistered since

agentVars == <<run, removed>>

vars == <<tools, reg, mcpVars, agentVars>>

Init ==
    /\ NewRegistry
    /\ NewMCPClient
    /\ run = [pc |-> "start", i |-> 0, toolMap |-> {}, msgs |-> <<>>, todo |-> <<>>,
              tool |-> NoTool]
    /\ removed = {}

ListTools ==
    /\ run.pc = "start"
    /\ run' = [run EXCEPT !.pc = "loop", !.toolMap = List]
    /\ removed' = {}

(* Run returns and its variables are gone. *)
Return(how) ==
    /\ run' = [run EXCEPT !.pc = how, !.toolMap = {}, !.msgs = <<>>]
    /\ removed' = {}

(* Mutant: the counter of the loop is not increased. *)
NextRequestForever(limit) ==
    /\ run.pc = "loop"
    /\ IF run.i = limit THEN Return("exceeded")
       ELSE run' = [run EXCEPT !.pc = "asked", !.msgs = <<>>] /\ UNCHANGED removed

(* The next request, with all messages so far, or the end of the loop. *)
NextRequest(limit) ==
    /\ run.pc = "loop"
    /\ IF run.i = limit THEN Return("exceeded")
       ELSE run' = [run EXCEPT !.pc = "asked", !.i = @ + 1, !.msgs = <<>>] /\ UNCHANGED removed

(* An error, no choice, or a choice without tool calls ends Run. *)
Answer ==
    /\ run.pc = "asked"
    /\ \E end \in {"error", "empty", "answer"} : Return(end)

(* A choice with tool calls: ids are the positions of the calls, names are *)
(* of tools that were offered, or made up.                                 *)
ToolCalls ==
    /\ run.pc = "asked"
    /\ \E n \in 1..MaxCalls : \E names \in [1..n -> DOMAIN Trim] :
        run' = [run EXCEPT
            !.pc = "before",
            !.msgs = <<[role |-> "assistant", n |-> n]>>,
            !.todo = [j \in 1..n |-> [id |-> j, name |-> names[j]]]]
    /\ UNCHANGED removed

Respond(content) ==
    run' = [run EXCEPT
        !.pc = IF Len(run.todo) = 1 THEN "loop" ELSE "before",
        !.msgs = Append(@, [role |-> "tool", id |-> Head(run.todo).id,
                            name |-> Head(run.todo).name, content |-> content]),
        !.todo = Tail(@),
        !.tool = NoTool]

(* executeTool *)

BeforeCall ==
    /\ run.pc = "before"
    /\ \/ run' = [run EXCEPT !.pc = "get"]
       \/ Respond("refused")
    /\ UNCHANGED removed

GetTool ==
    LET t == Get(Head(run.todo).name) IN
    /\ run.pc = "get"
    /\ CASE t = NoTool -> Respond("not found")
         [] t # NoTool /\ Type[t] # "nonstreaming" -> Respond("wrong type")
         [] OTHER -> run' = [run EXCEPT !.pc = "execute", !.tool = t]
    /\ UNCHANGED removed

(* Mutant: a failed call is not answered. *)
ExecuteUnanswered ==
    /\ run.pc = "execute"
    /\ \/ run' = [run EXCEPT !.pc = "after"]
       \/ run' = [run EXCEPT !.pc = IF Len(run.todo) = 1 THEN "loop" ELSE "before",
                             !.todo = Tail(@), !.tool = NoTool]
    /\ UNCHANGED removed

(* The tool fails (OnError is told), or AfterCall sees its result. *)
Execute ==
    /\ run.pc = "execute"
    /\ \/ run' = [run EXCEPT !.pc = "after"]
       \/ Respond("failed")
    /\ UNCHANGED removed

(* An error of AfterCall becomes the answer although the tool succeeded. *)
AfterCall ==
    /\ run.pc = "after"
    /\ \E content \in {"ok", "rejected"} : Respond(content)
    /\ UNCHANGED removed

(* The steps of both agents. *)
Loop(limit) ==
    \/ ListTools \/ NextRequest(limit) \/ Answer \/ ToolCalls
    \/ BeforeCall \/ GetTool \/ Execute \/ AfterCall

AgentStep == Loop(maxIterations) /\ UNCHANGED <<tools, reg, mcpVars>>

RegistryStep(c) ==
    /\ c \in Users => mcp[c] = "idle"
    /\ \/ \E t \in Tools : RegisterCheck(c, t) /\ UNCHANGED removed
       \/ RegisterStore(c) /\ UNCHANGED removed
       \/ \E k \in Keys :
            /\ Unregister(c, k)
            /\ removed' = removed \cup ({k} \cap {Key(t) : t \in run.toolMap})
    /\ UNCHANGED <<mcpVars, run>>

MCPStep ==
    /\ \/ ServerRestarts
       \/ \E c \in Users : reg[c] = NoTool /\ (ensureInitialized(c) \/ CallTool(c))
    /\ UNCHANGED <<tools, reg, agentVars>>

Next == AgentStep \/ MCPStep \/ \E c \in Callers : RegistryStep(c)

Spec == Init /\ [][Next]_vars /\ WF_vars(AgentStep)

-----------------------------------------------------------------------------
(* Whatever the tools, the hooks and other goroutines do, a request never  *)
(* holds a tool call without its answer: after an assistant message come   *)
(* one tool message per call, with its id and in the order of the calls.   *)
Answered ==
    run.pc = "loop" /\ run.msgs # <<>> =>
        /\ Len(run.msgs) = 1 + run.msgs[1].n
        /\ \A j \in 2..Len(run.msgs) : run.msgs[j].role = "tool" /\ run.msgs[j].id = j - 1

(* The tools are listed once and looked up at every call.  A call of a     *)
(* tool that was offered to the model finds it and runs that tool, and not *)
(* another one of the same name, unless somebody has unregistered that     *)
(* name since.                                                             *)
OfferedOrRemoved ==
    \A t \in run.toolMap : Key(t) \in removed \/
        /\ \A j \in DOMAIN run.msgs :
              LET m == run.msgs[j] IN
              m.role = "tool" /\ m.content = "not found" => Trim[m.name] # Key(t)
        /\ run.pc \in {"execute", "after"} /\ Trim[Head(run.todo).name] = Key(t) =>
              run.tool = t

(* Run returns after at most maxIterations answers of the model, provided  *)
(* that the model, the hooks and the tools return.                         *)
RunReturns == <>(run.pc \in {"error", "empty", "answer", "exceeded"})
=============================================================================
