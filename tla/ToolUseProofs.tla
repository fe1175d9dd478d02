---------------------------- MODULE ToolUseProofs ----------------------------
(***************************************************************************)
(* Proofs about the modules of tool use.  Agent: how far concurrent        *)
(* callers of Register can exceed the limit of a registry, when an MCP     *)
(* request meets a server that does not know the session, that every tool  *)
(* call of a conversation has its answer, and when an offered tool is not  *)
(* found; for any numbers of callers, tools, iterations and calls.         *)
(* ToolCalling: that the calls of a model are assembled as they were       *)
(* announced, that each has its one result with the whole stream of its    *)
(* tool, and that a program delivers one outcome; for any numbers of       *)
(* turns, indices and chunks.                                              *)
(***************************************************************************)
EXTENDS Agent, ToolCalling, FunctionTheorems, FiniteSetTheorems, SequenceTheorems,
        NaturalsInduction, WellFoundedInduction, TLAPS

(* The images of a finite set are not more than its elements.              *)
LEMMA ImageBound ==
    ASSUME NEW S, IsFiniteSet(S), NEW f, NEW T, T = {f[x] : x \in S}
    PROVE  IsFiniteSet(T) /\ Cardinality(T) <= Cardinality(S)
<1> DEFINE g == [x \in S |-> f[x]]
<1>1. g \in Surjection(S, T)
  BY DEF Surjection
<1> QED
  BY <1>1, FS_Surjection

(* Both the keys of a registry and those on their way are finitely many,   *)
(* and on the way there are not more than callers.                         *)
LEMMA Finite ==
    ASSUME NEW K \in SUBSET Keys, NEW r,
           NEW P, P = {Key(r[c]) : c \in {d \in Callers : r[d] # NoTool}}
    PROVE  /\ IsFiniteSet(K) /\ Cardinality(K) \in Nat
           /\ IsFiniteSet(P) /\ Cardinality(P) \in Nat
           /\ Cardinality(P) <= Cardinality(Callers)
<1>1. IsFiniteSet(Keys)
  <2> DEFINE f == [t \in Tools |-> Key(t)]
  <2>1. Keys = {f[t] : t \in Tools}
    BY DEF Keys
  <2> HIDE DEF f
  <2> QED
    BY <2>1, ImageBound, RegistryAssumption
<1>2. IsFiniteSet(K)
  BY <1>1, FS_Subset
<1> DEFINE D == {d \in Callers : r[d] # NoTool}
           h == [c \in D |-> Key(r[c])]
<1>3. IsFiniteSet(D) /\ Cardinality(D) <= Cardinality(Callers)
  BY FS_Subset, RegistryAssumption
<1>4. P = {h[c] : c \in D}
  OBVIOUS
<1> HIDE DEF D, h
<1>5. IsFiniteSet(P) /\ Cardinality(P) <= Cardinality(D)
  BY <1>3, <1>4, ImageBound
<1>6. Cardinality(P) \in Nat /\ Cardinality(D) \in Nat /\ Cardinality(Callers) \in Nat
  BY <1>3, <1>5, FS_CardinalityType, RegistryAssumption
<1> QED
  BY <1>2, <1>3, <1>5, <1>6, FS_CardinalityType

(* The registry is changed by RegistryStep only.                           *)
LEMMA RegistryTypeStep ==
    ASSUME RegistryTypeOK, [Next]_vars
    PROVE  RegistryTypeOK'
<1>1. CASE UNCHANGED <<tools, reg>>
  BY <1>1 DEF RegistryTypeOK
<1>2. CASE \E c \in Callers : RegistryStep(c)
  <2>1. PICK c \in Callers : RegistryStep(c)
    BY <1>2
  <2>2. CASE \E t \in Tools : RegisterCheck(c, t)
    BY <2>2 DEF RegistryTypeOK, RegisterCheck
  <2>3. CASE RegisterStore(c)
    <3>1. reg' \in [Callers -> Tools \cup {NoTool}]
      BY <2>3 DEF RegistryTypeOK, RegisterStore
    <3>2. CASE tools' = tools
      BY <3>1, <3>2 DEF RegistryTypeOK
    <3>3. CASE tools' = [k \in DOMAIN tools \cup {Key(reg[c])} |->
                             IF k = Key(reg[c]) THEN reg[c] ELSE tools[k]]
      <4>1. reg[c] \in Tools
        BY <2>3 DEF RegistryTypeOK, RegisterStore
      <4>2. /\ DOMAIN tools' = {Key(reg[c])} \cup DOMAIN tools
            /\ \A k \in DOMAIN tools' :
                  tools'[k] = IF k = Key(reg[c]) THEN reg[c] ELSE tools[k]
        BY <3>3
      <4> QED
        BY <3>1, <4>1, <4>2 DEF RegistryTypeOK, Keys
    <3> QED
      BY <2>3, <3>2, <3>3 DEF RegisterStore
  <2>4. CASE \E k \in Keys : Unregister(c, k)
    BY <2>4 DEF RegistryTypeOK, Unregister
  <2> QED
    BY <2>1, <2>2, <2>3, <2>4 DEF RegistryStep
<1> QED
  BY <1>1, <1>2 DEF Next, vars, AgentStep, MCPStep

(* A call that has passed the check counts from then on, so that storing   *)
(* its tool adds nothing.                                                  *)
LEMMA LimitStep ==
    ASSUME RegistryTypeOK, LimitExceededByCallers, [Next]_vars
    PROVE  LimitExceededByCallers'
<1> DEFINE All == DOMAIN tools \cup Pending
<1>1. RegistryTypeOK'
  BY RegistryTypeStep
<1>2. /\ IsFiniteSet(DOMAIN tools) /\ Cardinality(DOMAIN tools) \in Nat
      /\ IsFiniteSet(All) /\ Cardinality(All) \in Nat
      /\ Cardinality(Callers) \in Nat /\ maxTools \in Nat
  <2>1. IsFiniteSet(DOMAIN tools) /\ Cardinality(DOMAIN tools) \in Nat /\ IsFiniteSet(Pending)
    BY Finite DEF RegistryTypeOK, Pending
  <2> QED
    BY <2>1, FS_Union, FS_CardinalityType, RegistryAssumption
<1>3. /\ IsFiniteSet((DOMAIN tools)') /\ IsFiniteSet(Pending') /\ Cardinality(Pending') \in Nat
      /\ Cardinality(Pending') <= Cardinality(Callers)
  BY <1>1, Finite DEF RegistryTypeOK, Pending
<1>4. ASSUME All' \subseteq All PROVE LimitExceededByCallers'
  <2>1. Cardinality(All') <= Cardinality(All) /\ Cardinality(All') \in Nat
    BY <1>2, <1>4, FS_Subset, FS_CardinalityType
  <2> QED
    BY <1>2, <2>1 DEF LimitExceededByCallers
<1>5. CASE UNCHANGED <<tools, reg>>
  BY <1>5 DEF LimitExceededByCallers, Pending
<1>6. CASE \E c \in Callers : RegistryStep(c)
  <2>1. PICK c \in Callers : RegistryStep(c)
    BY <1>6
  <2>2. CASE \E t \in Tools : RegisterCheck(c, t)
    <3>1. tools' = tools /\ Cardinality(DOMAIN tools) < maxTools
      BY <1>2, <2>2 DEF RegisterCheck, Full
    <3>2. Cardinality(DOMAIN tools \cup Pending')
            = Cardinality(DOMAIN tools) + Cardinality(Pending') - Cardinality(DOMAIN tools \cap Pending')
      BY <1>2, <1>3, FS_Union
    <3>3. Cardinality(DOMAIN tools \cap Pending') \in Nat
      BY <1>2, FS_Subset, FS_CardinalityType
    <3> QED
      BY <1>2, <1>3, <3>1, <3>2, <3>3 DEF LimitExceededByCallers
  <2>3. CASE RegisterStore(c)
    <3>1. (DOMAIN tools)' \subseteq DOMAIN tools \cup {Key(reg[c])}
      BY <2>3 DEF RegisterStore
    <3>2. Key(reg[c]) \in Pending /\ Pending' \subseteq Pending
      BY <2>3 DEF RegisterStore, Pending, RegistryTypeOK, Key
    <3> QED
      BY <3>1, <3>2, <1>4
  <2>4. CASE \E k \in Keys : Unregister(c, k)
    <3>1. (DOMAIN tools)' \subseteq DOMAIN tools /\ Pending' = Pending
      BY <2>4 DEF Unregister, Pending
    <3> QED
      BY <3>1, <1>4
  <2> QED
    BY <2>1, <2>2, <2>3, <2>4 DEF RegistryStep
<1> QED
  BY <1>5, <1>6 DEF Next, vars, AgentStep, MCPStep

(* Register compares the number of tools with the limit in a critical      *)
(* section of its own.  However many goroutines call it, the limit is      *)
(* exceeded by less than their number.                                     *)
THEOREM RegistryLimit == Spec => []LimitExceededByCallers
<1>1. Init => RegistryTypeOK /\ LimitExceededByCallers
  <2> SUFFICES ASSUME Init PROVE RegistryTypeOK /\ LimitExceededByCallers
    OBVIOUS
  <2>1. DOMAIN tools = {} /\ reg = [c \in Callers |-> NoTool]
    BY DEF Init, NewRegistry
  <2>2. Pending = {}
    BY <2>1 DEF Pending
  <2>3. Cardinality(Callers) \in Nat /\ maxTools \in Nat \ {0}
    BY FS_CardinalityType, RegistryAssumption
  <2> QED
    BY <2>1, <2>2, <2>3, FS_EmptySet DEF RegistryTypeOK, LimitExceededByCallers
<1>2. RegistryTypeOK /\ LimitExceededByCallers /\ [Next]_vars
        => RegistryTypeOK' /\ LimitExceededByCallers'
  BY RegistryTypeStep, LimitStep
<1> QED
  BY <1>1, <1>2, PTL DEF Spec

-----------------------------------------------------------------------------
(* Every MCP call initializes first: its request meets a server that does  *)
(* not know the session only if the server restarted during the call, or   *)
(* answered its Initialize with an error that was taken for "already".     *)
THEOREM SessionStaysFresh == Spec => []SessionFresh
<1> DEFINE Inv == mcp \in [Users -> {"idle", "ready"}] /\ SessionFresh
<1>1. Init => Inv
  BY DEF Init, NewMCPClient, SessionFresh
<1>2. Inv /\ [Next]_vars => Inv'
  <2> SUFFICES ASSUME Inv, [Next]_vars PROVE Inv'
    OBVIOUS
  <2>1. CASE UNCHANGED mcpVars
    BY <2>1 DEF mcpVars, SessionFresh
  <2>2. CASE ServerRestarts
    BY <2>2 DEF ServerRestarts, SessionFresh
  <2>3. ASSUME NEW c \in Users, ensureInitialized(c) PROVE Inv'
    BY <2>3 DEF ensureInitialized, Initialize, Ready, SessionFresh
  <2>4. ASSUME NEW c \in Users, CallTool(c) PROVE Inv'
    BY <2>4 DEF CallTool, SessionFresh
  <2> QED
    BY <2>1, <2>2, <2>3, <2>4 DEF Next, vars, AgentStep, MCPStep, RegistryStep
<1>3. Inv => SessionFresh
  OBVIOUS
<1> QED
  BY <1>1, <1>2, <1>3, PTL DEF Spec
-----------------------------------------------------------------------------
(* The conversation of Run: the messages since the last request, and the   *)
(* calls of the last answer that are not answered yet.                     *)

Executing == {"before", "get", "execute", "after"}

States == Executing \cup {"start", "loop", "asked", "exceeded", "error", "empty", "answer"}

Contents == {"refused", "not found", "wrong type", "failed", "ok", "rejected"}

Messages ==
    [role : {"assistant"}, n : Nat]
        \cup [role : {"tool"}, id : Nat, name : DOMAIN Trim, content : Contents]

Calls == [id : Nat, name : DOMAIN Trim]

RunTypeOK ==
    /\ run = [pc |-> run.pc, i |-> run.i, toolMap |-> run.toolMap, msgs |-> run.msgs,
              todo |-> run.todo, tool |-> run.tool]
    /\ run.pc \in States /\ run.i \in Nat
    /\ run.toolMap \subseteq Tools
    /\ run.msgs \in Seq(Messages) /\ run.todo \in Seq(Calls)
    /\ run.tool \in Tools \cup {NoTool}

(* The messages are an answer of the model and one tool message for every  *)
(* call of it that is no longer to do; ids are positions.                  *)
Exchange(msgs, todo) ==
    /\ msgs # <<>>
    /\ msgs[1].role = "assistant"
    /\ Len(msgs) + Len(todo) = 1 + msgs[1].n
    /\ \A j \in 2..Len(msgs) : msgs[j].role = "tool" /\ msgs[j].id = j - 1
    /\ \A j \in 1..Len(todo) : todo[j].id = Len(msgs) + j - 1

(* Between requests a conversation is under way; at a request none or a    *)
(* complete one.                                                           *)
InConversation ==
    /\ run.pc \in Executing => run.todo # <<>> /\ Exchange(run.msgs, run.todo)
    /\ run.pc \notin Executing => run.todo = <<>>
    /\ run.pc = "loop" /\ run.msgs # <<>> => Exchange(run.msgs, run.todo)
    /\ run.pc \notin Executing \cup {"loop"} => run.msgs = <<>>

(* Respond answers the first call that is to do.                           *)
LEMMA RespondStep ==
    ASSUME RunTypeOK, InConversation, run.pc \in Executing,
           NEW content \in Contents, Respond(content)
    PROVE  RunTypeOK' /\ InConversation'
<1> DEFINE m == [role |-> "tool", id |-> Head(run.todo).id,
                 name |-> Head(run.todo).name, content |-> content]
<1>1. /\ run.msgs \in Seq(Messages) /\ run.todo \in Seq(Calls)
      /\ run.todo # <<>> /\ Exchange(run.msgs, run.todo)
  BY DEF RunTypeOK, InConversation
<1>2. Head(run.todo) = run.todo[1] /\ 1 \in 1..Len(run.todo) /\ Len(run.todo) \in Nat
  BY <1>1
<1>3. run.todo[1] \in Calls
  BY <1>1, <1>2
<1>4. m \in Messages
  BY <1>2, <1>3 DEF Messages, Calls
<1> HIDE DEF m
<1>5. /\ run'.msgs = Append(run.msgs, m) /\ run'.todo = Tail(run.todo)
      /\ run'.pc = IF Len(run.todo) = 1 THEN "loop" ELSE "before"
      /\ run'.toolMap = run.toolMap /\ run'.i = run.i /\ run'.tool = NoTool
  BY DEF Respond, RunTypeOK, m
<1>6. RunTypeOK'
  <2>1. run'.msgs \in Seq(Messages)
    BY <1>1, <1>4, <1>5
  <2>2. run'.todo \in Seq(Calls)
    BY <1>1, <1>5
  <2> QED
    BY <1>5, <2>1, <2>2 DEF RunTypeOK, Respond, States, Executing, m
<1>7. m.role = "tool" /\ m.id = run.todo[1].id
  BY <1>2 DEF m
<1>8. /\ Len(run'.msgs) = Len(run.msgs) + 1 /\ Len(run.msgs) \in Nat \ {0}
      /\ run'.msgs[Len(run.msgs) + 1] = m
      /\ \A j \in 1..Len(run.msgs) : run'.msgs[j] = run.msgs[j]
  BY <1>1, <1>4, <1>5 DEF Exchange
<1>9. /\ Len(run'.todo) = Len(run.todo) - 1
      /\ \A j \in 1..Len(run'.todo) : run'.todo[j] = run.todo[j + 1]
  BY <1>1, <1>2, <1>5
<1>10. Exchange(run'.msgs, run'.todo)
  <2>1. run'.msgs # <<>> /\ run'.msgs[1] = run.msgs[1]
    BY <1>8
  <2>2. run.msgs[1].n \in Nat
    BY <1>1, <1>8 DEF Exchange, Messages
  <2>3. Len(run'.msgs) + Len(run'.todo) = 1 + run'.msgs[1].n
    <3>1. Len(run.msgs) + Len(run.todo) = 1 + run.msgs[1].n
      BY <1>1 DEF Exchange
    <3>2. run'.msgs[1].n = run.msgs[1].n
      BY <2>1
    <3>3. Len(run'.msgs) = Len(run.msgs) + 1 /\ Len(run.msgs) \in Nat
      BY <1>8
    <3>4. Len(run'.todo) = Len(run.todo) - 1
      BY <1>9
    <3>5. \A a, b \in Nat : (a + 1) + (b - 1) = a + b
      OBVIOUS
    <3> QED
      BY <1>2, <3>1, <3>2, <3>3, <3>4, <3>5
  <2>4. ASSUME NEW j \in 2..Len(run'.msgs)
        PROVE  run'.msgs[j].role = "tool" /\ run'.msgs[j].id = j - 1
    <3>1. CASE j \in 2..Len(run.msgs)
      <4>1. run'.msgs[j] = run.msgs[j]
        <5>1. j \in 1..Len(run.msgs)
          BY <3>1
        <5> QED
          BY <1>8, <5>1
      <4>2. run.msgs[j].role = "tool" /\ run.msgs[j].id = j - 1
        BY <1>1, <3>1, Zenon DEF Exchange
      <4> QED
        BY <4>1, <4>2
    <3>2. CASE j = Len(run.msgs) + 1
      BY <1>1, <1>2, <1>7, <1>8, <3>2 DEF Exchange
    <3> QED
      BY <1>8, <3>1, <3>2
  <2>5. ASSUME NEW j \in 1..Len(run'.todo)
        PROVE  run'.todo[j].id = Len(run'.msgs) + j - 1
    <3>1. run'.todo[j] = run.todo[j + 1] /\ j + 1 \in 1..Len(run.todo)
      BY <1>2, <1>9
    <3>2. run.todo[j + 1].id = Len(run.msgs) + (j + 1) - 1
      BY <1>1, <3>1 DEF Exchange
    <3> QED
      BY <1>2, <1>8, <1>9, <3>1, <3>2
  <2> QED
    BY <1>1, <2>1, <2>3, <2>4, <2>5 DEF Exchange
<1>11. run'.todo = <<>> <=> Len(run.todo) = 1
  <2>1. run'.todo \in Seq(Calls)
    BY <1>6 DEF RunTypeOK
  <2>2. run'.todo = <<>> <=> Len(run'.todo) = 0
    BY <2>1
  <2> QED
    BY <1>2, <1>9, <2>2
<1> QED
  BY <1>5, <1>6, <1>10, <1>11 DEF InConversation, Executing

LEMMA ReturnStep ==
    ASSUME RunTypeOK, InConversation, run.pc \notin Executing,
           NEW how \in {"exceeded", "error", "empty", "answer"}, Return(how)
    PROVE  RunTypeOK' /\ InConversation'
<1>1. /\ run'.pc = how /\ run'.msgs = <<>> /\ run'.todo = run.todo /\ run'.toolMap = {}
      /\ run'.i = run.i /\ run'.tool = run.tool
  BY DEF Return, RunTypeOK
<1>2. run.todo = <<>>
  BY DEF InConversation
<1>3. RunTypeOK'
  <2>1. <<>> \in Seq(Messages) /\ how \in States
    BY DEF States
  <2>2. run' = [pc |-> how, i |-> run.i, toolMap |-> {}, msgs |-> <<>>,
                todo |-> run.todo, tool |-> run.tool]
    BY DEF Return, RunTypeOK
  <2> QED
    BY <2>1, <2>2 DEF RunTypeOK
<1> QED
  BY <1>1, <1>2, <1>3 DEF InConversation, Executing

(* An answer with tool calls starts a conversation.                        *)
LEMMA ToolCallsStep ==
    ASSUME RunTypeOK, InConversation, ToolCalls
    PROVE  RunTypeOK' /\ InConversation'
<1>0. PICK n \in 1..MaxCalls : \E names \in [1..n -> DOMAIN Trim] :
        run' = [run EXCEPT
            !.pc = "before",
            !.msgs = <<[role |-> "assistant", n |-> n]>>,
            !.todo = [j \in 1..n |-> [id |-> j, name |-> names[j]]]]
  BY DEF ToolCalls
<1>1. PICK names \in [1..n -> DOMAIN Trim] :
        run' = [run EXCEPT
            !.pc = "before",
            !.msgs = <<[role |-> "assistant", n |-> n]>>,
            !.todo = [j \in 1..n |-> [id |-> j, name |-> names[j]]]]
  BY <1>0
<1> DEFINE m == [role |-> "assistant", n |-> n]
           calls == [j \in 1..n |-> [id |-> j, name |-> names[j]]]
<1>2. n \in Nat \ {0}
  BY AgentAssumption
<1>3. m \in Messages /\ m.role = "assistant" /\ m.n = n
  BY <1>2 DEF Messages
<1>4. calls \in Seq(Calls) /\ Len(calls) = n
  BY <1>2 DEF Calls
<1>5. \A j \in 1..n : calls[j].id = j
  OBVIOUS
<1>6. /\ run'.pc = "before" /\ run'.msgs = <<m>> /\ run'.todo = calls
      /\ run'.toolMap = run.toolMap /\ run'.i = run.i /\ run'.tool = run.tool
  BY <1>1 DEF RunTypeOK
<1> HIDE DEF m, calls
<1>7. <<m>> \in Seq(Messages) /\ Len(<<m>>) = 1 /\ <<m>>[1] = m
  BY <1>3
<1>8. RunTypeOK'
  BY <1>1, <1>4, <1>6, <1>7 DEF RunTypeOK, States, Executing
<1>9. run'.todo # <<>>
  BY <1>2, <1>4, <1>6
<1>10. Exchange(run'.msgs, run'.todo)
  BY <1>2, <1>3, <1>4, <1>5, <1>6, <1>7 DEF Exchange
<1> QED
  BY <1>6, <1>8, <1>9, <1>10 DEF InConversation, Executing

LEMMA ConversationStep ==
    ASSUME RegistryTypeOK, RunTypeOK, InConversation, [Next]_vars
    PROVE  RunTypeOK' /\ InConversation'
<1>1. CASE UNCHANGED run
  BY <1>1 DEF RunTypeOK, InConversation, Exchange
<1>2. CASE ListTools
  <2>1. List \subseteq Tools
    BY DEF List, RegistryTypeOK
  <2>2. RunTypeOK'
    BY <1>2, <2>1 DEF ListTools, RunTypeOK, States
  <2>3. /\ run'.pc = "loop" /\ run'.msgs = run.msgs /\ run'.todo = run.todo
        /\ run.msgs = <<>> /\ run.todo = <<>>
    BY <1>2 DEF ListTools, RunTypeOK, InConversation, Executing
  <2> QED
    BY <2>2, <2>3 DEF InConversation, Executing
<1>3. CASE NextRequest(maxIterations)
  <2>1. CASE Return("exceeded")
    BY <1>3, <2>1, ReturnStep DEF NextRequest, Executing
  <2>2. CASE run' = [run EXCEPT !.pc = "asked", !.i = @ + 1, !.msgs = <<>>]
    <3>1. RunTypeOK'
      <4>1. <<>> \in Seq(Messages) /\ "asked" \in States
        BY DEF States
      <4>2. run' = [pc |-> "asked", i |-> run.i + 1, toolMap |-> run.toolMap, msgs |-> <<>>,
                    todo |-> run.todo, tool |-> run.tool]
        BY <2>2 DEF RunTypeOK
      <4> QED
        BY <4>1, <4>2 DEF RunTypeOK
    <3>2. run'.pc = "asked" /\ run'.msgs = <<>> /\ run'.todo = <<>>
      BY <1>3, <2>2 DEF NextRequest, RunTypeOK, InConversation, Executing
    <3> QED
      BY <3>1, <3>2 DEF InConversation, Executing
  <2> QED
    BY <1>3, <2>1, <2>2 DEF NextRequest
<1>4. CASE Answer
  BY <1>4, ReturnStep DEF Answer, Executing
<1>5. CASE ToolCalls
  BY <1>5, ToolCallsStep
<1>6. ASSUME NEW pc \in Executing, run.pc \in Executing, NEW tool \in Tools \cup {NoTool},
             run' = [run EXCEPT !.pc = pc, !.tool = tool]
      PROVE  RunTypeOK' /\ InConversation'
  <2>1. RunTypeOK'
    BY <1>6 DEF RunTypeOK, States
  <2>2. run'.pc = pc /\ run'.msgs = run.msgs /\ run'.todo = run.todo
    BY <1>6 DEF RunTypeOK
  <2> QED
    BY <1>6, <2>1, <2>2 DEF InConversation, Executing
<1>7. ASSUME NEW pc \in Executing, run.pc \in Executing, run' = [run EXCEPT !.pc = pc]
      PROVE  RunTypeOK' /\ InConversation'
  <2>1. run.tool \in Tools \cup {NoTool} /\ run' = [run EXCEPT !.pc = pc, !.tool = run.tool]
    BY <1>7 DEF RunTypeOK
  <2> QED
    BY <1>6, <1>7, <2>1
<1>8. CASE BeforeCall
  BY <1>7, <1>8, RespondStep DEF BeforeCall, Executing, Contents
<1>9. CASE GetTool
  <2> DEFINE t == Get(Head(run.todo).name)
  <2>1. run.pc \in Executing
    BY <1>9 DEF GetTool, Executing
  <2>2. CASE t = NoTool
    BY <1>9, <2>1, <2>2, RespondStep DEF GetTool, Contents
  <2>3. CASE t # NoTool /\ Type[t] # "nonstreaming"
    BY <1>9, <2>1, <2>3, RespondStep DEF GetTool, Contents
  <2>4. CASE ~(t = NoTool) /\ ~(t # NoTool /\ Type[t] # "nonstreaming")
    <3>1. run' = [run EXCEPT !.pc = "execute", !.tool = t]
      BY <1>9, <2>4 DEF GetTool
    <3>2. t \in Tools \cup {NoTool}
      BY DEF Get, RegistryTypeOK
    <3> QED
      BY <1>6, <2>1, <3>1, <3>2 DEF Executing
  <2> QED
    BY <2>2, <2>3, <2>4
<1>10. CASE Execute
  BY <1>7, <1>10, RespondStep DEF Execute, Executing, Contents
<1>11. CASE AfterCall
  BY <1>11, RespondStep DEF AfterCall, Executing, Contents
<1> QED
  BY <1>1, <1>2, <1>3, <1>4, <1>5, <1>8, <1>9, <1>10, <1>11
     DEF Next, vars, agentVars, AgentStep, Loop, MCPStep, RegistryStep

LEMMA ConversationInit ==
    ASSUME Init
    PROVE  RegistryTypeOK /\ RunTypeOK /\ InConversation
<1>1. RegistryTypeOK
  BY DEF Init, NewRegistry, RegistryTypeOK
<1>2. RunTypeOK
  BY DEF Init, RunTypeOK, States
<1> QED
  BY <1>1, <1>2 DEF Init, InConversation, Executing

(* Whatever the tools, the hooks and other goroutines do, a request holds  *)
(* for every tool call of the answer before it one tool message, with its  *)
(* id and in the order of the calls.                                       *)
THEOREM EveryCallAnswered == Spec => []Answered
<1> DEFINE Inv == RegistryTypeOK /\ RunTypeOK /\ InConversation
<1>1. Init => Inv
  BY ConversationInit
<1>2. Inv /\ [Next]_vars => Inv'
  BY RegistryTypeStep, ConversationStep
<1>3. Inv => Answered
  <2> SUFFICES ASSUME Inv, run.pc = "loop", run.msgs # <<>>
               PROVE  /\ Len(run.msgs) = 1 + run.msgs[1].n
                      /\ \A j \in 2..Len(run.msgs) :
                            run.msgs[j].role = "tool" /\ run.msgs[j].id = j - 1
    BY DEF Answered
  <2>1. Exchange(run.msgs, run.todo) /\ Len(run.todo) = 0 /\ Len(run.msgs) \in Nat
    BY DEF InConversation, Executing, RunTypeOK
  <2> QED
    BY <2>1 DEF Exchange
<1> QED
  BY <1>1, <1>2, <1>3, PTL DEF Spec
-----------------------------------------------------------------------------
(* What was listed is in the registry, or somebody has unregistered it.    *)
ListedOrRemoved ==
    \A t \in run.toolMap :
        Key(t) \in removed \/ (Key(t) \in DOMAIN tools /\ tools[Key(t)] = t)

(* What a tool message and a tool that is called say of an offered tool.   *)
NotMissing(t, msgs) ==
    \A j \in DOMAIN msgs :
        msgs[j].role = "tool" /\ msgs[j].content = "not found" => Trim[msgs[j].name] # Key(t)

RunsIt(t) ==
    run.pc \in {"execute", "after"} /\ Trim[Head(run.todo).name] = Key(t) => run.tool = t

LEMMA OfferedParts ==
    OfferedOrRemoved <=>
        \A t \in run.toolMap : Key(t) \in removed \/ (NotMissing(t, run.msgs) /\ RunsIt(t))
  BY DEF OfferedOrRemoved, NotMissing, RunsIt

(* Fields that all steps of executeTool leave alone.                       *)
LEMMA RespondFields ==
    ASSUME RunTypeOK, InConversation, run.pc \in Executing, NEW content, Respond(content)
    PROVE  /\ run'.toolMap = run.toolMap
           /\ \A j \in DOMAIN run'.msgs :
                 \/ j \in DOMAIN run.msgs /\ run'.msgs[j] = run.msgs[j]
                 \/ /\ run'.msgs[j].name = Head(run.todo).name
                    /\ run'.msgs[j].content = content
<1> DEFINE m == [role |-> "tool", id |-> Head(run.todo).id,
                 name |-> Head(run.todo).name, content |-> content]
<1>1. run'.toolMap = run.toolMap /\ run'.msgs = Append(run.msgs, m)
  BY DEF Respond, RunTypeOK
<1> HIDE DEF m
<1>2. run.msgs \in Seq(Messages)
  BY DEF RunTypeOK
<1>3. \A j \in DOMAIN run'.msgs :
        \/ j \in DOMAIN run.msgs /\ run'.msgs[j] = run.msgs[j]
        \/ run'.msgs[j] = m
  BY <1>1, <1>2
<1>4. m.name = Head(run.todo).name /\ m.content = content
  BY DEF m
<1> QED
  BY <1>1, <1>3, <1>4

(* Of the answers to a call, only "not found" says that the registry did   *)
(* not have the tool.                                                      *)
LEMMA OfferedRespond ==
    ASSUME RunTypeOK, InConversation, OfferedOrRemoved, run.pc \in Executing,
           NEW content, Respond(content), UNCHANGED removed,
           content = "not found" =>
               \A t \in run.toolMap : Trim[Head(run.todo).name] = Key(t) => Key(t) \in removed
    PROVE  OfferedOrRemoved'
<1>1. run'.toolMap = run.toolMap /\ run'.pc \in {"loop", "before"}
  BY RespondFields DEF Respond, RunTypeOK
<1>2. ASSUME NEW t \in run.toolMap, Key(t) \notin removed
      PROVE  NotMissing(t, run'.msgs)
  <2>1. NotMissing(t, run.msgs)
    BY <1>2, OfferedParts
  <2> SUFFICES ASSUME NEW j \in DOMAIN run'.msgs,
                      run'.msgs[j].role = "tool", run'.msgs[j].content = "not found"
               PROVE  Trim[run'.msgs[j].name] # Key(t)
    BY DEF NotMissing
  <2>2. CASE j \in DOMAIN run.msgs /\ run'.msgs[j] = run.msgs[j]
    BY <2>1, <2>2 DEF NotMissing
  <2>3. CASE run'.msgs[j].name = Head(run.todo).name /\ run'.msgs[j].content = content
    BY <1>2, <2>3
  <2> QED
    BY <2>2, <2>3, RespondFields
<1>3. \A t : Key(t)' = Key(t)
  BY DEF Key
<1> QED
  BY <1>1, <1>2, <1>3 DEF OfferedOrRemoved, NotMissing

(* Steps that leave the messages alone, or drop them, and start no tool.   *)
LEMMA OfferedKept ==
    ASSUME OfferedOrRemoved,
           run'.toolMap \in {run.toolMap, {}}, removed \subseteq removed' \/ run'.toolMap = {},
           run'.msgs = <<>> \/ run'.msgs = run.msgs,
           \/ run'.pc \notin {"execute", "after"}
           \/ /\ run.pc \in {"execute", "after"}
              /\ run'.todo = run.todo /\ run'.tool = run.tool
    PROVE  OfferedOrRemoved'
<1>1. CASE run'.msgs = <<>>
  <2>1. DOMAIN run'.msgs = {}
    BY <1>1
  <2> QED
    BY <2>1 DEF OfferedOrRemoved
<1>2. CASE run'.msgs = run.msgs
  BY <1>2 DEF OfferedOrRemoved
<1> QED
  BY <1>1, <1>2

LEMMA OfferedStep ==
    ASSUME RegistryTypeOK, RunTypeOK, InConversation, ListedOrRemoved, OfferedOrRemoved,
           [Next]_vars
    PROVE  ListedOrRemoved' /\ OfferedOrRemoved'
<1>1. CASE UNCHANGED <<run, tools, removed>>
  BY <1>1 DEF ListedOrRemoved, OfferedOrRemoved, Key
<1>2. CASE ListTools /\ UNCHANGED tools
  <2>1. run'.toolMap = List /\ run'.msgs = <<>> /\ run'.pc = "loop"
    BY <1>2 DEF ListTools, RunTypeOK, InConversation, Executing
  <2>2. ListedOrRemoved'
    BY <1>2, <2>1 DEF ListedOrRemoved, List, RegistryTypeOK, Key
  <2>3. DOMAIN run'.msgs = {}
    BY <2>1
  <2> QED
    BY <2>1, <2>2, <2>3 DEF OfferedOrRemoved
<1>3. ASSUME NEW how, Return(how)
      PROVE  ListedOrRemoved' /\ OfferedOrRemoved'
  <2>1. run'.toolMap = {}
    BY <1>3 DEF Return, RunTypeOK
  <2> QED
    BY <2>1 DEF ListedOrRemoved, OfferedOrRemoved
<1>4. ASSUME NEW content, Respond(content), UNCHANGED <<tools, removed>>, run.pc \in Executing,
             content = "not found" =>
                 \A t \in run.toolMap :
                     Trim[Head(run.todo).name] = Key(t) => Key(t) \in removed
      PROVE  ListedOrRemoved' /\ OfferedOrRemoved'
  <2>1. OfferedOrRemoved'
    BY <1>4, OfferedRespond
  <2>2. run'.toolMap = run.toolMap
    BY <1>4, RespondFields
  <2> QED
    BY <1>4, <2>1, <2>2 DEF ListedOrRemoved, Key
<1>5. ASSUME UNCHANGED <<tools, removed>>, run'.toolMap = run.toolMap,
             run'.msgs = <<>> \/ run'.msgs = run.msgs,
             \/ run'.pc \notin {"execute", "after"}
             \/ /\ run.pc \in {"execute", "after"}
                /\ run'.todo = run.todo /\ run'.tool = run.tool
      PROVE  ListedOrRemoved' /\ OfferedOrRemoved'
  BY <1>5, OfferedKept DEF ListedOrRemoved, Key
<1>6. CASE NextRequest(maxIterations) /\ UNCHANGED tools
  <2>1. CASE run' = [run EXCEPT !.pc = "asked", !.i = @ + 1, !.msgs = <<>>] /\ UNCHANGED removed
    BY <1>5, <1>6, <2>1 DEF RunTypeOK
  <2> QED
    BY <1>3, <1>6, <2>1 DEF NextRequest
<1>7. CASE Answer
  BY <1>3, <1>7 DEF Answer
<1>8. CASE ToolCalls /\ UNCHANGED tools
  <2>1. PICK n : /\ run'.toolMap = run.toolMap /\ run'.pc = "before"
                 /\ run'.msgs = <<[role |-> "assistant", n |-> n]>>
    BY <1>8 DEF ToolCalls, RunTypeOK
  <2>2. \A j \in DOMAIN run'.msgs : run'.msgs[j].role = "assistant"
    BY <2>1
  <2> QED
    BY <1>8, <2>1, <2>2 DEF ListedOrRemoved, OfferedOrRemoved, ToolCalls, Key
<1>9. CASE BeforeCall /\ UNCHANGED tools
  <2>1. CASE run' = [run EXCEPT !.pc = "get"]
    BY <1>5, <1>9, <2>1 DEF BeforeCall, RunTypeOK
  <2> QED
    BY <1>4, <1>9, <2>1 DEF BeforeCall, Executing
<1>10. CASE GetTool /\ UNCHANGED tools
  <2> DEFINE n == Head(run.todo).name
             t == Get(n)
  <2>1. CASE t = NoTool
    <3>1. Respond("not found")
      BY <1>10, <2>1 DEF GetTool
    <3>2. Trim[n] \notin DOMAIN tools
      BY <2>1, RegistryAssumption DEF Get, RegistryTypeOK
    <3>3. \A u \in run.toolMap : Trim[n] = Key(u) => Key(u) \in removed
      BY <3>2 DEF ListedOrRemoved
    <3> QED
      BY <1>4, <1>10, <3>1, <3>3 DEF GetTool, Executing
  <2>2. CASE t # NoTool /\ Type[t] # "nonstreaming"
    <3>1. Respond("wrong type")
      BY <1>10, <2>2 DEF GetTool
    <3> QED
      BY <1>4, <1>10, <3>1 DEF GetTool, Executing
  <2>3. CASE ~(t = NoTool) /\ ~(t # NoTool /\ Type[t] # "nonstreaming")
    <3>1. run' = [run EXCEPT !.pc = "execute", !.tool = t]
      BY <1>10, <2>3 DEF GetTool
    <3>2. /\ run'.toolMap = run.toolMap /\ run'.msgs = run.msgs /\ run'.todo = run.todo
          /\ run'.tool = t
      BY <3>1 DEF RunTypeOK
    <3>3. UNCHANGED <<tools, removed>>
      BY <1>10 DEF GetTool
    <3>4. Trim[n] \in DOMAIN tools /\ t = tools[Trim[n]]
      BY <2>3 DEF Get
    <3>5. ListedOrRemoved'
      BY <3>2, <3>3 DEF ListedOrRemoved, Key
    <3>6. ASSUME NEW u \in run.toolMap, Key(u) \notin removed
          PROVE  NotMissing(u, run.msgs) /\ (Trim[n] = Key(u) => t = u)
      BY <3>4, <3>6, OfferedParts DEF ListedOrRemoved
    <3> HIDE DEF n, t
    <3>7. OfferedOrRemoved'
      BY <3>2, <3>3, <3>6 DEF OfferedOrRemoved, NotMissing, Key, n
    <3> QED
      BY <3>5, <3>7
  <2> QED
    BY <2>1, <2>2, <2>3
<1>11. CASE Execute /\ UNCHANGED tools
  <2>1. CASE run' = [run EXCEPT !.pc = "after"]
    BY <1>5, <1>11, <2>1 DEF Execute, RunTypeOK
  <2> QED
    BY <1>4, <1>11, <2>1 DEF Execute, Executing
<1>12. CASE AfterCall /\ UNCHANGED tools
  BY <1>4, <1>12 DEF AfterCall, Executing
<1>13. ASSUME NEW c \in Callers, RegistryStep(c)
       PROVE  ListedOrRemoved' /\ OfferedOrRemoved'
  <2>1. run' = run
    BY <1>13 DEF RegistryStep
  <2>2. removed \subseteq removed'
    BY <1>13 DEF RegistryStep
  <2>3. CASE \E t \in Tools : RegisterCheck(c, t) /\ UNCHANGED removed
    BY <2>1, <2>3, OfferedKept DEF RegisterCheck, ListedOrRemoved, Key
  <2>4. CASE RegisterStore(c) /\ UNCHANGED removed
    <3>1. \A k \in DOMAIN tools : k \in DOMAIN tools' /\ tools'[k] = tools[k]
      BY <2>4 DEF RegisterStore
    <3> QED
      BY <2>1, <2>4, <3>1, OfferedKept DEF ListedOrRemoved, Key
  <2>5. ASSUME NEW k \in Keys, Unregister(c, k),
               removed' = removed \cup ({k} \cap {Key(t) : t \in run.toolMap})
        PROVE  ListedOrRemoved'
    <3>1. \A j \in DOMAIN tools \ {k} : j \in DOMAIN tools' /\ tools'[j] = tools[j]
      BY <2>5 DEF Unregister
    <3> QED
      BY <2>1, <2>5, <3>1 DEF ListedOrRemoved, Key
  <2> QED
    BY <1>13, <2>1, <2>2, <2>3, <2>4, <2>5, OfferedKept DEF RegistryStep
<1> QED
  BY <1>1, <1>2, <1>6, <1>7, <1>8, <1>9, <1>10, <1>11, <1>12, <1>13
     DEF Next, vars, agentVars, AgentStep, Loop, MCPStep

(* Run lists the tools once and looks them up again at every call.  A call *)
(* of a tool that was offered is not answered "not found" and runs no      *)
(* other tool, unless somebody has unregistered its name in between.       *)
THEOREM OfferedIsFound == Spec => []OfferedOrRemoved
<1> DEFINE Inv == /\ RegistryTypeOK /\ RunTypeOK /\ InConversation
                  /\ ListedOrRemoved /\ OfferedOrRemoved
<1>1. Init => Inv
  BY ConversationInit DEF Init, ListedOrRemoved, OfferedOrRemoved
<1>2. Inv /\ [Next]_vars => Inv'
  BY RegistryTypeStep, ConversationStep, OfferedStep
<1>3. Inv => OfferedOrRemoved
  OBVIOUS
<1> QED
  BY <1>1, <1>2, <1>3, PTL DEF Spec

-----------------------------------------------------------------------------
(* The tool calling program: its inductive invariant.                      *)

IndexedCalls == [id : Nat, name : Names, index : Nat]
AnyCalls == [id : Nat, name : Names, index : Nat \cup {None}]
Results == [id : Nat, chunks : Seq(Nat), n : Nat]
Generators ==
    [pc : {"idle", "next", "send", "closed", "panic"}, chunks : Nat, choice : BOOLEAN,
     calls : [Indices -> Names \cup {None}], index : [Indices -> Indices \cup {None}],
     resp : Responses \cup {None}, errs : BOOLEAN]
Programs ==
    [mode : {"generate", "stream"},
     pc : {"turn", "generate", "stream", "execute", "recv", "failed", "received",
           "exceeded", "finished", "empty", "error", "missing", "tool error"},
     turn : Nat, final : Responses \cup {None}, calls : Seq(AnyCalls), out : Seq(Results)]
Streams ==
    [writer : {"ready", "sending", "ended"}, i : Nat, n : Nat,
     items : Seq(Nat \cup {Error}), eof : BOOLEAN, closed : BOOLEAN,
     got : Seq(Nat \cup {Error})]

(* c lists the calls that were announced, in order.                        *)
Assembled(c, calls) ==
    /\ {<<c[i].id, c[i].name, c[i].index>> : i \in DOMAIN c}
         = {<<j, calls[j], j>> : j \in {k \in Indices : calls[k] # None}}
    /\ \A i, j \in DOMAIN c : i < j => c[i].id < c[j].id

-----------------------------------------------------------------------------
(* Induction over numbers, from their order being well founded.            *)
LEMMA LessThan == \E R : IsWellFoundedOn(R, Nat) /\ \A a, b \in Nat : <<a, b>> \in R <=> a < b
<1> DEFINE R == OpToRel(<, Nat)
<1>1. IsWellFoundedOn(R, Nat)
  BY NatLessThanWellFounded, Zenon
<1>2. \A a, b \in Nat : <<a, b>> \in R <=> a < b
  BY DEF OpToRel
<1> WITNESS R
<1> QED
  BY <1>1, <1>2, Zenon

LEMMA LeastNumber ==
    ASSUME NEW T, T \subseteq Nat, NEW x \in T
    PROVE  \E m \in T : \A y \in T : ~(y < m)
<1>1. PICK R : IsWellFoundedOn(R, Nat) /\ \A a, b \in Nat : <<a, b>> \in R <=> a < b
  BY LessThan
<1>2. PICK m \in T : \A y \in T : ~ (<<y, m>> \in R)
  BY <1>1, WFMin
<1> QED
  BY <1>1, <1>2

LEMMA NumbersUpTo ==
    ASSUME NEW n \in Nat, NEW S, 0 \in S, \A i \in 0..n - 1 : i \in S => i + 1 \in S
    PROVE  0..n \subseteq S
<1> SUFFICES ASSUME NEW T, T = 0..n \ S, NEW x \in T PROVE FALSE
  OBVIOUS
<1>1. PICK m \in T : \A y \in T : ~(y < m)
  <2>1. T \subseteq Nat
    OBVIOUS
  <2> QED
    BY <2>1, LeastNumber
<1>2. m \in 0..n /\ m # 0 /\ m - 1 \in 0..n - 1 /\ (m - 1) + 1 = m
  BY <1>1
<1>3. m - 1 \in S
  BY <1>1, <1>2
<1> QED
  BY <1>1, <1>2, <1>3

-----------------------------------------------------------------------------
(* The calls of a final response.                                          *)

(* c lists the calls below n.                                              *)
Lists(c, n, calls) ==
    /\ c \in Seq(IndexedCalls)
    /\ \A i \in 1..Len(c) :
          /\ c[i].id \in 0..n - 1 /\ calls[c[i].id] # None
          /\ c[i].name = calls[c[i].id] /\ c[i].index = c[i].id
    /\ \A j \in 0..n - 1 : calls[j] # None => \E i \in 1..Len(c) : c[i].id = j
    /\ \A i, j \in 1..Len(c) : i < j => c[i].id < c[j].id

LEMMA ListsSkip ==
    ASSUME NEW n \in Nat, NEW c, NEW calls, Lists(c, n, calls), calls[n] = None
    PROVE  Lists(c, n + 1, calls)
<1>1. \A j \in 0..(n + 1) - 1 : j \in 0..n - 1 \/ j = n
  OBVIOUS
<1>2. \A j \in 0..n - 1 : j \in 0..(n + 1) - 1
  OBVIOUS
<1> QED
  BY <1>1, <1>2, Zenon DEF Lists

LEMMA ListsAppend ==
    ASSUME NEW n \in Nat, NEW c, NEW calls, Lists(c, n, calls), calls[n] # None,
           NEW x \in IndexedCalls, x.id = n, x.name = calls[n], x.index = n
    PROVE  Lists(Append(c, x), n + 1, calls)
<1> DEFINE d == Append(c, x)
<1>1. c \in Seq(IndexedCalls) /\ Len(c) \in Nat
  BY DEF Lists
<1>2. /\ d \in Seq(IndexedCalls) /\ Len(d) = Len(c) + 1 /\ d[Len(c) + 1] = x
      /\ \A i \in 1..Len(c) : d[i] = c[i]
  BY <1>1
<1> HIDE DEF d
<1>3. \A i \in 1..Len(d) : i \in 1..Len(c) \/ i = Len(c) + 1
  BY <1>1, <1>2
<1>4. \A i \in 1..Len(c) : i \in 1..Len(d)
  BY <1>1, <1>2
<1>5. ASSUME NEW i \in 1..Len(d)
      PROVE  /\ d[i].id \in 0..(n + 1) - 1 /\ calls[d[i].id] # None
             /\ d[i].name = calls[d[i].id] /\ d[i].index = d[i].id
  <2>1. CASE i \in 1..Len(c)
    <3>1. /\ c[i].id \in 0..n - 1 /\ calls[c[i].id] # None
          /\ c[i].name = calls[c[i].id] /\ c[i].index = c[i].id
      BY <2>1, Zenon DEF Lists
    <3>2. c[i].id \in 0..(n + 1) - 1
      BY <3>1
    <3> QED
      BY <1>2, <2>1, <3>1, <3>2, Zenon
  <2>2. CASE i = Len(c) + 1
    <3>1. n \in 0..(n + 1) - 1
      OBVIOUS
    <3> QED
      BY <1>2, <2>2, <3>1, Zenon
  <2> QED
    BY <1>3, <2>1, <2>2
<1>6. ASSUME NEW j \in 0..(n + 1) - 1, calls[j] # None
      PROVE  \E i \in 1..Len(d) : d[i].id = j
  <2>1. CASE j = n
    <3>1. Len(c) + 1 \in 1..Len(d)
      BY <1>1, <1>2
    <3> QED
      BY <1>2, <2>1, <3>1, Zenon
  <2>2. CASE j \in 0..n - 1
    <3>1. PICK i \in 1..Len(c) : c[i].id = j
      BY <1>6, <2>2, Zenon DEF Lists
    <3> QED
      BY <1>2, <1>4, <3>1, Zenon
  <2> QED
    BY <2>1, <2>2
<1>7. ASSUME NEW i \in 1..Len(d), NEW j \in 1..Len(d), i < j
      PROVE  d[i].id < d[j].id
  <2>1. i \in 1..Len(c)
    BY <1>1, <1>2, <1>7
  <2>2. CASE j \in 1..Len(c)
    BY <1>2, <1>7, <2>1, <2>2, Zenon DEF Lists
  <2>3. CASE j = Len(c) + 1
    <3>1. c[i].id \in 0..n - 1
      BY <2>1, Zenon DEF Lists
    <3>2. d[i] = c[i] /\ d[j] = x
      BY <1>2, <2>1, <2>3, Zenon
    <3> QED
      BY <3>1, <3>2
  <2> QED
    BY <1>3, <2>2, <2>3
<1>8. Lists(d, n + 1, calls)
  BY <1>2, <1>5, <1>6, <1>7, Zenon DEF Lists
<1> QED
  BY <1>8 DEF d

LEMMA ListsAssembled ==
    ASSUME NEW c, NEW calls, Lists(c, MaxIndex + 1, calls)
    PROVE  Assembled(c, calls)
<1>0. MaxIndex \in Nat
  BY ChatStreamAssumption
<1>1. c \in Seq(IndexedCalls) /\ DOMAIN c = 1..Len(c)
  BY DEF Lists
<1>2. 0..(MaxIndex + 1) - 1 = Indices
  BY <1>0 DEF Indices
<1>3. ASSUME NEW i \in DOMAIN c
      PROVE  \E j \in {k \in Indices : calls[k] # None} :
                <<c[i].id, c[i].name, c[i].index>> = <<j, calls[j], j>>
  <2>1. /\ c[i].id \in Indices /\ calls[c[i].id] # None
        /\ c[i].name = calls[c[i].id] /\ c[i].index = c[i].id
    BY <1>1, <1>2, Zenon DEF Lists
  <2> QED
    BY <2>1, Zenon
<1>4. ASSUME NEW j \in {k \in Indices : calls[k] # None}
      PROVE  \E i \in DOMAIN c : <<c[i].id, c[i].name, c[i].index>> = <<j, calls[j], j>>
  <2>1. PICK i \in 1..Len(c) : c[i].id = j
    BY <1>2, Zenon DEF Lists
  <2>2. c[i].name = calls[j] /\ c[i].index = j
    BY <2>1, Zenon DEF Lists
  <2> QED
    BY <1>1, <2>1, <2>2, Zenon
<1>5. {<<c[i].id, c[i].name, c[i].index>> : i \in DOMAIN c}
         = {<<j, calls[j], j>> : j \in {k \in Indices : calls[k] # None}}
  <2>1. ASSUME NEW t, t \in {<<c[i].id, c[i].name, c[i].index>> : i \in DOMAIN c}
        PROVE  t \in {<<j, calls[j], j>> : j \in {k \in Indices : calls[k] # None}}
    <3>1. PICK i \in DOMAIN c : t = <<c[i].id, c[i].name, c[i].index>>
      BY <2>1
    <3>2. \E j \in {k \in Indices : calls[k] # None} : t = <<j, calls[j], j>>
      BY <1>3, <3>1, Zenon
    <3> QED
      BY <3>2
  <2>2. ASSUME NEW t, t \in {<<j, calls[j], j>> : j \in {k \in Indices : calls[k] # None}}
        PROVE  t \in {<<c[i].id, c[i].name, c[i].index>> : i \in DOMAIN c}
    <3>1. PICK j \in {k \in Indices : calls[k] # None} : t = <<j, calls[j], j>>
      BY <2>2
    <3>2. \E i \in DOMAIN c : t = <<c[i].id, c[i].name, c[i].index>>
      BY <1>4, <3>1, Zenon
    <3> QED
      BY <3>2
  <2> QED
    BY <2>1, <2>2
<1>6. \A i, j \in DOMAIN c : i < j => c[i].id < c[j].id
  BY <1>1, Zenon DEF Lists
<1> QED
  BY <1>5, <1>6, Zenon DEF Assembled

(* The function that generateToolCalls defines by recursion exists, and    *)
(* lists the calls it has passed.                                          *)
LEMMA GenerateLists ==
    ASSUME gen.calls \in [Indices -> Names \cup {None}],
           \A j \in Indices : gen.index[j] \in {None, j}
    PROVE  Lists(generateToolCalls, MaxIndex + 1, gen.calls)
<1> DEFINE call(j) == [id |-> j, name |-> gen.calls[j],
                       index |-> IF gen.index[j] = None THEN j ELSE gen.index[j]]
           Step(v, j) == IF gen.calls[j - 1] = None THEN v ELSE Append(v, call(j - 1))
           Def(f, m) == f = [j \in 0..m |-> IF j = 0 THEN <<>> ELSE Step(f[j - 1], j)]
           Given(f) == f = [j \in 0..MaxIndex + 1 |->
                               IF j = 0 THEN <<>>
                               ELSE IF gen.calls[j - 1] = None THEN f[j - 1]
                               ELSE Append(f[j - 1], call(j - 1))]
           F == CHOOSE f : Given(f)
           N == MaxIndex + 1
<1>0. MaxIndex \in Nat /\ N \in Nat /\ N \in 0..N
  BY ChatStreamAssumption
<1>1. \A f : Given(f) <=> Def(f, N)
  BY Zenon
<1>2. generateToolCalls = F[N]
  BY Zenon DEF generateToolCalls
<1> HIDE DEF Step, Given
<1> DEFINE E == {m \in Nat : \E f : Def(f, m)}
<1>3. 0 \in E
  <2>1. Def([d \in 0..0 |-> <<>>], 0)
    OBVIOUS
  <2> HIDE DEF Def
  <2> QED
    BY <2>1
<1>4. ASSUME NEW m \in Nat, m \in E
      PROVE  m + 1 \in E
  <2>1. PICK f : Def(f, m)
    BY <1>4
  <2> DEFINE g == [i \in 0..m + 1 |-> IF i = m + 1 THEN Step(f[m], i) ELSE f[i]]
  <2>2. Def(g, m + 1)
    <3>1. \A i \in 0..m : f[i] = IF i = 0 THEN <<>> ELSE Step(f[i - 1], i)
      BY <2>1
    <3>2. ASSUME NEW i \in 0..m + 1
          PROVE  g[i] = IF i = 0 THEN <<>> ELSE Step(g[i - 1], i)
      <4>1. CASE i = m + 1
        BY <4>1
      <4>2. CASE i \in 0..m
        BY <3>1, <4>2
      <4> QED
        BY <4>1, <4>2
    <3> QED
      BY <3>2
  <2> HIDE DEF Def, g
  <2> QED
    BY <2>2
<1>5. Def(F, N)
  <2>1. \A i \in 0..N - 1 : i \in Nat
    BY <1>0
  <2>2. \A i \in 0..N - 1 : i \in E => i + 1 \in E
    <3> HIDE DEF E
    <3> QED
      BY <1>4, <2>1, Zenon
  <2>3. 0..N \subseteq E
    <3> HIDE DEF E
    <3> QED
      BY <1>0, <1>3, <2>2, NumbersUpTo, Zenon
  <2>4. \E f : Def(f, N)
    <3> HIDE DEF Def, N
    <3> QED
      BY <1>0, <2>3
  <2> HIDE DEF Def
  <2> QED
    BY <1>1, <2>4, Zenon
<1> HIDE DEF F
<1>6. F[0] = <<>> /\ \A j \in 1..N : F[j] = Step(F[j - 1], j)
  BY <1>0, <1>5
<1> DEFINE S == {m \in 0..N : Lists(F[m], m, gen.calls)}
<1>7. 0 \in S
  <2>1. <<>> \in Seq(IndexedCalls) /\ Len(<<>>) = 0 /\ 1..0 = {} /\ 0..0 - 1 = {} /\ 0 \in 0..N
    BY <1>0
  <2>2. Lists(<<>>, 0, gen.calls)
    BY <2>1 DEF Lists
  <2> QED
    BY <1>6, <2>1, <2>2
<1>8. ASSUME NEW m \in 0..N - 1, m \in S
      PROVE  m + 1 \in S
  <2>1. /\ m \in Nat /\ m + 1 \in 1..N /\ m + 1 \in 0..N /\ (m + 1) - 1 = m /\ m \in Indices
        /\ Lists(F[m], m, gen.calls)
    BY <1>0, <1>8 DEF Indices
  <2>2. F[m + 1] = IF gen.calls[m] = None THEN F[m] ELSE Append(F[m], call(m))
    BY <1>6, <2>1, Zenon DEF Step
  <2>3. CASE gen.calls[m] = None
    <3>1. Lists(F[m + 1], m + 1, gen.calls)
      BY <2>1, <2>2, <2>3, ListsSkip, Zenon
    <3> QED
      BY <2>1, <3>1
  <2>4. CASE gen.calls[m] # None
    <3>1. call(m) \in IndexedCalls /\ call(m).id = m /\ call(m).name = gen.calls[m] /\ call(m).index = m
      <4>1. gen.calls[m] \in Names /\ gen.index[m] \in {None, m} /\ m \in Nat
        BY <2>1, <2>4
      <4> QED
        BY <4>1 DEF IndexedCalls
    <3> HIDE DEF call
    <3>2. Lists(F[m + 1], m + 1, gen.calls)
      BY <2>1, <2>2, <2>4, <3>1, ListsAppend, Zenon
    <3> QED
      BY <2>1, <3>2
  <2> QED
    BY <2>3, <2>4
<1>9. N \in S
  <2> HIDE DEF S
  <2>1. 0..N \subseteq S
    BY <1>0, <1>7, <1>8, NumbersUpTo, Zenon
  <2> QED
    BY <1>0, <2>1
<1> QED
  BY <1>2, <1>9

-----------------------------------------------------------------------------
(* The goroutine of Stream.                                                *)

Mapped(g) == \A j \in Indices : g.index[j] \in {None, j}

GenGood(g) ==
    /\ g \in Generators /\ Mapped(g)
    /\ g.pc = "send" <=> g.resp # None
    /\ g.resp # None /\ g.resp.kind = "final" => Assembled(g.resp.calls, g.calls)
    /\ g.errs => g.pc = "closed"
    /\ g.pc = "panic" => ~g.choice

(* A response is not the missing one.                                      *)
LEMMA ResponseIs ==
    ASSUME NEW kind \in {"partial", "final", "error"}, NEW calls \in Seq(IndexedCalls),
           NEW r, r = [kind |-> kind, calls |-> calls]
    PROVE  r \in Responses /\ r # None /\ r.kind = kind /\ r.calls = calls
<1>1. r \in Responses /\ r.kind = kind /\ r.calls = calls
  BY DEF Responses, IndexedCalls
<1>2. r # None
  BY <1>1, ChatStreamAssumption
<1> QED
  BY <1>1, <1>2

LEMMA NewGenGood ==
    /\ GenGood(NewGen) /\ NewGen.pc = "next" /\ NewGen.errs = FALSE
    /\ GenGood(IdleGen) /\ IdleGen.pc = "idle"
<1> DEFINE none == [j \in Indices |-> None]
<1>1. /\ none \in [Indices -> Names \cup {None}] /\ none \in [Indices -> Indices \cup {None}]
      /\ \A j \in Indices : none[j] = None
  OBVIOUS
<1>2. NewGen = [pc |-> "next", chunks |-> 0, choice |-> FALSE, calls |-> none,
                index |-> none, resp |-> None, errs |-> FALSE]
  BY DEF NewGen
<1> HIDE DEF none
<1>3. /\ NewGen \in Generators /\ NewGen.index = none /\ NewGen.resp = None
      /\ NewGen.pc = "next" /\ NewGen.errs = FALSE
  BY <1>1, <1>2 DEF Generators
<1>4. /\ IdleGen \in Generators /\ IdleGen.index = none /\ IdleGen.resp = None
      /\ IdleGen.pc = "idle" /\ IdleGen.errs = FALSE
  BY <1>3 DEF IdleGen, Generators
<1> QED
  BY <1>1, <1>3, <1>4 DEF GenGood, Mapped

(* A partial or an error response is about to be sent.                     *)
LEMMA SendGood ==
    ASSUME NEW g \in Generators, Mapped(g), g.errs = FALSE, NEW kind \in {"partial", "error"}
    PROVE  GenGood(Send(g, kind)) /\ Send(g, kind).pc = "send" /\ Send(g, kind).errs = FALSE
<1>0. PICK r : r = [kind |-> kind, calls |-> <<>>]
  OBVIOUS
<1>1. r \in Responses /\ r # None /\ r.kind = kind
  <2>1. <<>> \in Seq(IndexedCalls)
    OBVIOUS
  <2> QED
    BY <1>0, <2>1, ResponseIs
<1>2. PICK h : h = [g EXCEPT !.pc = "send", !.resp = r]
  OBVIOUS
<1>3. Send(g, kind) = h
  BY <1>0, <1>2 DEF Send
<1>4. /\ h \in Generators /\ h.pc = "send" /\ h.resp = r /\ h.errs = g.errs /\ h.index = g.index
  BY <1>1, <1>2 DEF Generators
<1>5. GenGood(h)
  BY <1>1, <1>4 DEF GenGood, Mapped
<1> QED
  BY <1>3, <1>4, <1>5

LEMMA DeltaIndices ==
    ASSUME NEW d \in Deltas PROVE d[1] \in Indices /\ \A i \in DOMAIN d : d[i] \in Indices
<1>1. PICK n \in 1..MaxDeltas : d \in [1..n -> Indices]
  BY DEF Deltas
<1>2. 1 \in 1..n
  BY ChatStreamAssumption
<1> QED
  BY <1>1, <1>2

LEMMA ChunkGood ==
    ASSUME GenGood(gen), Chunk
    PROVE  GenGood(gen') /\ gen'.pc = "send" /\ gen'.errs = FALSE
<1> DEFINE g == [gen EXCEPT !.chunks = @ + 1]
<1>0. gen \in Generators /\ Mapped(gen) /\ gen.pc = "next" /\ gen.errs = FALSE
  BY DEF GenGood, Generators, Chunk
<1>1. /\ g \in Generators /\ g.index = gen.index /\ g.calls = gen.calls /\ g.errs = gen.errs
  BY <1>0 DEF Generators
<1>2. \/ \E choice \in {gen.choice, TRUE} : gen' = Send([g EXCEPT !.choice = choice], "partial")
      \/ \E d \in Deltas : \E names \in [DOMAIN d -> Names] :
            gen' = Send([g EXCEPT !.choice = TRUE, !.calls = AddChunk(d, names),
                                  !.index = updateToolCallIndexMapping(d)], "partial")
  BY DEF Chunk
<1> HIDE DEF g
<1>3. ASSUME NEW choice \in {gen.choice, TRUE},
             gen' = Send([g EXCEPT !.choice = choice], "partial")
      PROVE  GenGood(gen') /\ gen'.pc = "send" /\ gen'.errs = FALSE
  <2>1. PICK h : h = [g EXCEPT !.choice = choice]
    OBVIOUS
  <2>2. choice \in BOOLEAN
    BY <1>0 DEF Generators
  <2>3. h \in Generators /\ h.index = g.index /\ h.errs = g.errs
    BY <1>1, <2>1, <2>2 DEF Generators
  <2>4. Mapped(h) /\ h.errs = FALSE
    BY <1>0, <1>1, <2>3 DEF Mapped
  <2> QED
    BY <1>3, <2>1, <2>3, <2>4, SendGood
<1>4. ASSUME NEW d \in Deltas, NEW names \in [DOMAIN d -> Names],
             gen' = Send([g EXCEPT !.choice = TRUE, !.calls = AddChunk(d, names),
                                  !.index = updateToolCallIndexMapping(d)], "partial")
      PROVE  GenGood(gen') /\ gen'.pc = "send" /\ gen'.errs = FALSE
  <2>1. PICK c, m : c = AddChunk(d, names) /\ m = updateToolCallIndexMapping(d)
    OBVIOUS
  <2>2. c \in [Indices -> Names \cup {None}]
    <3>1. \A j \in Indices : (\E i \in DOMAIN d : d[i] = j) =>
             names[CHOOSE i \in DOMAIN d : d[i] = j] \in Names
      OBVIOUS
    <3>2. gen.calls \in [Indices -> Names \cup {None}]
      BY <1>0 DEF Generators
    <3> QED
      BY <2>1, <3>1, <3>2 DEF AddChunk
  <2>3. m \in [Indices -> Indices \cup {None}] /\ \A j \in Indices : m[j] \in {None, j}
    <3>1. d[1] \in Indices
      BY DeltaIndices
    <3>2. gen.index \in [Indices -> Indices \cup {None}]
      BY <1>0 DEF Generators
    <3> QED
      BY <1>0, <2>1, <3>1, <3>2 DEF updateToolCallIndexMapping, Mapped
  <2>4. PICK h : h = [g EXCEPT !.choice = TRUE, !.calls = c, !.index = m]
    OBVIOUS
  <2>5. gen' = Send(h, "partial")
    BY <1>4, <2>1, <2>4
  <2>6. h \in Generators /\ h.index = m /\ h.errs = g.errs
    BY <1>1, <2>2, <2>3, <2>4 DEF Generators
  <2>7. Mapped(h) /\ h.errs = FALSE
    BY <1>0, <1>1, <2>3, <2>6 DEF Mapped
  <2> QED
    BY <2>5, <2>6, <2>7, SendGood
<1> QED
  BY <1>2, <1>3, <1>4

LEMMA StreamEndGood ==
    ASSUME GenGood(gen), StreamEnd
    PROVE  GenGood(gen') /\ gen'.pc \in {"send", "panic"} /\ gen'.errs = FALSE
<1>0. gen \in Generators /\ Mapped(gen) /\ gen.pc = "next" /\ gen.errs = FALSE /\ gen.resp = None
  BY DEF GenGood, Generators, StreamEnd
<1>1. CASE gen.choice
  <2>1. PICK c : c = generateToolCalls
    OBVIOUS
  <2>2. Lists(c, MaxIndex + 1, gen.calls)
    BY <1>0, <2>1, GenerateLists DEF Generators, Mapped
  <2>3. c \in Seq(IndexedCalls) /\ Assembled(c, gen.calls)
    BY <2>2, ListsAssembled DEF Lists
  <2>0. PICK r : r = [kind |-> "final", calls |-> c]
    OBVIOUS
  <2>4. r \in Responses /\ r # None /\ r.kind = "final" /\ r.calls = c
    BY <2>0, <2>3, ResponseIs
  <2>5. gen' = [gen EXCEPT !.pc = "send", !.resp = r]
    BY <1>1, <2>0, <2>1 DEF StreamEnd
  <2>6. /\ gen' \in Generators /\ gen'.pc = "send" /\ gen'.resp = r /\ gen'.errs = gen.errs
        /\ gen'.index = gen.index /\ gen'.calls = gen.calls
    BY <1>0, <2>4, <2>5 DEF Generators
  <2> QED
    BY <1>0, <2>3, <2>4, <2>6 DEF GenGood, Mapped
<1>2. CASE ~gen.choice
  <2>1. gen' = [gen EXCEPT !.pc = "panic"]
    BY <1>2 DEF StreamEnd
  <2>2. /\ gen' \in Generators /\ gen'.pc = "panic" /\ gen'.resp = None /\ gen'.errs = gen.errs
        /\ gen'.index = gen.index /\ gen'.choice = gen.choice
    BY <1>0, <2>1 DEF Generators
  <2> QED
    BY <1>0, <1>2, <2>2 DEF GenGood, Mapped
<1> QED
  BY <1>1, <1>2

LEMMA StreamFailsGood ==
    ASSUME GenGood(gen), StreamFails
    PROVE  GenGood(gen') /\ gen'.pc = "send" /\ gen'.errs = FALSE
<1>0. gen \in Generators /\ Mapped(gen) /\ gen.pc = "next" /\ gen.errs = FALSE
  BY DEF GenGood, Generators, StreamFails
<1>1. gen' = Send(gen, "error")
  BY DEF StreamFails
<1> QED
  BY <1>0, <1>1, SendGood

LEMMA DeliverGood ==
    ASSUME GenGood(gen), Deliver
    PROVE  /\ GenGood(gen') /\ gen'.errs = FALSE /\ gen.resp \in Responses /\ gen.resp # None
           /\ gen'.pc = IF gen.resp.kind = "partial" THEN "next" ELSE "closed"
<1>0. /\ gen \in Generators /\ Mapped(gen) /\ gen.pc = "send" /\ gen.errs = FALSE
      /\ gen.resp \in Responses /\ gen.resp # None
  BY DEF GenGood, Generators, Deliver
<1>1. PICK q \in {"next", "closed"} : /\ q = IF gen.resp.kind = "partial" THEN "next" ELSE "closed"
                                      /\ gen' = [gen EXCEPT !.pc = q, !.resp = None]
  BY DEF Deliver
<1>2. /\ gen' \in Generators /\ gen'.pc = q /\ gen'.resp = None /\ gen'.errs = gen.errs
      /\ gen'.index = gen.index
  BY <1>0, <1>1 DEF Generators
<1> QED
  BY <1>0, <1>1, <1>2 DEF GenGood, Mapped

LEMMA GiveUpGood ==
    ASSUME GenGood(gen), GiveUp
    PROVE  GenGood(gen') /\ gen'.errs = TRUE /\ gen'.pc = "closed"
<1>0. gen \in Generators /\ Mapped(gen) /\ gen.pc = "send"
  BY DEF GenGood, GiveUp
<1>1. gen' = [gen EXCEPT !.pc = "closed", !.resp = None, !.errs = TRUE]
  BY DEF GiveUp
<1>2. /\ gen' \in Generators /\ gen'.pc = "closed" /\ gen'.resp = None /\ gen'.errs = TRUE
      /\ gen'.index = gen.index
  BY <1>0, <1>1 DEF Generators
<1> QED
  BY <1>0, <1>2 DEF GenGood, Mapped

-----------------------------------------------------------------------------
(* The stream of a tool while the program reads from it.                   *)

(* The writer sends 1, 2, 3, ...: the reader has the first of them, the    *)
(* channel those that follow or an error, and i is the next to be sent.    *)
Counted(s) ==
    /\ s.got = [k \in 1..Len(s.got) |-> k]
    /\ \A j \in 1..Len(s.items) : s.items[j] \in {Len(s.got) + j, Error}
    /\ s.i = Len(s.got) + Len(s.items) + 1

(* The writer ends after the last number, unless the reader has left.      *)
StreamGood(s) ==
    /\ s \in Streams /\ s.closed = FALSE /\ Counted(s)
    /\ s.i <= s.n + 1
    /\ s.writer = "sending" => s.i <= s.n
    /\ s.eof => s.writer = "ended" /\ s.i = s.n + 1

LEMMA CountedSame ==
    ASSUME NEW s, NEW u, Counted(s), u.got = s.got, u.items = s.items, u.i = s.i
    PROVE  Counted(u)
  BY Zenon DEF Counted

LEMMA NewStreamGood == ASSUME NEW n \in Nat PROVE StreamGood(NewStream(n))
<1>1. PICK s : s = NewStream(n)
  OBVIOUS
<1>2. <<>> \in Seq(Nat \cup {Error}) /\ Len(<<>>) = 0
  OBVIOUS
<1>3. /\ s \in Streams /\ s.closed = FALSE /\ s.got = <<>> /\ s.items = <<>> /\ s.i = 1
      /\ s.n = n /\ s.writer = "ready" /\ s.eof = FALSE
  BY <1>1, <1>2 DEF NewStream, Streams
<1>4. Counted(s)
  <2>1. <<>> = [k \in 1..0 |-> k]
    OBVIOUS
  <2> QED
    BY <1>2, <1>3, <2>1 DEF Counted
<1>5. StreamGood(s)
  BY <1>3, <1>4 DEF StreamGood
<1> QED
  BY <1>1, <1>5

LEMMA CheckGood == ASSUME StreamGood(strm), SendCheck PROVE StreamGood(strm')
<1>0. /\ strm \in Streams /\ strm.closed = FALSE /\ Counted(strm) /\ strm.i <= strm.n + 1
      /\ strm.writer = "ready" /\ ~strm.eof /\ strm.i \in Nat /\ strm.n \in Nat
  BY DEF StreamGood, SendCheck, Streams
<1>1. CASE strm.i > strm.n
  <2>1. strm' = [strm EXCEPT !.writer = "ended", !.eof = TRUE]
    BY <1>0, <1>1 DEF SendCheck
  <2>2. /\ strm' \in Streams /\ strm'.closed = FALSE /\ strm'.got = strm.got
        /\ strm'.items = strm.items /\ strm'.i = strm.i /\ strm'.n = strm.n
        /\ strm'.writer = "ended"
    BY <1>0, <2>1 DEF Streams
  <2>3. Counted(strm')
    BY <1>0, <2>2, CountedSame
  <2>4. strm'.i = strm'.n + 1
    BY <1>0, <1>1, <2>2
  <2> QED
    BY <1>0, <2>2, <2>3, <2>4 DEF StreamGood
<1>2. CASE ~(strm.i > strm.n)
  <2>1. strm' = [strm EXCEPT !.writer = "sending"]
    BY <1>0, <1>2 DEF SendCheck
  <2>2. /\ strm' \in Streams /\ strm'.closed = FALSE /\ strm'.got = strm.got
        /\ strm'.items = strm.items /\ strm'.i = strm.i /\ strm'.n = strm.n
        /\ strm'.writer = "sending" /\ strm'.eof = strm.eof
    BY <1>0, <2>1 DEF Streams
  <2>3. Counted(strm')
    BY <1>0, <2>2, CountedSame
  <2>4. strm'.i <= strm'.n /\ strm'.i <= strm'.n + 1
    BY <1>0, <1>2, <2>2
  <2> QED
    BY <1>0, <2>2, <2>3, <2>4 DEF StreamGood
<1> QED
  BY <1>1, <1>2

LEMMA SelectGood == ASSUME StreamGood(strm), SendSelect PROVE StreamGood(strm')
<1>0. /\ strm \in Streams /\ strm.closed = FALSE /\ Counted(strm) /\ strm.i <= strm.n
      /\ strm.writer = "sending" /\ ~strm.eof /\ strm.i \in Nat /\ strm.n \in Nat
      /\ strm.items \in Seq(Nat \cup {Error}) /\ strm.got \in Seq(Nat \cup {Error})
  BY DEF StreamGood, SendSelect, Streams
<1>1. PICK item \in {strm.i, Error} :
        strm' = [strm EXCEPT !.writer = "ready", !.i = @ + 1, !.items = Append(@, item)]
  BY <1>0 DEF SendSelect
<1>2. PICK q : q = Append(strm.items, item)
  OBVIOUS
<1>3. /\ q \in Seq(Nat \cup {Error}) /\ Len(q) = Len(strm.items) + 1
      /\ q[Len(strm.items) + 1] = item
      /\ \A j \in 1..Len(strm.items) : q[j] = strm.items[j]
  BY <1>0, <1>2
<1>4. /\ strm' \in Streams /\ strm'.closed = FALSE /\ strm'.got = strm.got
      /\ strm'.items = q /\ strm'.i = strm.i + 1 /\ strm'.n = strm.n
      /\ strm'.writer = "ready" /\ strm'.eof = strm.eof
  <2>1. PICK i \in Nat : i = strm.i + 1
    BY <1>0
  <2>2. strm' = [strm EXCEPT !.writer = "ready", !.i = i, !.items = q]
    BY <1>1, <1>2, <2>1
  <2>3. /\ strm' \in Streams /\ strm'.closed = strm.closed /\ strm'.got = strm.got
        /\ strm'.items = q /\ strm'.i = i /\ strm'.n = strm.n
        /\ strm'.writer = "ready" /\ strm'.eof = strm.eof
    BY <1>0, <1>3, <2>2 DEF Streams
  <2> QED
    BY <1>0, <2>1, <2>3
<1>5. Len(strm.got) \in Nat /\ Len(strm.items) \in Nat
  BY <1>0
<1>6. strm'.i = Len(strm.got) + Len(q) + 1 /\ strm.i = Len(strm.got) + (Len(strm.items) + 1)
  <2>1. strm.i = Len(strm.got) + Len(strm.items) + 1
    BY <1>0, Zenon DEF Counted
  <2>2. \A a, b \in Nat : (a + b + 1) + 1 = a + (b + 1) + 1 /\ a + b + 1 = a + (b + 1)
    OBVIOUS
  <2>3. strm'.i = strm.i + 1 /\ Len(q) = Len(strm.items) + 1
    BY <1>3, <1>4
  <2> QED
    BY <1>5, <2>1, <2>2, <2>3, Zenon
<1>7. \A j \in 1..Len(q) : q[j] \in {Len(strm.got) + j, Error}
  <2> SUFFICES ASSUME NEW j \in 1..Len(q) PROVE q[j] \in {Len(strm.got) + j, Error}
    OBVIOUS
  <2>1. CASE j \in 1..Len(strm.items)
    BY <1>0, <1>3, <2>1 DEF Counted
  <2>2. CASE j = Len(strm.items) + 1
    BY <1>1, <1>3, <1>6, <2>2
  <2> QED
    BY <1>3, <1>5, <2>1, <2>2
<1>8. Counted(strm')
  BY <1>0, <1>4, <1>6, <1>7 DEF Counted
<1>9. strm'.i <= strm'.n + 1
  BY <1>0, <1>4
<1> QED
  BY <1>0, <1>4, <1>8, <1>9 DEF StreamGood

(* A number is received: it is the next one.                               *)
LEMMA RecvGood ==
    ASSUME StreamGood(strm), NEW item \in Nat, Recv(item) PROVE StreamGood(strm')
<1>0. /\ strm \in Streams /\ strm.closed = FALSE /\ Counted(strm) /\ strm.i <= strm.n + 1
      /\ strm.items \in Seq(Nat \cup {Error}) /\ strm.got \in Seq(Nat \cup {Error})
      /\ strm.items # <<>> /\ item = Head(strm.items)
  BY DEF StreamGood, Recv, Streams
<1>1. PICK q, h : q = Tail(strm.items) /\ h = Append(strm.got, item)
  OBVIOUS
<1>2. /\ Len(strm.items) \in Nat /\ Len(strm.got) \in Nat /\ 1 \in 1..Len(strm.items)
      /\ item = strm.items[1]
      /\ q \in Seq(Nat \cup {Error}) /\ Len(q) = Len(strm.items) - 1
      /\ \A j \in 1..Len(q) : j + 1 \in 1..Len(strm.items) /\ q[j] = strm.items[j + 1]
  BY <1>0, <1>1
<1>3. item = Len(strm.got) + 1
  <2>1. strm.items[1] \in {Len(strm.got) + 1, Error}
    BY <1>0, <1>2 DEF Counted
  <2> QED
    BY <1>2, <2>1, StreamAssumption
<1>4. h \in Seq(Nat \cup {Error}) /\ Len(h) = Len(strm.got) + 1 /\ h = [k \in 1..Len(h) |-> k]
  <2>1. /\ h \in Seq(Nat \cup {Error}) /\ Len(h) = Len(strm.got) + 1
        /\ h = [k \in 1..Len(h) |-> h[k]]
        /\ h[Len(strm.got) + 1] = item /\ \A k \in 1..Len(strm.got) : h[k] = strm.got[k]
    BY <1>0, <1>1
  <2>2. \A k \in 1..Len(strm.got) : strm.got[k] = k
    BY <1>0 DEF Counted
  <2>3. \A k \in 1..Len(h) : h[k] = k
    BY <1>2, <1>3, <2>1, <2>2
  <2> QED
    BY <2>1, <2>3
<1>5. strm' = [strm EXCEPT !.items = q, !.got = h]
  BY <1>1 DEF Recv
<1>6. /\ strm' \in Streams /\ strm'.closed = FALSE /\ strm'.got = h
      /\ strm'.items = q /\ strm'.i = strm.i /\ strm'.n = strm.n
      /\ strm'.writer = strm.writer /\ strm'.eof = strm.eof
  BY <1>0, <1>2, <1>4, <1>5 DEF Streams
<1>7. \A j \in 1..Len(q) : q[j] \in {Len(h) + j, Error}
  <2> SUFFICES ASSUME NEW j \in 1..Len(q) PROVE q[j] \in {Len(h) + j, Error}
    OBVIOUS
  <2>1. strm.items[j + 1] \in {Len(strm.got) + (j + 1), Error}
    BY <1>0, <1>2, Zenon DEF Counted
  <2>2. Len(h) + j = Len(strm.got) + (j + 1)
    <3>1. \A a \in Nat, b \in Nat : (a + 1) + b = a + (b + 1)
      OBVIOUS
    <3>2. Len(h) = Len(strm.got) + 1 /\ j \in Nat /\ Len(strm.got) \in Nat
      BY <1>2, <1>4
    <3> QED
      BY <3>1, <3>2, Zenon
  <2> QED
    BY <1>2, <2>1, <2>2
<1>8. strm.i = Len(h) + Len(q) + 1
  <2>1. strm.i = Len(strm.got) + Len(strm.items) + 1
    BY <1>0, Zenon DEF Counted
  <2>2. \A a, b \in Nat : (a + 1) + (b - 1) + 1 = a + b + 1
    OBVIOUS
  <2>3. Len(strm.got) \in Nat /\ Len(strm.items) \in Nat
    BY <1>2
  <2>4. (Len(strm.got) + 1) + (Len(strm.items) - 1) + 1 = Len(strm.got) + Len(strm.items) + 1
    BY <2>2, <2>3, Zenon
  <2>5. Len(h) = Len(strm.got) + 1 /\ Len(q) = Len(strm.items) - 1
    BY <1>2, <1>4
  <2> QED
    BY <2>1, <2>4, <2>5, Zenon
<1>9. Counted(strm')
  BY <1>4, <1>6, <1>7, <1>8 DEF Counted
<1> QED
  BY <1>0, <1>6, <1>9 DEF StreamGood

-----------------------------------------------------------------------------
(* The program.                                                            *)

(* The goroutine of Stream runs while the program ranges over responses;   *)
(* it ends with a final response taken or with an error, not with both.    *)
Phases(p, g) ==
    /\ p.pc = "stream" <=> g.pc # "idle"
    /\ p.final # None => g.pc = "closed"
    /\ g.pc = "closed" => (p.final # None) # g.errs

(* One result per call so far; all of them when a turn begins.             *)
OutGood(p) ==
    /\ Len(p.out) <= Len(p.calls)
    /\ \A i \in 1..Len(p.out) : /\ p.out[i].id = p.calls[i].id
                                /\ p.out[i].chunks = [k \in 1..p.out[i].n |-> k]
    /\ p.pc \in {"execute", "recv", "failed", "received"} => Len(p.out) < Len(p.calls)
    /\ p.pc = "turn" => Len(p.out) = Len(p.calls)

(* The stream is intact while the program reads it, and has been read to   *)
(* its end when the program has met io.EOF.                                *)
Reading(p, s) ==
    /\ p.pc \in {"recv", "received"} => StreamGood(s)
    /\ p.pc = "received" => s.items = <<>> /\ s.eof = TRUE

CallingInv ==
    /\ GenGood(gen)
    /\ prog \in Programs /\ Phases(prog, gen) /\ OutGood(prog)
    /\ Reading(prog, strm)

(* The program does not wait for the goroutine of Stream or for a tool.    *)
LEMMA Outside ==
    ASSUME GenGood(gen'), gen'.pc = "idle", prog' \in Programs, OutGood(prog'),
           prog'.final = None, prog'.pc \notin {"stream", "recv", "received"}
    PROVE  CallingInv'
<1>1. Phases(prog', gen')
  BY DEF Phases
<1>2. Reading(prog', strm')
  BY DEF Reading
<1> QED
  BY <1>1, <1>2 DEF CallingInv

(* Where the goroutine of Stream is while the program does something else. *)
LEMMA Idle ==
    ASSUME CallingInv, prog.pc # "stream"
    PROVE  gen.pc = "idle" /\ prog.final = None /\ GenGood(gen)
  BY DEF CallingInv, Phases

Ends == {"exceeded", "finished", "empty", "error", "missing", "tool error"}

LEMMA FinishGood ==
    ASSUME prog \in Programs, NEW how \in Ends, Finish(how)
    PROVE  /\ prog' \in Programs /\ OutGood(prog') /\ prog'.final = None
           /\ prog'.pc = how
<1>1. <<>> \in Seq(AnyCalls) /\ <<>> \in Seq(Results) /\ Len(<<>>) = 0
  OBVIOUS
<1>2. /\ prog' \in Programs /\ prog'.pc = how /\ prog'.calls = <<>> /\ prog'.out = <<>>
      /\ prog'.final = None
  BY <1>1 DEF Finish, Programs, Ends
<1>3. how \notin {"execute", "recv", "failed", "received"}
  BY DEF Ends
<1> QED
  BY <1>1, <1>2, <1>3 DEF OutGood

LEMMA ActGood ==
    ASSUME prog \in Programs, NEW calls \in Seq(AnyCalls), Act(calls)
    PROVE  /\ prog' \in Programs /\ OutGood(prog') /\ prog'.final = None
           /\ prog'.pc \notin {"stream", "recv", "received"}
<1>1. CASE calls = <<>>
  <2>1. Finish("finished") /\ "finished" \in Ends
    BY <1>1 DEF Act, Ends
  <2> QED
    BY <2>1, FinishGood
<1>2. CASE calls # <<>>
  <2>1. <<>> \in Seq(Results) /\ Len(<<>>) = 0 /\ 1..0 = {} /\ 0 < Len(calls)
    BY <1>2
  <2>2. prog' = [prog EXCEPT !.pc = "execute", !.calls = calls, !.out = <<>>, !.final = None]
    BY <1>2 DEF Act
  <2>3. /\ prog' \in Programs /\ prog'.pc = "execute" /\ prog'.calls = calls
        /\ prog'.out = <<>> /\ prog'.final = None
    BY <2>1, <2>2 DEF Programs
  <2> QED
    BY <2>1, <2>3 DEF OutGood
<1> QED
  BY <1>1, <1>2

LEMMA ResultGood ==
    ASSUME prog \in Programs, OutGood(prog), prog.final = None,
           prog.pc \in {"execute", "received"}, NEW n \in Nat, NEW chunks,
           chunks = [k \in 1..n |-> k], Result(chunks, n)
    PROVE  /\ prog' \in Programs /\ OutGood(prog') /\ prog'.final = None
           /\ prog'.pc \notin {"stream", "recv", "received"}
<1>0. /\ prog.out \in Seq(Results) /\ prog.calls \in Seq(AnyCalls)
      /\ Len(prog.out) \in Nat /\ Len(prog.calls) \in Nat /\ Len(prog.out) < Len(prog.calls)
  <2>1. prog.out \in Seq(Results) /\ prog.calls \in Seq(AnyCalls)
    BY DEF Programs
  <2>2. Len(prog.out) < Len(prog.calls)
    BY DEF OutGood
  <2> QED
    BY <2>1, <2>2
<1>1. PICK m \in Nat, len \in Nat : m = Len(prog.out) /\ len = Len(prog.calls) /\ m < len
  BY <1>0
<1>2. PICK x : x = [id |-> prog.calls[m + 1].id, chunks |-> chunks, n |-> n]
  OBVIOUS
<1>3. x \in Results /\ x.id = prog.calls[m + 1].id /\ x.chunks = [k \in 1..x.n |-> k]
  <2>1. prog.calls[m + 1] \in AnyCalls
    BY <1>0, <1>1
  <2>2. prog.calls[m + 1].id \in Nat
    BY <2>1 DEF AnyCalls
  <2>3. chunks \in Seq(Nat)
    OBVIOUS
  <2>4. x \in Results /\ x.id = prog.calls[m + 1].id /\ x.chunks = chunks /\ x.n = n
    BY <1>2, <2>2, <2>3 DEF Results
  <2> QED
    BY <2>4
<1>4. PICK out : out = Append(prog.out, x)
  OBVIOUS
<1>5. /\ out \in Seq(Results) /\ Len(out) = m + 1 /\ out[m + 1] = x
      /\ \A i \in 1..m : out[i] = prog.out[i]
  BY <1>0, <1>1, <1>3, <1>4
<1>6. PICK pc \in {"turn", "execute"} :
        /\ pc = IF m + 1 = len THEN "turn" ELSE "execute"
        /\ prog' = [prog EXCEPT !.pc = pc, !.out = out]
  BY <1>1, <1>2, <1>4 DEF Result, Current
<1>7. /\ prog' \in Programs /\ prog'.pc = pc /\ prog'.out = out /\ prog'.calls = prog.calls
      /\ prog'.final = prog.final
  BY <1>5, <1>6 DEF Programs
<1>8. ASSUME NEW i \in 1..Len(out)
      PROVE  out[i].id = prog.calls[i].id /\ out[i].chunks = [k \in 1..out[i].n |-> k]
  <2>1. CASE i \in 1..m
    BY <1>1, <1>5, <2>1 DEF OutGood
  <2>2. CASE i = m + 1
    BY <1>3, <1>5, <2>2
  <2> QED
    BY <1>5, <2>1, <2>2
<1>9. /\ Len(out) <= Len(prog.calls)
      /\ pc = "execute" => Len(out) < Len(prog.calls)
      /\ pc = "turn" => Len(out) = Len(prog.calls)
  BY <1>1, <1>5, <1>6
<1>10. OutGood(prog')
  BY <1>6, <1>7, <1>8, <1>9 DEF OutGood
<1> QED
  BY <1>6, <1>7, <1>10

-----------------------------------------------------------------------------
(* One lemma per action of the program.                                    *)

LEMMA TurnStep == ASSUME CallingInv, Turn PROVE CallingInv'
<1>0. /\ prog \in Programs /\ OutGood(prog) /\ prog.pc = "turn" /\ gen.pc = "idle"
      /\ prog.final = None /\ GenGood(gen)
  BY Idle DEF CallingInv, Turn
<1>1. CASE prog.turn = maxTurns
  <2>1. Finish("exceeded") /\ gen' = gen /\ "exceeded" \in Ends
    BY <1>1 DEF Turn, Ends
  <2>2. /\ prog' \in Programs /\ OutGood(prog') /\ prog'.final = None
        /\ prog'.pc = "exceeded"
    BY <1>0, <2>1, FinishGood
  <2> QED
    BY <1>0, <2>1, <2>2, Outside
<1>2. CASE prog.turn # maxTurns
  <2>1. /\ prog' = [prog EXCEPT !.pc = prog.mode, !.turn = @ + 1]
        /\ gen' = IF prog.mode = "stream" THEN NewGen ELSE gen
    BY <1>2 DEF Turn
  <2>2. /\ prog' \in Programs /\ prog'.pc = prog.mode /\ prog'.final = None
        /\ prog'.calls = prog.calls /\ prog'.out = prog.out
        /\ prog.mode \in {"generate", "stream"}
    <3>0. prog.mode \in {"generate", "stream"} /\ prog.turn \in Nat
      BY <1>0 DEF Programs
    <3>1. prog.mode \in {"generate", "stream"} /\ prog.turn + 1 \in Nat
      BY <3>0
    <3>2. PICK m, n : m = prog.mode /\ n = prog.turn + 1
      OBVIOUS
    <3>3. prog' = [prog EXCEPT !.pc = m, !.turn = n]
      BY <2>1, <3>2
    <3>4. prog' \in Programs /\ prog'.pc = m /\ prog'.final = prog.final
          /\ prog'.calls = prog.calls /\ prog'.out = prog.out
      BY <1>0, <3>1, <3>2, <3>3 DEF Programs
    <3> QED
      BY <1>0, <3>1, <3>2, <3>4
  <2>3. OutGood(prog')
    BY <1>0, <2>2 DEF OutGood
  <2>4. CASE prog.mode = "generate"
    BY <1>0, <2>1, <2>2, <2>3, <2>4, Outside
  <2>5. CASE prog.mode = "stream"
    <3>1. GenGood(gen') /\ gen'.pc = "next"
      BY <2>1, <2>5, NewGenGood
    <3>2. Phases(prog', gen')
      BY <2>2, <2>5, <3>1 DEF Phases
    <3>3. Reading(prog', strm')
      BY <2>2, <2>5 DEF Reading
    <3> QED
      BY <2>2, <2>3, <3>1, <3>2, <3>3 DEF CallingInv
  <2> QED
    BY <2>2, <2>4, <2>5
<1> QED
  BY <1>1, <1>2

LEMMA GeneratedStep == ASSUME CallingInv, Generated \/ GeneratedError PROVE CallingInv'
<1>0. prog \in Programs /\ gen.pc = "idle" /\ GenGood(gen) /\ gen' = gen
  BY Idle DEF CallingInv, Generated, GeneratedError
<1>1. ASSUME NEW how \in Ends, Finish(how) PROVE CallingInv'
  <2>1. /\ prog' \in Programs /\ OutGood(prog') /\ prog'.final = None /\ prog'.pc = how
    BY <1>0, <1>1, FinishGood
  <2>2. how \notin {"stream", "recv", "received"}
    BY DEF Ends
  <2> QED
    BY <1>0, <2>1, <2>2, Outside
<1>2. ASSUME NEW n \in 0..MaxIndex + 1, NEW names \in [1..n -> Names],
             Act([i \in 1..n |-> [id |-> i - 1, name |-> names[i], index |-> None]])
      PROVE  CallingInv'
  <2>1. PICK c : c = [i \in 1..n |-> [id |-> i - 1, name |-> names[i], index |-> None]]
    OBVIOUS
  <2>2. n \in Nat
    BY ChatStreamAssumption
  <2>3. \A i \in 1..n : [id |-> i - 1, name |-> names[i], index |-> None] \in AnyCalls
    BY <2>2 DEF AnyCalls
  <2>4. c \in Seq(AnyCalls)
    BY <2>1, <2>2, <2>3
  <2>5. /\ prog' \in Programs /\ OutGood(prog') /\ prog'.final = None
        /\ prog'.pc \notin {"stream", "recv", "received"}
    BY <1>0, <1>2, <2>1, <2>4, ActGood
  <2> QED
    BY <1>0, <2>5, Outside
<1>3. "empty" \in Ends /\ "error" \in Ends
  BY DEF Ends
<1> QED
  BY <1>1, <1>2, <1>3 DEF Generated, GeneratedError

LEMMA RangeNextStep == ASSUME CallingInv, RangeNext PROVE CallingInv'
<1>0. /\ prog \in Programs /\ OutGood(prog) /\ prog.pc = "stream" /\ GenGood(gen) /\ Deliver
      /\ Phases(prog, gen)
  BY DEF CallingInv, RangeNext
<1>1. /\ GenGood(gen') /\ gen'.errs = FALSE /\ gen.resp \in Responses /\ gen.resp # None
      /\ gen'.pc = IF gen.resp.kind = "partial" THEN "next" ELSE "closed"
  BY <1>0, DeliverGood
<1>2. prog.final = None
  BY <1>0 DEF Phases, Deliver
<1>3. CASE gen.resp.kind = "partial"
  <2>1. prog' = prog /\ gen'.pc = "next"
    BY <1>1, <1>3 DEF RangeNext
  <2>2. Phases(prog', gen')
    BY <1>0, <1>2, <2>1 DEF Phases
  <2>3. Reading(prog', strm')
    BY <1>0, <2>1 DEF Reading
  <2> QED
    BY <1>0, <1>1, <2>1, <2>2, <2>3 DEF CallingInv
<1>4. CASE gen.resp.kind # "partial"
  <2>1. prog' = [prog EXCEPT !.final = gen.resp] /\ gen'.pc = "closed"
    BY <1>1, <1>4 DEF RangeNext
  <2>2. /\ prog' \in Programs /\ prog'.pc = "stream" /\ prog'.final = gen.resp
        /\ prog'.calls = prog.calls /\ prog'.out = prog.out
    BY <1>0, <1>1, <2>1 DEF Programs
  <2>3. OutGood(prog')
    BY <1>0, <2>2 DEF OutGood
  <2>4. Phases(prog', gen')
    BY <1>1, <2>1, <2>2 DEF Phases
  <2>5. Reading(prog', strm')
    BY <2>2 DEF Reading
  <2> QED
    BY <1>1, <2>2, <2>3, <2>4, <2>5 DEF CallingInv
<1> QED
  BY <1>3, <1>4

LEMMA RangeEndStep == ASSUME CallingInv, RangeEnd PROVE CallingInv'
<1>0. /\ prog \in Programs /\ gen \in Generators /\ gen' = IdleGen
      /\ gen.errs \in BOOLEAN /\ prog.final \in Responses \cup {None}
  BY DEF CallingInv, GenGood, Generators, Programs, RangeEnd
<1>1. GenGood(gen') /\ gen'.pc = "idle"
  BY <1>0, NewGenGood
<1>2. ASSUME NEW how \in Ends, Finish(how) PROVE CallingInv'
  <2>1. /\ prog' \in Programs /\ OutGood(prog') /\ prog'.final = None /\ prog'.pc = how
    BY <1>0, <1>2, FinishGood
  <2>2. how \notin {"stream", "recv", "received"}
    BY DEF Ends
  <2> QED
    BY <1>1, <2>1, <2>2, Outside
<1>3. ASSUME prog.final # None, Act(prog.final.calls) PROVE CallingInv'
  <2>1. PICK c : c = prog.final.calls
    OBVIOUS
  <2>2. c \in Seq(IndexedCalls)
    BY <1>0, <1>3, <2>1 DEF Responses, IndexedCalls
  <2>3. \A x \in IndexedCalls : x \in AnyCalls
    BY DEF IndexedCalls, AnyCalls
  <2>4. c \in Seq(AnyCalls)
    BY <2>2, <2>3
  <2>5. /\ prog' \in Programs /\ OutGood(prog') /\ prog'.final = None
        /\ prog'.pc \notin {"stream", "recv", "received"}
    BY <1>0, <1>3, <2>1, <2>4, ActGood
  <2> QED
    BY <1>1, <2>5, Outside
<1>4. "error" \in Ends /\ "missing" \in Ends
  BY DEF Ends
<1>5. \/ Finish("error") \/ Finish("missing")
      \/ prog.final # None /\ Act(prog.final.calls)
  BY <1>0 DEF RangeEnd
<1> QED
  BY <1>2, <1>3, <1>4, <1>5

LEMMA ExecuteStep ==
    ASSUME CallingInv, ExecuteError \/ ExecuteTool \/ StreamExecute PROVE CallingInv'
<1>0. /\ prog \in Programs /\ OutGood(prog) /\ prog.pc = "execute" /\ gen.pc = "idle"
      /\ prog.final = None /\ GenGood(gen) /\ gen' = gen
  BY Idle DEF CallingInv, ExecuteError, ExecuteTool, StreamExecute
<1>1. CASE ExecuteError
  <2>1. Finish("tool error") /\ "tool error" \in Ends
    BY <1>1 DEF ExecuteError, Ends
  <2>2. /\ prog' \in Programs /\ OutGood(prog') /\ prog'.final = None
        /\ prog'.pc = "tool error"
    BY <1>0, <2>1, FinishGood
  <2> QED
    BY <1>0, <2>2, Outside
<1>2. CASE ExecuteTool
  <2>1. Result(<<>>, 0)
    BY <1>2 DEF ExecuteTool
  <2>2. <<>> = [k \in 1..0 |-> k]
    OBVIOUS
  <2>3. /\ prog' \in Programs /\ OutGood(prog') /\ prog'.final = None
        /\ prog'.pc \notin {"stream", "recv", "received"}
    BY <1>0, <2>1, <2>2, ResultGood
  <2> QED
    BY <1>0, <2>3, Outside
<1>3. CASE StreamExecute
  <2>1. prog' = [prog EXCEPT !.pc = "recv"] /\ \E n \in 0..MaxN : strm' = NewStream(n)
    BY <1>3 DEF StreamExecute
  <2>2. /\ prog' \in Programs /\ prog'.pc = "recv" /\ prog'.final = None
        /\ prog'.calls = prog.calls /\ prog'.out = prog.out
    BY <1>0, <2>1 DEF Programs
  <2>3. StreamGood(strm')
    <3>1. PICK n \in 0..MaxN : strm' = NewStream(n)
      BY <2>1
    <3>2. n \in Nat
      BY StreamAssumption
    <3> QED
      BY <3>1, <3>2, NewStreamGood
  <2>4. OutGood(prog')
    BY <1>0, <2>2 DEF OutGood
  <2>5. Phases(prog', gen') /\ Reading(prog', strm')
    BY <1>0, <2>2, <2>3 DEF Phases, Reading
  <2> QED
    BY <1>0, <2>2, <2>4, <2>5 DEF CallingInv
<1> QED
  BY <1>1, <1>2, <1>3

LEMMA ReceiveStep == ASSUME CallingInv, Receive PROVE CallingInv'
<1>0. /\ prog \in Programs /\ OutGood(prog) /\ prog.pc = "recv" /\ gen.pc = "idle"
      /\ prog.final = None /\ GenGood(gen) /\ gen' = gen /\ StreamGood(strm)
  BY Idle DEF CallingInv, Receive, Reading
<1>1. ASSUME NEW item \in 1..MaxN, Recv(item), prog' = prog PROVE CallingInv'
  <2>1. StreamGood(strm')
    BY <1>0, <1>1, RecvGood
  <2>2. Phases(prog', gen') /\ Reading(prog', strm')
    BY <1>0, <1>1, <2>1 DEF Phases, Reading
  <2> QED
    BY <1>0, <1>1, <2>2 DEF CallingInv
<1>2. ASSUME NEW pc \in {"failed", "received"}, prog' = [prog EXCEPT !.pc = pc],
             pc = "received" => RecvEOF
      PROVE  CallingInv'
  <2>1. /\ prog' \in Programs /\ prog'.pc = pc /\ prog'.final = None
        /\ prog'.calls = prog.calls /\ prog'.out = prog.out
    BY <1>0, <1>2 DEF Programs
  <2>2. OutGood(prog')
    BY <1>0, <2>1 DEF OutGood
  <2>3. Phases(prog', gen')
    BY <1>0, <2>1 DEF Phases
  <2>4. pc = "received" => strm' = strm /\ strm.items = <<>> /\ strm.eof = TRUE
    BY <1>0, <1>2 DEF RecvEOF, StreamGood, Streams
  <2>5. Reading(prog', strm')
    BY <1>0, <2>1, <2>4 DEF Reading
  <2> QED
    BY <1>0, <2>1, <2>2, <2>3, <2>5 DEF CallingInv
<1> QED
  BY <1>1, <1>2 DEF Receive

LEMMA CloseReaderStep == ASSUME CallingInv, CloseReader PROVE CallingInv'
<1>0. /\ prog \in Programs /\ OutGood(prog) /\ prog.pc \in {"failed", "received"}
      /\ gen.pc = "idle" /\ prog.final = None /\ GenGood(gen) /\ gen' = gen
      /\ Reading(prog, strm)
  BY Idle DEF CallingInv, CloseReader
<1>1. CASE prog.pc = "failed"
  <2>1. Finish("tool error") /\ "tool error" \in Ends
    BY <1>1 DEF CloseReader, Ends
  <2>2. /\ prog' \in Programs /\ OutGood(prog') /\ prog'.final = None
        /\ prog'.pc = "tool error"
    BY <1>0, <2>1, FinishGood
  <2> QED
    BY <1>0, <2>2, Outside
<1>2. CASE prog.pc = "received"
  <2>1. Result(strm.got, strm.n)
    BY <1>2 DEF CloseReader
  <2>2. /\ strm \in Streams /\ Counted(strm) /\ strm.items = <<>> /\ strm.i = strm.n + 1
    BY <1>0, <1>2 DEF Reading, StreamGood
  <2>3. /\ strm.n \in Nat /\ strm.got \in Seq(Nat \cup {Error})
        /\ strm.got = [k \in 1..Len(strm.got) |-> k]
        /\ strm.i = Len(strm.got) + Len(strm.items) + 1
    BY <2>2 DEF Streams, Counted
  <2>4. Len(strm.got) = strm.n
    <3>1. Len(strm.items) = 0 /\ Len(strm.got) \in Nat
      BY <2>2, <2>3
    <3> QED
      BY <2>2, <2>3, <3>1
  <2>5. strm.got = [k \in 1..strm.n |-> k]
    BY <2>3, <2>4, Zenon
  <2>6. /\ prog' \in Programs /\ OutGood(prog') /\ prog'.final = None
        /\ prog'.pc \notin {"stream", "recv", "received"}
    BY <1>0, <1>2, <2>1, <2>3, <2>5, ResultGood
  <2> QED
    BY <1>0, <2>6, Outside
<1> QED
  BY <1>0, <1>1, <1>2

(* The goroutine of Stream moves: the program waits for it.                *)
LEMMA ServerStep == ASSUME CallingInv, Server, UNCHANGED <<strm, prog>> PROVE CallingInv'
<1>0. /\ prog' = prog /\ strm' = strm /\ prog \in Programs /\ OutGood(prog)
      /\ GenGood(gen) /\ Phases(prog, gen) /\ Reading(prog, strm)
  BY DEF CallingInv
<1>1. CASE Cancel
  <2>1. gen' = gen
    BY <1>1 DEF Cancel
  <2> QED
    BY <1>0, <2>1 DEF CallingInv
<1>2. CASE Chunk \/ StreamEnd \/ StreamFails
  <2>1. GenGood(gen') /\ gen'.pc \in {"send", "panic"}
    BY <1>0, <1>2, ChunkGood, StreamEndGood, StreamFailsGood
  <2>2. gen.pc = "next"
    BY <1>2 DEF Chunk, StreamEnd, StreamFails
  <2>3. Phases(prog', gen')
    BY <1>0, <2>1, <2>2 DEF Phases
  <2> QED
    BY <1>0, <2>1, <2>3 DEF CallingInv
<1>3. CASE GiveUp
  <2>1. GenGood(gen') /\ gen'.errs = TRUE /\ gen'.pc = "closed" /\ gen.pc = "send"
    BY <1>0, <1>3, GiveUpGood DEF GiveUp
  <2>2. prog.final = None /\ prog.pc = "stream"
    BY <1>0, <2>1 DEF Phases
  <2>3. Phases(prog', gen')
    BY <1>0, <2>1, <2>2 DEF Phases
  <2> QED
    BY <1>0, <2>1, <2>3 DEF CallingInv
<1> QED
  BY <1>1, <1>2, <1>3 DEF Server

LEMMA WriterStep ==
    ASSUME CallingInv, Writer, UNCHANGED <<cancelled, gen, prog>> PROVE CallingInv'
<1>0. /\ prog' = prog /\ gen' = gen /\ prog \in Programs /\ OutGood(prog)
      /\ GenGood(gen) /\ Phases(prog, gen) /\ Reading(prog, strm)
  BY DEF CallingInv
<1>1. prog.pc \in {"recv", "received"} => StreamGood(strm')
  BY <1>0, CheckGood, SelectGood DEF Reading, Writer
<1>2. prog.pc # "received"
  <2>1. strm.writer # "ended"
    BY DEF Writer, SendCheck, SendSelect
  <2> QED
    BY <1>0, <2>1 DEF Reading, StreamGood
<1>3. Reading(prog', strm')
  BY <1>0, <1>1, <1>2 DEF Reading
<1> QED
  BY <1>0, <1>3 DEF CallingInv

-----------------------------------------------------------------------------
(* The request of the next turn.                                           *)

LEMMA FunctionSeq ==
    ASSUME NEW n \in Nat, NEW T, NEW f, f = [i \in 1..n |-> f[i]], \A i \in 1..n : f[i] \in T
    PROVE  f \in Seq(T) /\ Len(f) = n /\ DOMAIN f = 1..n
<1>1. f \in [1..n -> T]
  OBVIOUS
<1> QED
  BY <1>1

(* The messages of a conversation, one by one.                             *)
LEMMA ConversationIs ==
    ASSUME prog \in Programs, prog.calls # <<>>
    PROVE  /\ Len(prog.out) \in Nat /\ DOMAIN Conversation = 1..2 + Len(prog.out)
           /\ Conversation[1].role = "user"
           /\ Conversation[2].role = "assistant" /\ Conversation[2].calls = prog.calls
           /\ \A j \in 1..Len(prog.out) : /\ Conversation[2 + j].role = "tool"
                                          /\ Conversation[2 + j].toolID = prog.out[j].id
<1> DEFINE u == [role |-> "user"]
           a == [role |-> "assistant", calls |-> prog.calls]
           w == [i \in DOMAIN prog.out |-> [role |-> "tool", toolID |-> prog.out[i].id]]
           M == {u, a} \cup {w[i] : i \in DOMAIN prog.out}
<1>0. prog.out \in Seq(Results)
  BY DEF Programs
<1>1. DOMAIN prog.out = 1..Len(prog.out) /\ Len(prog.out) \in Nat
  BY <1>0
<1>2. /\ u.role = "user" /\ a.role = "assistant" /\ a.calls = prog.calls
      /\ \A j \in 1..Len(prog.out) : w[j].role = "tool" /\ w[j].toolID = prog.out[j].id
  BY <1>1
<1>3. Conversation = <<u>> \o (<<a>> \o w)
  BY DEF Conversation
<1>4. w \in Seq(M) /\ Len(w) = Len(prog.out) /\ <<u>> \in Seq(M) /\ <<a>> \in Seq(M)
  <2>1. w = [i \in 1..Len(prog.out) |-> w[i]] /\ \A i \in 1..Len(prog.out) : w[i] \in M
    BY <1>1
  <2>2. u \in M /\ a \in M
    OBVIOUS
  <2> HIDE DEF w, M, u, a
  <2>3. w \in Seq(M) /\ Len(w) = Len(prog.out)
    BY <1>1, <2>1, FunctionSeq, Zenon
  <2>4. <<u>> \in Seq(M) /\ <<a>> \in Seq(M)
    BY <2>2
  <2> QED
    BY <2>3, <2>4
<1> HIDE DEF w, M, u, a
<1>5. PICK s : s = <<a>> \o w
  OBVIOUS
<1>6. /\ s \in Seq(M) /\ Len(s) = 1 + Len(prog.out) /\ s[1] = a
      /\ \A j \in 1..Len(prog.out) : s[1 + j] = w[j]
  BY <1>1, <1>4, <1>5
<1>7. PICK c : c = <<u>> \o s
  OBVIOUS
<1>8. /\ c \in Seq(M) /\ Len(c) = 2 + Len(prog.out) /\ c[1] = u
      /\ \A j \in 1..1 + Len(prog.out) : c[1 + j] = s[j]
  BY <1>1, <1>4, <1>6, <1>7
<1>9. c[2] = a /\ \A j \in 1..Len(prog.out) : c[2 + j] = w[j]
  <2>1. 1 \in 1..1 + Len(prog.out) /\ 1 + 1 = 2
    BY <1>1
  <2>2. c[2] = a
    BY <1>6, <1>8, <2>1, Zenon
  <2>3. ASSUME NEW j \in 1..Len(prog.out) PROVE c[2 + j] = w[j]
    <3>1. 1 + j \in 1..1 + Len(prog.out) /\ 1 + (1 + j) = 2 + j
      BY <1>1
    <3> QED
      BY <1>6, <1>8, <3>1, Zenon
  <2> QED
    BY <2>2, <2>3
<1>10. DOMAIN c = 1..2 + Len(prog.out)
  BY <1>8
<1>11. Conversation = c
  BY <1>3, <1>5, <1>7, Zenon
<1> QED
  BY <1>1, <1>2, <1>8, <1>9, <1>10, <1>11, Zenon

(* r is the request made of the messages msgs.                             *)
Converted(r, msgs, n) ==
    /\ r \in Seq({r[i] : i \in 1..n}) /\ Len(r) = n /\ DOMAIN r = 1..n
    /\ \A i \in 1..n :
          /\ msgs[i].role = "assistant" =>
                r[i] = [of |-> "assistant", calls |-> convertToolCalls(msgs[i].calls)]
          /\ msgs[i].role = "tool" => r[i] = [of |-> "tool", callID |-> msgs[i].toolID]
          /\ msgs[i].role = "user" => r[i] = [of |-> "user"]

LEMMA ConvertedIs ==
    ASSUME NEW msgs, NEW n \in Nat, DOMAIN msgs = 1..n
    PROVE  Converted(ConvertToOpenAIMessages(msgs), msgs, n)
<1> DEFINE one(m) ==
             CASE m.role = "assistant" -> [of |-> "assistant", calls |-> convertToolCalls(m.calls)]
               [] m.role = "tool"      -> [of |-> "tool", callID |-> m.toolID]
               [] OTHER                -> [of |-> "user"]
<1>1. PICK r : r = ConvertToOpenAIMessages(msgs)
  OBVIOUS
<1>2. r = [i \in 1..n |-> one(msgs[i])]
  BY <1>1 DEF ConvertToOpenAIMessages
<1>3. \A m : /\ m.role = "assistant" =>
                  one(m) = [of |-> "assistant", calls |-> convertToolCalls(m.calls)]
             /\ m.role = "tool" => one(m) = [of |-> "tool", callID |-> m.toolID]
             /\ m.role = "user" => one(m) = [of |-> "user"]
  OBVIOUS
<1> HIDE DEF one
<1>4. /\ r \in Seq({r[i] : i \in 1..n}) /\ Len(r) = n /\ DOMAIN r = 1..n
      /\ \A i \in 1..n : r[i] = one(msgs[i])
  BY <1>2
<1>5. Converted(r, msgs, n)
  BY <1>3, <1>4, Zenon DEF Converted
<1> QED
  BY <1>1, <1>5

LEMMA ResultsFollow ==
    ASSUME prog \in Programs, OutGood(prog), prog.pc = "turn"
    PROVE  ResultsComplete
<1> DEFINE req == ConvertToOpenAIMessages(Conversation)
<1>0. prog.out \in Seq(Results) /\ prog.calls \in Seq(AnyCalls)
  BY DEF Programs
<1>1. /\ Len(prog.out) \in Nat /\ DOMAIN prog.out = 1..Len(prog.out)
      /\ DOMAIN prog.calls = 1..Len(prog.calls)
  BY <1>0
<1>2. /\ Len(prog.out) = Len(prog.calls)
      /\ \A i \in 1..Len(prog.out) : /\ prog.out[i].id = prog.calls[i].id
                                     /\ prog.out[i].chunks = [k \in 1..prog.out[i].n |-> k]
  BY Zenon DEF OutGood
<1>3. \A i \in DOMAIN prog.out : prog.out[i].chunks = [k \in 1..prog.out[i].n |-> k]
  BY <1>1, <1>2, Zenon
<1>4. \A i \in DOMAIN req : req[i].of = "assistant" =>
            SubSeq(req, i + 1, Len(req)) =
                [j \in DOMAIN req[i].calls |-> [of |-> "tool", callID |-> req[i].calls[j].id]]
  <2>1. CASE prog.calls = <<>>
    <3>1. Conversation = <<[role |-> "user"]>>
      BY <2>1 DEF Conversation
    <3>2. DOMAIN Conversation = 1..1 /\ Conversation[1].role = "user"
      BY <3>1
    <3>3. DOMAIN req = 1..1 /\ req[1] = [of |-> "user"]
      <4>1. Converted(req, Conversation, 1)
        BY <3>2, ConvertedIs
      <4>2. 1 \in 1..1
        OBVIOUS
      <4> HIDE DEF req
      <4> QED
        BY <3>2, <4>1, <4>2, Zenon DEF Converted
    <3> HIDE DEF req
    <3>4. req[1].of # "assistant"
      BY <3>3
    <3> QED
      BY <3>3, <3>4
  <2>2. CASE prog.calls # <<>>
    <3>1. PICK n : n = Len(prog.out)
      OBVIOUS
    <3>2. n \in Nat /\ 2 + n \in Nat /\ n = Len(prog.calls)
      BY <1>1, <1>2, <3>1
    <3>3. PICK c : c = Conversation
      OBVIOUS
    <3>4. /\ DOMAIN c = 1..2 + n /\ c[1].role = "user"
          /\ c[2].role = "assistant" /\ c[2].calls = prog.calls
          /\ \A j \in 1..n : c[2 + j].role = "tool" /\ c[2 + j].toolID = prog.out[j].id
      BY <2>2, <3>1, <3>3, ConversationIs, Zenon
    <3>5. PICK r : r = ConvertToOpenAIMessages(c)
      OBVIOUS
    <3>6. /\ r \in Seq({r[i] : i \in 1..2 + n}) /\ Len(r) = 2 + n
          /\ r[1] = [of |-> "user"]
          /\ r[2] = [of |-> "assistant", calls |-> convertToolCalls(prog.calls)]
          /\ \A j \in 1..n : r[2 + j] = [of |-> "tool", callID |-> prog.out[j].id]
      <4>1. /\ r \in Seq({r[i] : i \in 1..2 + n}) /\ Len(r) = 2 + n
            /\ \A i \in 1..2 + n :
                 /\ c[i].role = "assistant" =>
                      r[i] = [of |-> "assistant", calls |-> convertToolCalls(c[i].calls)]
                 /\ c[i].role = "tool" => r[i] = [of |-> "tool", callID |-> c[i].toolID]
                 /\ c[i].role = "user" => r[i] = [of |-> "user"]
        <5>1. Converted(r, c, 2 + n)
          BY <3>2, <3>4, <3>5, ConvertedIs
        <5> QED
          BY <5>1, Zenon DEF Converted
      <4>2. 1 \in 1..2 + n /\ 2 \in 1..2 + n /\ \A j \in 1..n : 2 + j \in 1..2 + n
        BY <3>2
      <4> QED
        BY <3>4, <4>1, <4>2
    <3>7. req = r
      BY <3>3, <3>5
    <3> HIDE DEF req
    <3>8. ASSUME NEW i \in DOMAIN r, r[i].of = "assistant"
          PROVE  SubSeq(r, i + 1, Len(r)) =
                   [j \in DOMAIN r[i].calls |-> [of |-> "tool", callID |-> r[i].calls[j].id]]
      <4>1. i = 2
        <5>1. i \in 1..2 + n
          BY <3>6
        <5>2. r[1].of = "user" /\ \A j \in 1..n : r[2 + j].of = "tool"
          <6>1. \A x : [of |-> "tool", callID |-> x].of = "tool"
            OBVIOUS
          <6>2. \A j \in 1..n : r[2 + j].of = "tool"
            BY <3>6, <6>1, Zenon
          <6>3. r[1].of = "user"
            BY <3>6
          <6> QED
            BY <6>2, <6>3
        <5>3. i = 1 \/ i = 2 \/ (i - 2 \in 1..n /\ i = 2 + (i - 2))
          BY <3>2, <5>1
        <5> QED
          BY <3>8, <5>2, <5>3
      <4>2. PICK d : d = r[2].calls
        OBVIOUS
      <4>3. d = convertToolCalls(prog.calls)
        BY <3>6, <4>2
      <4>4. DOMAIN d = 1..n /\ \A j \in 1..n : d[j].id = prog.calls[j].id
        BY <1>1, <3>2, <4>3 DEF convertToolCalls
      <4>5. PICK q : q = SubSeq(r, 3, Len(r))
        OBVIOUS
      <4>6. q = [j \in 1..n |-> r[2 + j]]
        BY <3>2, <3>6, <4>5
      <4>7. \A j \in 1..n : r[2 + j] = [of |-> "tool", callID |-> d[j].id]
        <5> SUFFICES ASSUME NEW j \in 1..n
                     PROVE  r[2 + j] = [of |-> "tool", callID |-> d[j].id]
          OBVIOUS
        <5>1. prog.out[j].id = d[j].id
          BY <1>2, <3>1, <4>4, Zenon
        <5> QED
          BY <3>6, <5>1, Zenon
      <4>8. q = [j \in DOMAIN d |-> [of |-> "tool", callID |-> d[j].id]]
        BY <4>4, <4>6, <4>7
      <4> QED
        BY <4>1, <4>2, <4>5, <4>8
    <3> QED
      BY <3>7, <3>8, Zenon
  <2> QED
    BY <2>1, <2>2
<1> QED
  BY <1>3, <1>4, Zenon DEF ResultsComplete

-----------------------------------------------------------------------------
(* The theorems.                                                           *)

LEMMA CallingInitInv == ASSUME CallingInit PROVE CallingInv
<1>1. gen = IdleGen /\ GenGood(gen) /\ gen.pc = "idle"
  BY NewGenGood DEF CallingInit
<1>2. PICK mode \in {"generate", "stream"} :
        prog = [mode |-> mode, pc |-> "turn", turn |-> 0, final |-> None,
                calls |-> <<>>, out |-> <<>>]
  BY DEF CallingInit
<1>3. <<>> \in Seq(AnyCalls) /\ <<>> \in Seq(Results) /\ Len(<<>>) = 0 /\ 1..0 = {}
  OBVIOUS
<1>4. /\ prog \in Programs /\ prog.pc = "turn" /\ prog.final = None
      /\ prog.calls = <<>> /\ prog.out = <<>>
  BY <1>2, <1>3 DEF Programs
<1>5. OutGood(prog)
  BY <1>3, <1>4 DEF OutGood
<1>6. Phases(prog, gen) /\ Reading(prog, strm)
  BY <1>1, <1>4 DEF Phases, Reading
<1> QED
  BY <1>1, <1>4, <1>5, <1>6 DEF CallingInv

LEMMA CallingStep == ASSUME CallingInv, [CallingNext]_callingVars PROVE CallingInv'
<1>1. CASE UNCHANGED callingVars
  BY <1>1 DEF callingVars, CallingInv
<1>2. CASE Program
  BY <1>2, TurnStep, RangeNextStep, RangeEndStep, ExecuteStep, ReceiveStep, CloseReaderStep
     DEF Program
<1>3. CASE Generated \/ GeneratedError
  BY <1>3, GeneratedStep
<1>4. CASE Server /\ UNCHANGED <<strm, prog>>
  BY <1>4, ServerStep
<1>5. CASE Writer /\ UNCHANGED <<cancelled, gen, prog>>
  BY <1>5, WriterStep
<1> QED
  BY <1>1, <1>2, <1>3, <1>4, <1>5 DEF CallingNext

(* The tool calling program with its model and tool streams keeps its      *)
(* inductive invariant, whatever the server, the tools and the deadline do.*)
THEOREM CallingInvHolds == CallingSpec => []CallingInv
<1>1. CallingInit => CallingInv
  BY CallingInitInv
<1>2. CallingInv /\ [CallingNext]_callingVars => CallingInv'
  BY CallingStep
<1> QED
  BY <1>1, <1>2, PTL DEF CallingSpec

(* executeToolCall and the loop of runNonStreamingModel and                *)
(* runStreamingModel: the request of the next turn has one tool message    *)
(* per call, in order, and a streamed result has lost no chunk.            *)
THEOREM ResultsHold == CallingSpec => []ResultsComplete
<1>1. CallingInv => ResultsComplete
  <2> SUFFICES ASSUME CallingInv PROVE ResultsComplete
    OBVIOUS
  <2>1. CASE prog.pc = "turn"
    BY <2>1, ResultsFollow DEF CallingInv
  <2>2. CASE prog.pc # "turn"
    BY <2>2 DEF ResultsComplete
  <2> QED
    BY <2>1, <2>2
<1> QED
  BY <1>1, CallingInvHolds, PTL

(* generateToolCalls and updateToolCallIndexMapping: the final response    *)
(* lists every announced call once, in the order of the server.            *)
THEOREM AssemblyHolds == CallingSpec => []CallsAssembled
<1>1. CallingInv => CallsAssembled
  BY Zenon DEF CallingInv, GenGood, Assembled, CallsAssembled
<1> QED
  BY <1>1, CallingInvHolds, PTL

(* The goroutine of Stream: a last response or an error, never both, and a *)
(* panic only without a choice.                                            *)
THEOREM OutcomeHolds == CallingSpec => []OneOutcome
<1>1. CallingInv => OneOutcome
  BY Zenon DEF CallingInv, GenGood, Phases, OneOutcome
<1> QED
  BY <1>1, CallingInvHolds, PTL

=============================================================================
