----------------------------- MODULE Scheduler -----------------------------
(***************************************************************************)
(* The DAG scheduler of schedule/graph.go and schedule/node.go: successive *)
(* Run calls on one Scheduler.  Each Run allocates a GraphState (channels  *)
(* done, finished, err), starts a control goroutine that receives settled  *)
(* nodes from done and schedules their successors, and a goroutine for the *)
(* start node; every scheduled node executes in a goroutine of its own.    *)
(*                                                                         *)
(* Node states live in the nodes and are shared by all Runs, whereas the   *)
(* channels belong to one GraphState.  Goroutines that outlive their Run   *)
(* (it returned on the first error, or a branch does not lead to the end   *)
(* node) keep writing the shared states, and scheduleNode uses whatever    *)
(* GraphState is current when it is called, so the model numbers the       *)
(* GraphStates and keeps the goroutines of all of them.                    *)
(*                                                                         *)
(* Atomicity.  A step is a maximal piece of code with at most one access   *)
(* to the shared states or to a channel.  Three pieces are coarser:        *)
(* resetForRun is one step, the scan of node.Prev in scheduleNode is one   *)
(* step (settled states do not change within a Run, so the scan takes      *)
(* effect at its last read), and the channel operand of a send is          *)
(* evaluated in the step that reaches the send.                            *)
(***************************************************************************)
EXTENDS Naturals, Sequences

CONSTANTS
    Nodes,    \* the nodes of a graph, virtual nodes included
    Start,    \* s.Entry, the node named __start__
    End,      \* the node named __end__
    Graphs,   \* the graphs under study, see IsGraph
    DoneCap,  \* the capacity of the done channel, 100 in the code
    MaxRuns   \* bound: how often Run is called on a Scheduler

Kinds == {"normal", "conditional", "virtual"}

(* Elements of a sequence. *)
Members(s) == {s[i] : i \in DOMAIN s}

(* What the construction API (AddNode, AddConditionalNode, AddEdge,        *)
(* AddConditionalEdge, SetEntry, SetExit) guarantees of a graph, provided  *)
(* SetExit is not called on a conditional node.  SetEntry adds no Prev to  *)
(* the entry node; AddConditionalEdge inserts a virtual node that has the  *)
(* conditional node as its only predecessor.  registered is the set of     *)
(* nodes resetForRun can see: the values of s.Graph; runs is how often its *)
(* owner calls Run.                                                        *)
IsGraph(g) ==
    /\ g.next \in [Nodes -> Seq(Nodes)]
    /\ g.prev \in [Nodes -> Seq(Nodes)]
    /\ g.kind \in [Nodes -> Kinds]
    /\ g.registered \in SUBSET Nodes
    /\ g.runs \in 1..MaxRuns
    /\ g.kind[Start] = "normal" /\ g.kind[End] = "normal"
    /\ g.prev[Start] = <<>> /\ g.next[End] = <<>>
    /\ \A n \in Nodes : Start \notin Members(g.next[n])
    /\ \A n, m \in Nodes :
          /\ n \in Members(g.prev[m]) => m \in Members(g.next[n])
          /\ (m \in Members(g.next[n]) /\ n # Start) => n \in Members(g.prev[m])
          /\ m \in Members(g.next[n]) =>
                (g.kind[m] = "virtual" <=> g.kind[n] = "conditional")
    /\ \A v \in Nodes : g.kind[v] = "virtual" => Len(g.prev[v]) = 1
    /\ \A c \in Nodes : g.kind[c] = "conditional" =>
          \A i, j \in DOMAIN g.next[c] : g.next[c][i] = g.next[c][j] => i = j

ASSUME SchedulerAssumption ==
    /\ Start \in Nodes /\ End \in Nodes /\ Start # End
    /\ DoneCap \in Nat \ {0}
    /\ MaxRuns \in Nat \ {0}
    /\ \A g \in Graphs : IsGraph(g)

Runs == 1..MaxRuns

States   == {"pending", "running", "skipped", "finished", "failed"}
Settled  == {"skipped", "finished"}
Terminal == {"skipped", "finished", "failed"}

(* Program counters of a node's goroutine and of the control goroutine.    *)
GoPC  == {"none", "spawned", "fn", "set", "sendBranch", "send", "sendErr", "exited"}
CtlPC == {"none", "recv", "sched", "sendSkip", "sendFinished", "sendErr", "exited"}

VARIABLES
    graph,      \* next, prev, kind and registered; never changes
    state,      \* Node.State, shared by all Runs
    gs,         \* s.GraphState: the number of the current GraphState, 0 before Run
    done,       \* done[r]: the buffered done channel of GraphState r
    finished,   \* finished[r]: messages in the finished channel, capacity 1
    err,        \* err[r]: messages in the err channel, capacity 1
    result,     \* result[r]: what the r-th Run call has returned
    go,         \* go[r][n]: the goroutine executing n that was started while r was current
    bound,      \* bound[r][n]: the GraphState that goroutine was given
    tags,       \* tags[r][n]: the branches a conditional node selected
    pos,        \* pos[r][n]: its position in the loop over n.Next
    ctl,        \* ctl[r]: the control goroutine of the r-th Run
    cnode,      \* cnode[r]: the node whose successors it schedules
    cpos,       \* cpos[r]: its position in node.Next
    cchan,      \* cchan[r]: the GraphState whose channel it is sending on
    clean       \* history: no Run so far could be disturbed by an earlier one

chanVars == <<done, finished, err>>
goVars   == <<go, bound, tags, pos>>
ctlVars  == <<ctl, cnode, cpos, cchan>>
vars     == <<graph, state, gs, chanVars, result, goVars, ctlVars, clean>>

Next_(n) == graph.next[n]
Prev_(n) == graph.prev[n]
Kind(n)  == graph.kind[n]

SetPC(r, n, pc) == go' = [go EXCEPT ![r] = [@ EXCEPT ![n] = pc]]

-----------------------------------------------------------------------------
(* Run and resetForRun.                                                    *)

(* No goroutine of Run r can touch a node state or a channel that a later  *)
(* Run reads: what is left of it is blocked for ever or about to exit.     *)
Quiet(r) ==
    /\ \A n \in Nodes : go[r][n] \in {"none", "sendErr", "exited"}
    /\ \/ ctl[r] \in {"none", "sendFinished", "sendErr", "exited"}
       \/ ctl[r] = "recv" /\ done[r] = <<>>

(* All nodes are nodes that the construction API puts in s.Graph.          *)
Reusable == Nodes \ {Start} \subseteq graph.registered

ResetEntry == [n \in Nodes |->   \* mutant: only s.Entry is reset
    IF n = Start THEN "pending" ELSE state[n]]

(* resetForRun reaches s.Entry and the values of s.Graph.  The construction *)
(* API does not put conditional and sub-graph nodes in s.Graph.            *)
ResetStates == [n \in Nodes |->
    IF n = Start \/ n \in graph.registered THEN "pending" ELSE state[n]]

Idle == gs > 0 => result[gs] # "running"

Run ==
    /\ Idle
    /\ gs < MaxRuns /\ gs < graph.runs
    /\ gs' = gs + 1
    /\ state' = ResetStates
    /\ ctl' = [ctl EXCEPT ![gs + 1] = "recv"]
    /\ SetPC(gs + 1, Start, "spawned")
    /\ result' = [result EXCEPT ![gs + 1] = "running"]
    /\ clean' = (clean /\ (gs > 0 => Quiet(gs) /\ Reusable))
    /\ UNCHANGED <<graph, chanVars, bound, tags, pos, cnode, cpos, cchan>>

(* The select at the end of Run.                                           *)
ReturnOk ==
    /\ ~Idle
    /\ finished[gs] = 1
    /\ finished' = [finished EXCEPT ![gs] = @ - 1]
    /\ result' = [result EXCEPT ![gs] = "ok"]
    /\ UNCHANGED <<graph, state, gs, done, err, goVars, ctlVars, clean>>

ReturnErr ==
    /\ ~Idle
    /\ err[gs] = 1
    /\ err' = [err EXCEPT ![gs] = @ - 1]
    /\ result' = [result EXCEPT ![gs] = "err"]
    /\ UNCHANGED <<graph, state, gs, done, finished, goVars, ctlVars, clean>>

-----------------------------------------------------------------------------
(* Node.Execute, in the goroutine of node n started under GraphState r.    *)

(* go func() { node.Execute(ctx, s.GraphState) }: the argument is read     *)
(* when the goroutine runs.  Execute returns at once for a virtual node.   *)
Execute(r, n) ==
    /\ go[r][n] = "spawned"
    /\ SetPC(r, n, IF Kind(n) = "virtual" THEN "exited" ELSE "fn")
    /\ bound' = [bound EXCEPT ![r] = [@ EXCEPT ![n] = gs]]
    /\ UNCHANGED <<graph, state, gs, chanVars, result, tags, pos, ctlVars, clean>>

(* n.Fn.Execute returned nil and n is marked finished.                     *)
FnOk(r, n) ==
    /\ go[r][n] = "fn"
    /\ Kind(n) = "normal"
    /\ state' = [state EXCEPT ![n] = "finished"]
    /\ SetPC(r, n, "send")
    /\ UNCHANGED <<graph, gs, chanVars, result, bound, tags, pos, ctlVars, clean>>

(* n.Fn.Execute returned an error, or a conditional node did not leave its *)
(* result in the context.  The start and end nodes never fail.             *)
FnFail(r, n) ==
    /\ go[r][n] = "fn"
    /\ n \notin {Start, End}
    /\ state' = [state EXCEPT ![n] = "failed"]
    /\ SetPC(r, n, "sendErr")
    /\ UNCHANGED <<graph, gs, chanVars, result, bound, tags, pos, ctlVars, clean>>

(* executeConditional: the condition selected the branches in chosen (a    *)
(* tag stands for the virtual nodes that carry it).                        *)
CondOk(r, n) ==
    /\ go[r][n] = "fn"
    /\ Kind(n) = "conditional"
    /\ state' = [state EXCEPT ![n] = "finished"]
    /\ \E chosen \in SUBSET Members(Next_(n)) :
          tags' = [tags EXCEPT ![r] = [@ EXCEPT ![n] = chosen]]
    /\ pos' = [pos EXCEPT ![r] = [@ EXCEPT ![n] = 1]]
    /\ SetPC(r, n, IF Next_(n) = <<>> THEN "exited" ELSE "set")
    /\ UNCHANGED <<graph, gs, chanVars, result, bound, ctlVars, clean>>

(* next.setState in the loop over n.Next.                                  *)
SetBranch(r, n) ==
    /\ go[r][n] = "set"
    /\ LET v == Next_(n)[pos[r][n]] IN
          state' = [state EXCEPT ![v] =
                       IF v \in tags[r][n] THEN "finished" ELSE "skipped"]
    /\ SetPC(r, n, "sendBranch")
    /\ UNCHANGED <<graph, gs, chanVars, result, bound, tags, pos, ctlVars, clean>>

(* state.done <- next, and on to the next branch.                          *)
SendBranch(r, n) ==
    /\ go[r][n] = "sendBranch"
    /\ LET c == bound[r][n] IN
          /\ Len(done[c]) < DoneCap
          /\ done' = [done EXCEPT ![c] = Append(@, Next_(n)[pos[r][n]])]
    /\ pos' = [pos EXCEPT ![r] = [@ EXCEPT ![n] = pos[r][n] + 1]]
    /\ SetPC(r, n, IF pos[r][n] < Len(Next_(n)) THEN "set" ELSE "exited")
    /\ UNCHANGED <<graph, state, gs, finished, err, result, bound, tags, ctlVars, clean>>

(* state.done <- n, blocking while the channel is full.                    *)
SendDone(r, n) ==
    /\ go[r][n] = "send"
    /\ LET c == bound[r][n] IN
          /\ Len(done[c]) < DoneCap
          /\ done' = [done EXCEPT ![c] = Append(@, n)]
    /\ SetPC(r, n, "exited")
    /\ UNCHANGED <<graph, state, gs, finished, err, result, bound, tags, pos, ctlVars, clean>>

SendErrUnbounded(r, n) ==   \* mutant: the err channel never blocks
    /\ go[r][n] = "sendErr"
    /\ err' = [err EXCEPT ![bound[r][n]] = @ + 1]
    /\ SetPC(r, n, "exited")
    /\ UNCHANGED <<graph, state, gs, done, finished, result, bound, tags, pos, ctlVars, clean>>

(* state.err <- err, blocking while the channel is full.                   *)
SendErr(r, n) ==
    /\ go[r][n] = "sendErr"
    /\ LET c == bound[r][n] IN
          /\ err[c] = 0
          /\ err' = [err EXCEPT ![c] = @ + 1]
    /\ SetPC(r, n, "exited")
    /\ UNCHANGED <<graph, state, gs, done, finished, result, bound, tags, pos, ctlVars, clean>>

Goroutine(r, n) ==
    \/ Execute(r, n) \/ FnOk(r, n) \/ FnFail(r, n) \/ CondOk(r, n)
    \/ SetBranch(r, n) \/ SendBranch(r, n) \/ SendDone(r, n) \/ SendErr(r, n)

-----------------------------------------------------------------------------
(* The control goroutine of the r-th Run.                                  *)

(* for node := range s.GraphState.done                                     *)
Receive(r) ==
    /\ ctl[r] = "recv"
    /\ done[r] # <<>>
    /\ LET n == Head(done[r]) IN
          /\ cnode' = [cnode EXCEPT ![r] = n]
          /\ ctl' = [ctl EXCEPT ![r] =
                IF n = End THEN "sendFinished"
                ELSE IF Next_(n) = <<>> THEN "recv" ELSE "sched"]
    /\ cpos' = [cpos EXCEPT ![r] = 1]
    /\ cchan' = [cchan EXCEPT ![r] = gs]
    /\ done' = [done EXCEPT ![r] = Tail(@)]
    /\ UNCHANGED <<graph, state, gs, finished, err, result, goVars, clean>>

(* s.GraphState.finished <- struct{}{}                                     *)
SendFinished(r) ==
    /\ ctl[r] = "sendFinished"
    /\ finished[cchan[r]] = 0
    /\ finished' = [finished EXCEPT ![cchan[r]] = @ + 1]
    /\ ctl' = [ctl EXCEPT ![r] = "exited"]
    /\ UNCHANGED <<graph, state, gs, done, err, result, goVars, cnode, cpos, cchan, clean>>

(* The cases of scheduleNode(x): the first predecessor that is not settled *)
(* decides, and if there is none the skipped ones are counted.             *)
SettledBefore(x, i) == \A j \in 1..(i - 1) : state[Prev_(x)[j]] \in Settled

PrevOpen(x) == \E i \in DOMAIN Prev_(x) :
    state[Prev_(x)[i]] \in {"pending", "running"} /\ SettledBefore(x, i)

PrevNotDone(x) == \E i \in DOMAIN Prev_(x) :   \* mutant: skipped counts as failed
    state[Prev_(x)[i]] \in {"skipped", "failed"} /\ SettledBefore(x, i)

PrevFailed(x) == \E i \in DOMAIN Prev_(x) :
    state[Prev_(x)[i]] = "failed" /\ SettledBefore(x, i)

SomeSkipped(x) ==   \* mutant: countSkipped is not compared with len(node.Prev)
    \E i \in DOMAIN Prev_(x) : state[Prev_(x)[i]] = "skipped"

AllSkipped(x) ==
    /\ Prev_(x) # <<>>
    /\ \A i \in DOMAIN Prev_(x) : state[Prev_(x)[i]] = "skipped"

ReadyIgnoringRunning(x) ==   \* mutant: a running predecessor does not block
    /\ \A i \in DOMAIN Prev_(x) : state[Prev_(x)[i]] \in Settled \cup {"running"}
    /\ ~AllSkipped(x)

ReadyIgnoringFailed(x) ==   \* mutant: a failed predecessor does not block
    /\ \A i \in DOMAIN Prev_(x) : state[Prev_(x)[i]] \in Terminal
    /\ ~AllSkipped(x)

Ready(x) ==
    /\ \A i \in DOMAIN Prev_(x) : state[Prev_(x)[i]] \in Settled
    /\ ~AllSkipped(x)

AdvanceShort(r) ==   \* mutant: the last successor is left out
    /\ cpos' = [cpos EXCEPT ![r] = @ + 1]
    /\ ctl' = [ctl EXCEPT ![r] =
          IF cpos[r] + 1 < Len(Next_(cnode[r])) THEN "sched" ELSE "recv"]

(* The loop over node.Next goes on with the next successor.                *)
Advance(r) ==
    /\ cpos' = [cpos EXCEPT ![r] = @ + 1]
    /\ ctl' = [ctl EXCEPT ![r] =
          IF cpos[r] < Len(Next_(cnode[r])) THEN "sched" ELSE "recv"]

Successor(r) == Next_(cnode[r])[cpos[r]]

(* return nil: a predecessor is not settled, or the node was scheduled     *)
(* before (the compare-and-swap fails).                                    *)
ScheduleNothing(r) ==
    /\ ctl[r] = "sched"
    /\ LET x == Successor(r) IN
          PrevOpen(x) \/ (Ready(x) /\ state[x] # "pending")
    /\ Advance(r)
    /\ UNCHANGED <<graph, state, gs, chanVars, result, goVars, cnode, cchan, clean>>

(* return fmt.Errorf("node %s failed"): the control goroutine gives up.    *)
ScheduleError(r) ==
    /\ ctl[r] = "sched"
    /\ PrevFailed(Successor(r))
    /\ ctl' = [ctl EXCEPT ![r] = "sendErr"]
    /\ cchan' = [cchan EXCEPT ![r] = gs]
    /\ UNCHANGED <<graph, state, gs, chanVars, result, goVars, cnode, cpos, clean>>

(* All predecessors are skipped: so is this node, scheduled before or not. *)
ScheduleSkip(r) ==
    /\ ctl[r] = "sched"
    /\ LET x == Successor(r) IN
          /\ AllSkipped(x)
          /\ state' = [state EXCEPT ![x] = "skipped"]
    /\ ctl' = [ctl EXCEPT ![r] = "sendSkip"]
    /\ cchan' = [cchan EXCEPT ![r] = gs]
    /\ UNCHANGED <<graph, gs, chanVars, result, goVars, cnode, cpos, clean>>

ScheduleRunNoCAS(r) ==   \* mutant: the state is stored, not compared and swapped
    /\ ctl[r] = "sched"
    /\ LET x == Successor(r) IN
          /\ Ready(x)
          /\ state' = [state EXCEPT ![x] = "running"]
          /\ SetPC(gs, x, "spawned")
    /\ Advance(r)
    /\ UNCHANGED <<graph, gs, chanVars, result, bound, tags, pos, cnode, cchan, clean>>

(* CompareAndSwapInt32(&node.State, NodePending, NodeRunning); go func...  *)
ScheduleRun(r) ==
    /\ ctl[r] = "sched"
    /\ LET x == Successor(r) IN
          /\ Ready(x)
          /\ state[x] = "pending"
          /\ state' = [state EXCEPT ![x] = "running"]
          /\ SetPC(gs, x, "spawned")
    /\ Advance(r)
    /\ UNCHANGED <<graph, gs, chanVars, result, bound, tags, pos, cnode, cchan, clean>>

(* s.GraphState.done <- node by the goroutine that drains the channel.     *)
SendSkipped(r) ==
    /\ ctl[r] = "sendSkip"
    /\ Len(done[cchan[r]]) < DoneCap
    /\ done' = [done EXCEPT ![cchan[r]] = Append(@, Successor(r))]
    /\ Advance(r)
    /\ UNCHANGED <<graph, state, gs, finished, err, result, goVars, cnode, cchan, clean>>

(* s.GraphState.err <- err                                                 *)
SendScheduleErr(r) ==
    /\ ctl[r] = "sendErr"
    /\ err[cchan[r]] = 0
    /\ err' = [err EXCEPT ![cchan[r]] = @ + 1]
    /\ ctl' = [ctl EXCEPT ![r] = "exited"]
    /\ UNCHANGED <<graph, state, gs, done, finished, result, goVars, cnode, cpos, cchan, clean>>

Control(r) ==
    \/ Receive(r) \/ SendFinished(r) \/ ScheduleNothing(r) \/ ScheduleError(r)
    \/ ScheduleSkip(r) \/ ScheduleRun(r) \/ SendSkipped(r) \/ SendScheduleErr(r)

-----------------------------------------------------------------------------
PerRun(x)  == [r \in Runs |-> x]
PerNode(x) == [r \in Runs |-> [n \in Nodes |-> x]]

Init ==
    /\ graph \in Graphs
    /\ state = [n \in Nodes |-> "pending"]
    /\ gs = 0
    /\ done = PerRun(<<>>)
    /\ finished = PerRun(0)
    /\ err = PerRun(0)
    /\ result = PerRun("none")
    /\ go = PerNode("none")
    /\ bound = PerNode(0)
    /\ tags = PerNode({})
    /\ pos = PerNode(1)
    /\ ctl = PerRun("none")
    /\ cnode = PerRun(Start)
    /\ cpos = PerRun(1)
    /\ cchan = PerRun(0)
    /\ clean = TRUE

Next ==
    \/ Run \/ ReturnOk \/ ReturnErr
    \/ \E r \in Runs : Control(r)
    \/ \E r \in Runs, n \in Nodes : Goroutine(r, n)

Spec == Init /\ [][Next]_vars

(* The Go scheduler runs every runnable goroutine, node functions return,  *)
(* and a select with a ready case proceeds.                                *)
Fairness ==
    /\ WF_vars(ReturnOk \/ ReturnErr)
    /\ \A r \in Runs : WF_vars(Control(r))
    /\ \A r \in Runs, n \in Nodes : WF_vars(Goroutine(r, n))

FairSpec == Spec /\ Fairness

-----------------------------------------------------------------------------
(* Every variable stays in its type; finished and err hold what their      *)
(* capacity of one allows.                                                 *)
TypeOK ==
    /\ graph \in Graphs
    /\ state \in [Nodes -> States]
    /\ gs \in 0..MaxRuns
    /\ done \in [Runs -> Seq(Nodes)]
    /\ finished \in [Runs -> 0..1]
    /\ err \in [Runs -> 0..1]
    /\ result \in [Runs -> {"none", "running", "ok", "err"}]
    /\ go \in [Runs -> [Nodes -> GoPC]]
    /\ bound \in [Runs -> [Nodes -> 0..MaxRuns]]
    /\ tags \in [Runs -> [Nodes -> SUBSET Nodes]]
    /\ pos \in [Runs -> [Nodes -> Nat]]
    /\ ctl \in [Runs -> CtlPC]
    /\ cnode \in [Runs -> Nodes]
    /\ cpos \in [Runs -> Nat]
    /\ cchan \in [Runs -> 0..MaxRuns]
    /\ clean \in BOOLEAN

(* The loops over n.Next stay within the slice.                            *)
Positions ==
    /\ \A r \in Runs, n \in Nodes :
          go[r][n] \in {"set", "sendBranch"} => pos[r][n] \in DOMAIN Next_(n)
    /\ \A r \in Runs :
          ctl[r] \in {"sched", "sendSkip"} => cpos[r] \in DOMAIN Next_(cnode[r])

(* A node starts, settles or is skipped only after everything it depends   *)
(* on has settled: scheduleNode's scan of node.Prev enforces the order of  *)
(* the DAG although states are written by several goroutines.              *)
Precedence ==
    clean => \A n \in Nodes : state[n] # "pending" =>
                \A p \in Members(Prev_(n)) : state[p] \in Settled

(* Skipping is exactly the propagation of unselected branches: a node is   *)
(* skipped only if all its predecessors are, and a node that was started   *)
(* has, unless it is an entry node, a predecessor that did finish.         *)
SkipSound ==
    clean => \A n \in Nodes : Kind(n) # "virtual" =>
        /\ state[n] = "skipped" =>
              /\ Prev_(n) # <<>>
              /\ \A p \in Members(Prev_(n)) : state[p] = "skipped"
        /\ (state[n] \in {"running", "finished", "failed"} /\ Prev_(n) # <<>>) =>
              \E p \in Members(Prev_(n)) : state[p] = "finished"

(* When Run reports success, the end node has settled and nothing it       *)
(* depends on, directly or not, failed or is still executing: the settled  *)
(* nodes include the end node and are closed under predecessors.           *)
SuccessSound ==
    (clean /\ gs > 0 /\ result[gs] = "ok") =>
        LET S == {n \in Nodes : /\ state[n] \in Settled
                                /\ go[gs][n] \notin {"spawned", "fn"}}
        IN  /\ End \in S
            /\ \A n \in S : Members(Prev_(n)) \subseteq S

(* Run reports an error only if a node of this Run failed.                 *)
ErrorSound ==
    (clean /\ gs > 0 /\ result[gs] = "err") => \E n \in Nodes : state[n] = "failed"

(* Within a Run a node that finished, failed or was skipped keeps that     *)
(* outcome: no second execution, no skip over a result, although           *)
(* scheduleNode skips without a compare-and-swap.                          *)
TerminalStable ==
    [][(clean /\ gs' = gs) =>
          \A n \in Nodes : state[n] \in Terminal => state'[n] = state[n]]_vars

(* No wake-up is lost: when the control goroutine waits on an empty done   *)
(* channel and no node executes, no successor of a settled node is still   *)
(* waiting with all its predecessors settled.  scheduleNode only looks at  *)
(* a node when a predecessor was received, so each node must be received   *)
(* after its state was set, and every settled node must be received.       *)
NoLostNode ==
    (clean /\ gs > 0 /\ ctl[gs] = "recv" /\ done[gs] = <<>>
           /\ \A n \in Nodes : go[gs][n] \in {"none", "exited"}) =>
        \A n \in Nodes :
            (Prev_(n) # <<>> /\ \A p \in Members(Prev_(n)) : state[p] \in Settled)
                => state[n] # "pending"

(* Why the properties above hold: while clean, one Run is alone in writing *)
(* states and channels, and what a goroutine or the done channel holds     *)
(* agrees with the node states.                                            *)
Undisturbed == clean =>
    /\ \A r \in Runs : r < gs => Quiet(r)
    /\ \A r \in Runs : r > gs =>
          /\ \A n \in Nodes : go[r][n] = "none"
          /\ ctl[r] = "none" /\ done[r] = <<>> /\ finished[r] = 0 /\ err[r] = 0
          /\ result[r] = "none"
    /\ \A r \in Runs, n \in Nodes :
          go[r][n] \in {"fn", "set", "sendBranch", "send", "sendErr"} => bound[r][n] = r
    /\ \A r \in Runs :
          ctl[r] \in {"sched", "sendSkip", "sendFinished", "sendErr"} => cchan[r] = r
    /\ gs = 0 => \A n \in Nodes : state[n] = "pending"

GoroutineSound == (clean /\ gs > 0) => \A n \in Nodes :
    /\ go[gs][n] \in {"spawned", "fn"} =>
          /\ state[n] = "running" \/ (n = Start /\ state[n] = "pending")
          /\ Kind(n) # "virtual"
    /\ go[gs][n] = "send" => state[n] = "finished" /\ Kind(n) = "normal"
    /\ go[gs][n] \in {"set", "sendBranch"} =>
          state[n] = "finished" /\ Kind(n) = "conditional"
    /\ go[gs][n] = "sendErr" => state[n] = "failed"

(* The branches the loop of executeConditional has not reached are pending. *)
BranchSound == (clean /\ gs > 0) => \A n \in Nodes :
    /\ go[gs][n] \in {"set", "sendBranch"} =>
          \A j \in DOMAIN Next_(n) :
             (j > pos[gs][n] \/ (j = pos[gs][n] /\ go[gs][n] = "set"))
                => state[Next_(n)[j]] = "pending"
    /\ go[gs][n] = "sendBranch" => state[Next_(n)[pos[gs][n]]] \in Settled

(* A conditional node reaches the done channel only when it is skipped.    *)
Delivered(n) == state[n] \in Settled /\ (Kind(n) = "conditional" => state[n] = "skipped")

QueueSound == (clean /\ gs > 0) =>
    /\ \A i \in DOMAIN done[gs] : Delivered(done[gs][i])
    /\ ctl[gs] \in {"sched", "sendSkip", "sendFinished"} => Delivered(cnode[gs])
    /\ ctl[gs] = "sendSkip" => state[Successor(gs)] = "skipped"
    /\ ctl[gs] = "sendFinished" => cnode[gs] = End

VirtualSkip == clean => \A c, v \in Nodes :
    (Kind(v) = "virtual" /\ c \in Members(Prev_(v)) /\ state[c] = "skipped")
        => state[v] \in {"pending", "skipped"}

OutcomeSound == (clean /\ gs > 0) =>
    /\ (finished[gs] = 1 \/ result[gs] = "ok") => state[End] \in Settled
    /\ (ctl[gs] = "sendErr" \/ err[gs] = 1 \/ result[gs] = "err") =>
          \E n \in Nodes : state[n] = "failed"

Inductive ==
    /\ TypeOK /\ Positions /\ Undisturbed /\ GoroutineSound /\ BranchSound
    /\ QueueSound /\ Precedence /\ SkipSound /\ VirtualSkip /\ OutcomeSound

(* A Run that no earlier one disturbs returns: the graph execution         *)
(* finishes or fails.                                                      *)
RunReturns == \A r \in Runs :
    (gs = r /\ result[r] = "running" /\ clean) ~> result[r] # "running"

(* Every Run returns, as the comment of Run says: "The main goroutine      *)
(* executes the entry node and waits for the graph execution to finish or  *)
(* fail."                                                                  *)
EveryRunReturns == \A r \in Runs : result[r] = "running" ~> result[r] # "running"
=============================================================================
