-------------------------- MODULE SchedulerProofs --------------------------
(* Proofs of the safety properties of Scheduler, for every set of nodes,   *)
(* every set of graphs the construction API can build, every capacity of   *)
(* the done channel and any number of Runs.                                *)
EXTENDS Scheduler, TLAPS

USE DEF Next_, Prev_, Kind

TypeInv == TypeOK /\ Positions

(* What the assumption on Graphs says of the graph of a run.               *)
LEMMA GraphShape ==
    ASSUME TypeOK
    PROVE  /\ graph.next \in [Nodes -> Seq(Nodes)]
           /\ graph.prev \in [Nodes -> Seq(Nodes)]
           /\ graph.kind \in [Nodes -> Kinds]
BY SchedulerAssumption DEF TypeOK, IsGraph

(* The initial state has the right type.                                   *)
LEMMA TypeInit == Init => TypeInv
BY SchedulerAssumption DEF Init, TypeInv, TypeOK, Positions, PerRun, PerNode, Runs,
   States, GoPC, CtlPC

(* The effect of SetPC, pointwise.                                         *)
LEMMA SetPCEffect ==
    ASSUME go \in [Runs -> [Nodes -> GoPC]],
           NEW r \in Runs, NEW n \in Nodes, NEW pc \in GoPC, SetPC(r, n, pc)
    PROVE  /\ go' \in [Runs -> [Nodes -> GoPC]]
           /\ go'[r][n] = pc
           /\ \A q \in Runs, m \in Nodes : q # r \/ m # n => go'[q][m] = go[q][m]
BY DEF SetPC

(* The same for an update of pos.                                          *)
LEMMA PosEffect ==
    ASSUME pos \in [Runs -> [Nodes -> Nat]], NEW r \in Runs, NEW n \in Nodes,
           NEW k \in Nat, pos' = [pos EXCEPT ![r] = [@ EXCEPT ![n] = k]]
    PROVE  /\ pos' \in [Runs -> [Nodes -> Nat]]
           /\ pos'[r][n] = k
           /\ \A q \in Runs, m \in Nodes : q # r \/ m # n => pos'[q][m] = pos[q][m]
OBVIOUS

(* Sending a node on the done channel of GraphState c.                     *)
LEMMA SendType ==
    ASSUME done \in [Runs -> Seq(Nodes)],
           NEW c, NEW x \in Nodes, done' = [done EXCEPT ![c] = Append(@, x)]
    PROVE  done' \in [Runs -> Seq(Nodes)]
<1>1. \A q \in Runs : Append(done[q], x) \in Seq(Nodes)
  OBVIOUS
<1> QED
  BY <1>1

(* Run (graph.go 189-220) keeps types: the new GraphState is within        *)
(* MaxRuns.                                                                *)
LEMMA TypeRun == TypeInv /\ Run => TypeInv'
<1> SUFFICES ASSUME TypeInv, Run PROVE TypeInv'
  OBVIOUS
<1>1. gs + 1 \in Runs
  BY SchedulerAssumption DEF TypeInv, TypeOK, Run, Runs
<1>a. go \in [Runs -> [Nodes -> GoPC]] /\ SetPC(gs + 1, Start, "spawned")
  BY DEF TypeInv, TypeOK, Run
<1>2. /\ go' \in [Runs -> [Nodes -> GoPC]]
      /\ go'[gs + 1][Start] = "spawned"
      /\ \A q \in Runs, m \in Nodes : q # gs + 1 \/ m # Start => go'[q][m] = go[q][m]
  BY <1>1, <1>a, SetPCEffect, SchedulerAssumption DEF GoPC
<1>3. clean' \in BOOLEAN
  BY Zenon DEF Run
<1>4. state' \in [Nodes -> States]
  BY DEF TypeInv, TypeOK, Run, ResetStates, States
<1>b. gs' \in 0..MaxRuns
  BY <1>1, SchedulerAssumption DEF TypeInv, TypeOK, Run, Runs
<1>c. ctl' \in [Runs -> CtlPC] /\ \A q \in Runs : ctl'[q] \in {"recv", ctl[q]}
  BY <1>1 DEF TypeInv, TypeOK, Run, CtlPC
<1>d. result' \in [Runs -> {"none", "running", "ok", "err"}]
  BY <1>1 DEF TypeInv, TypeOK, Run
<1>5. TypeOK'
  BY <1>2, <1>3, <1>4, <1>b, <1>c, <1>d DEF TypeInv, TypeOK, Run, chanVars
<1>6. Positions'
  <2>1. \A q \in Runs, m \in Nodes : go'[q][m] \in {"spawned", go[q][m]}
    BY <1>2
  <2> QED
    BY <2>1, <1>c DEF TypeInv, Positions, Run
<1> QED
  BY <1>5, <1>6 DEF TypeInv

(* The select at the end of Run keeps types.                               *)
LEMMA TypeReturn == TypeInv /\ (ReturnOk \/ ReturnErr) => TypeInv'
<1> SUFFICES ASSUME TypeInv, ReturnOk \/ ReturnErr PROVE TypeInv'
  OBVIOUS
<1>a. /\ finished \in [Runs -> 0..1] /\ err \in [Runs -> 0..1]
      /\ result \in [Runs -> {"none", "running", "ok", "err"}]
  BY DEF TypeInv, TypeOK
<1>b. finished' \in [Runs -> 0..1]
  BY <1>a DEF ReturnOk, ReturnErr
<1>c. err' \in [Runs -> 0..1]
  BY <1>a DEF ReturnOk, ReturnErr
<1>1. /\ finished' \in [Runs -> 0..1] /\ err' \in [Runs -> 0..1]
      /\ result' \in [Runs -> {"none", "running", "ok", "err"}]
  BY <1>a, <1>b, <1>c DEF ReturnOk, ReturnErr
<1>2. UNCHANGED <<graph, state, gs, done, goVars, ctlVars, clean>>
  BY DEF ReturnOk, ReturnErr
<1>3. TypeOK'
  BY <1>1, <1>2 DEF TypeInv, TypeOK, goVars, ctlVars
<1>4. Positions'
  BY <1>2 DEF TypeInv, Positions, goVars, ctlVars
<1> QED
  BY <1>3, <1>4 DEF TypeInv

(* Node.Execute binds a GraphState that exists.                            *)
LEMMA TypeExecute ==
    ASSUME TypeInv, NEW r \in Runs, NEW n \in Nodes, Execute(r, n)
    PROVE  TypeInv'
<1>1. /\ go \in [Runs -> [Nodes -> GoPC]]
      /\ bound \in [Runs -> [Nodes -> 0..MaxRuns]]
      /\ gs \in 0..MaxRuns
  BY DEF TypeInv, TypeOK
<1>2. PICK pc \in {"fn", "exited"} : SetPC(r, n, pc)
  BY DEF Execute
<1>3. /\ go' \in [Runs -> [Nodes -> GoPC]]
      /\ \A q \in Runs, m \in Nodes : go'[q][m] \in {"fn", "exited", go[q][m]}
  <2>1. go \in [Runs -> [Nodes -> GoPC]] /\ pc \in GoPC
    BY <1>1 DEF GoPC
  <2>2. /\ go' \in [Runs -> [Nodes -> GoPC]]
        /\ go'[r][n] = pc
        /\ \A q \in Runs, m \in Nodes : q # r \/ m # n => go'[q][m] = go[q][m]
    BY <1>2, <2>1, SetPCEffect
  <2> QED
    BY <2>2
<1>4. bound' \in [Runs -> [Nodes -> 0..MaxRuns]]
  BY <1>1 DEF Execute
<1>5. TypeOK'
  BY <1>3, <1>4 DEF TypeInv, TypeOK, Execute, chanVars, ctlVars
<1>6. Positions'
  BY <1>3 DEF TypeInv, Positions, Execute, ctlVars
<1> QED
  BY <1>5, <1>6 DEF TypeInv

(* The return of a node function keeps types.                              *)
LEMMA TypeFn ==
    ASSUME TypeInv, NEW r \in Runs, NEW n \in Nodes, FnOk(r, n) \/ FnFail(r, n)
    PROVE  TypeInv'
<1>1. go \in [Runs -> [Nodes -> GoPC]] /\ state \in [Nodes -> States]
  BY DEF TypeInv, TypeOK
<1>2. PICK pc \in {"send", "sendErr"} : SetPC(r, n, pc)
  BY DEF FnOk, FnFail
<1>3. /\ go' \in [Runs -> [Nodes -> GoPC]]
      /\ \A q \in Runs, m \in Nodes : go'[q][m] \in {"send", "sendErr", go[q][m]}
  BY <1>1, <1>2, SetPCEffect DEF GoPC
<1>4. state' \in [Nodes -> States]
  BY <1>1 DEF FnOk, FnFail, States
<1>5. TypeOK'
  BY <1>3, <1>4 DEF TypeInv, TypeOK, FnOk, FnFail, chanVars, ctlVars
<1>6. Positions'
  BY <1>3 DEF TypeInv, Positions, FnOk, FnFail, ctlVars
<1> QED
  BY <1>5, <1>6 DEF TypeInv

(* The return of a condition keeps types and starts the loop over n.Next   *)
(* at its first element.                                                   *)
LEMMA TypeCondOk ==
    ASSUME TypeInv, NEW r \in Runs, NEW n \in Nodes, CondOk(r, n)
    PROVE  TypeInv'
<1>1. /\ go \in [Runs -> [Nodes -> GoPC]] /\ state \in [Nodes -> States]
      /\ tags \in [Runs -> [Nodes -> SUBSET Nodes]]
      /\ pos \in [Runs -> [Nodes -> Nat]]
      /\ Next_(n) \in Seq(Nodes)
  BY GraphShape DEF TypeInv, TypeOK
<1>2. PICK chosen \in SUBSET Members(Next_(n)) :
         tags' = [tags EXCEPT ![r] = [@ EXCEPT ![n] = chosen]]
  BY DEF CondOk
<1>3. Members(Next_(n)) \subseteq Nodes
  BY <1>1 DEF Members
<1>4. tags' \in [Runs -> [Nodes -> SUBSET Nodes]]
  BY <1>1, <1>2, <1>3
<1>5. /\ pos' \in [Runs -> [Nodes -> Nat]]
      /\ pos'[r][n] = 1
      /\ \A q \in Runs, m \in Nodes : q # r \/ m # n => pos'[q][m] = pos[q][m]
  BY <1>1 DEF CondOk
<1>6. PICK pc \in {"exited", "set"} :
         SetPC(r, n, pc) /\ (pc = "set" => Next_(n) # <<>>)
  BY DEF CondOk
<1>7. /\ go' \in [Runs -> [Nodes -> GoPC]]
      /\ go'[r][n] = pc
      /\ \A q \in Runs, m \in Nodes : q # r \/ m # n => go'[q][m] = go[q][m]
  BY <1>1, <1>6, SetPCEffect DEF GoPC
<1>8. state' \in [Nodes -> States]
  BY <1>1 DEF CondOk, States
<1>9. Next_(n) # <<>> => 1 \in DOMAIN Next_(n)
  BY <1>1
<1>10. TypeOK'
  BY <1>4, <1>5, <1>7, <1>8 DEF TypeInv, TypeOK, CondOk, chanVars, ctlVars
<1>11. Positions'
  BY <1>5, <1>6, <1>7, <1>9 DEF TypeInv, Positions, CondOk, ctlVars
<1> QED
  BY <1>10, <1>11 DEF TypeInv

(* Setting the state of a branch keeps types.                              *)
LEMMA TypeSetBranch ==
    ASSUME TypeInv, NEW r \in Runs, NEW n \in Nodes, SetBranch(r, n)
    PROVE  TypeInv'
<1>1. go \in [Runs -> [Nodes -> GoPC]] /\ state \in [Nodes -> States]
  BY DEF TypeInv, TypeOK
<1>2. /\ go' \in [Runs -> [Nodes -> GoPC]]
      /\ go'[r][n] = "sendBranch"
      /\ \A q \in Runs, m \in Nodes : q # r \/ m # n => go'[q][m] = go[q][m]
  BY <1>1, SetPCEffect DEF SetBranch, GoPC
<1>3. state' \in [Nodes -> States]
  BY <1>1 DEF SetBranch, States
<1>4. TypeOK'
  BY <1>2, <1>3 DEF TypeInv, TypeOK, SetBranch, chanVars, ctlVars
<1>5. Positions'
  BY <1>2 DEF TypeInv, Positions, SetBranch, ctlVars
<1> QED
  BY <1>4, <1>5 DEF TypeInv

(* The loop of executeConditional stays within n.Next.                     *)
LEMMA TypeSendBranch ==
    ASSUME TypeInv, NEW r \in Runs, NEW n \in Nodes, SendBranch(r, n)
    PROVE  TypeInv'
<1>1. /\ go \in [Runs -> [Nodes -> GoPC]] /\ done \in [Runs -> Seq(Nodes)]
      /\ pos \in [Runs -> [Nodes -> Nat]]
      /\ Next_(n) \in Seq(Nodes)
  BY GraphShape DEF TypeInv, TypeOK
<1>2. pos[r][n] \in DOMAIN Next_(n)
  BY DEF SendBranch, TypeInv, Positions
<1>3. Next_(n)[pos[r][n]] \in Nodes
  BY <1>1, <1>2
<1>4. done' \in [Runs -> Seq(Nodes)]
  BY <1>1, <1>3, SendType DEF SendBranch
<1>5. /\ pos' \in [Runs -> [Nodes -> Nat]]
      /\ pos'[r][n] = pos[r][n] + 1
      /\ \A q \in Runs, m \in Nodes : q # r \/ m # n => pos'[q][m] = pos[q][m]
  <2>1. pos' = [pos EXCEPT ![r] = [@ EXCEPT ![n] = pos[r][n] + 1]]
    BY DEF SendBranch
  <2>2. pos \in [Runs -> [Nodes -> Nat]] /\ pos[r][n] + 1 \in Nat
    BY <1>1
  <2> QED
    BY <2>1, <2>2, PosEffect
<1>6. PICK pc \in {"exited", "set"} :
         SetPC(r, n, pc) /\ (pc = "set" => pos[r][n] < Len(Next_(n)))
  BY DEF SendBranch
<1>7. /\ go' \in [Runs -> [Nodes -> GoPC]]
      /\ go'[r][n] = pc
      /\ \A q \in Runs, m \in Nodes : q # r \/ m # n => go'[q][m] = go[q][m]
  BY <1>1, <1>6, SetPCEffect DEF GoPC
<1>8. pc = "set" => pos[r][n] + 1 \in DOMAIN Next_(n)
  BY <1>1, <1>2, <1>6
<1>9. TypeOK'
  BY <1>4, <1>5, <1>7 DEF TypeInv, TypeOK, SendBranch, ctlVars
<1>10. Positions'
  BY <1>5, <1>7, <1>8 DEF TypeInv, Positions, SendBranch, ctlVars
<1> QED
  BY <1>9, <1>10 DEF TypeInv

(* The sends at the end of Node.Execute keep types.                        *)
LEMMA TypeSend ==
    ASSUME TypeInv, NEW r \in Runs, NEW n \in Nodes, SendDone(r, n) \/ SendErr(r, n)
    PROVE  TypeInv'
<1>1. /\ go \in [Runs -> [Nodes -> GoPC]] /\ done \in [Runs -> Seq(Nodes)]
      /\ err \in [Runs -> 0..1]
  BY DEF TypeInv, TypeOK
<1>2. SetPC(r, n, "exited")
  BY DEF SendDone, SendErr
<1>3. /\ go' \in [Runs -> [Nodes -> GoPC]]
      /\ \A q \in Runs, m \in Nodes : go'[q][m] \in {"exited", go[q][m]}
  BY <1>1, <1>2, SetPCEffect DEF GoPC
<1>a. done' \in [Runs -> Seq(Nodes)]
  BY <1>1, SendType DEF SendDone, SendErr
<1>b. err' \in [Runs -> 0..1]
  <2>1. err' = err \/ \E c : err' = [err EXCEPT ![c] = 1]
    BY DEF SendDone, SendErr
  <2> QED
    BY <1>1, <2>1
<1>4. done' \in [Runs -> Seq(Nodes)] /\ err' \in [Runs -> 0..1]
  BY <1>a, <1>b
<1>5. TypeOK'
  BY <1>3, <1>4 DEF TypeInv, TypeOK, SendDone, SendErr, ctlVars
<1>6. Positions'
  BY <1>3 DEF TypeInv, Positions, SendDone, SendErr, ctlVars
<1> QED
  BY <1>5, <1>6 DEF TypeInv

(* Positions' for a step of the control goroutine that leaves the other    *)
(* goroutines alone, or starts one.                                        *)
LEMMA ControlPositions ==
    ASSUME TypeInv, NEW r \in Runs, UNCHANGED <<graph, pos>>,
           \A q \in Runs, m \in Nodes : go'[q][m] \in {"spawned", go[q][m]},
           \A q \in Runs \ {r} : /\ ctl'[q] = ctl[q] /\ cpos'[q] = cpos[q]
                                 /\ cnode'[q] = cnode[q],
           ctl'[r] \in {"sched", "sendSkip"} => cpos'[r] \in DOMAIN Next_(cnode'[r])
    PROVE  Positions'
BY DEF TypeInv, Positions

(* Receiving a node starts the loop over node.Next at its first element.   *)
LEMMA TypeReceive ==
    ASSUME TypeInv, NEW r \in Runs, Receive(r)
    PROVE  TypeInv'
<1>1. /\ done \in [Runs -> Seq(Nodes)] /\ done[r] # <<>>
      /\ cnode \in [Runs -> Nodes] /\ cpos \in [Runs -> Nat]
      /\ cchan \in [Runs -> 0..MaxRuns] /\ ctl \in [Runs -> CtlPC]
      /\ gs \in 0..MaxRuns
  BY DEF TypeInv, TypeOK, Receive
<1>2. Head(done[r]) \in Nodes /\ Tail(done[r]) \in Seq(Nodes)
  BY <1>1
<1>3. Next_(Head(done[r])) \in Seq(Nodes)
  BY <1>2, GraphShape DEF TypeInv
<1>4. done' \in [Runs -> Seq(Nodes)]
  <2>1. done' = [done EXCEPT ![r] = Tail(done[r])]
    BY DEF Receive
  <2> QED
    BY <1>1, <1>2, <2>1
<1>5. /\ cnode' \in [Runs -> Nodes] /\ cnode'[r] = Head(done[r])
      /\ \A q \in Runs \ {r} : cnode'[q] = cnode[q]
  BY <1>1, <1>2 DEF Receive
<1>6. /\ cpos' \in [Runs -> Nat] /\ cpos'[r] = 1
      /\ \A q \in Runs \ {r} : cpos'[q] = cpos[q]
  BY <1>1 DEF Receive
<1>7. cchan' \in [Runs -> 0..MaxRuns]
  BY <1>1 DEF Receive
<1>8. PICK pc \in {"sendFinished", "recv", "sched"} :
         /\ ctl' = [ctl EXCEPT ![r] = pc]
         /\ pc = "sched" => Next_(Head(done[r])) # <<>>
  BY DEF Receive
<1>9. /\ ctl' \in [Runs -> CtlPC] /\ ctl'[r] = pc
      /\ \A q \in Runs \ {r} : ctl'[q] = ctl[q]
  BY <1>1, <1>8 DEF CtlPC
<1>10. pc = "sched" => 1 \in DOMAIN Next_(Head(done[r]))
  BY <1>3, <1>8
<1>11. TypeOK'
  BY <1>4, <1>5, <1>6, <1>7, <1>9 DEF TypeInv, TypeOK, Receive, goVars
<1>12. Positions'
  <2>1. UNCHANGED <<graph, pos, go>>
    BY DEF Receive, goVars
  <2> QED
    BY <1>5, <1>6, <1>8, <1>9, <1>10, <2>1, ControlPositions
<1> QED
  BY <1>11, <1>12 DEF TypeInv

(* The control goroutine signals at most once on finished and on err.      *)
LEMMA TypeSendSignal ==
    ASSUME TypeInv, NEW r \in Runs, SendFinished(r) \/ SendScheduleErr(r)
    PROVE  TypeInv'
<1>1. /\ finished \in [Runs -> 0..1] /\ err \in [Runs -> 0..1]
      /\ ctl \in [Runs -> CtlPC]
  BY DEF TypeInv, TypeOK
<1>2. finished' = finished \/ \E c : finished' = [finished EXCEPT ![c] = 1]
  BY DEF SendFinished, SendScheduleErr
<1>3. err' = err \/ \E c : err' = [err EXCEPT ![c] = 1]
  BY DEF SendFinished, SendScheduleErr
<1>4. finished' \in [Runs -> 0..1]
  BY <1>1, <1>2
<1>5. err' \in [Runs -> 0..1]
  BY <1>1, <1>3
<1>6. ctl' = [ctl EXCEPT ![r] = "exited"]
  BY DEF SendFinished, SendScheduleErr
<1>7. /\ ctl' \in [Runs -> CtlPC] /\ ctl'[r] = "exited"
      /\ \A q \in Runs \ {r} : ctl'[q] = ctl[q]
  BY <1>1, <1>6 DEF CtlPC
<1>8. UNCHANGED <<graph, state, gs, done, result, goVars, cnode, cpos, cchan, clean>>
  BY DEF SendFinished, SendScheduleErr
<1>9. TypeOK'
  BY <1>4, <1>5, <1>7, <1>8 DEF TypeInv, TypeOK, goVars
<1>10. Positions'
  BY <1>7, <1>8, ControlPositions DEF goVars
<1> QED
  BY <1>9, <1>10 DEF TypeInv

(* The loop over node.Next.                                                *)
LEMMA AdvanceEffect ==
    ASSUME TypeInv, NEW r \in Runs, ctl[r] \in {"sched", "sendSkip"}, Advance(r)
    PROVE  /\ cpos' \in [Runs -> Nat] /\ ctl' \in [Runs -> CtlPC]
           /\ ctl'[r] \in {"sched", "recv"}
           /\ \A q \in Runs \ {r} : ctl'[q] = ctl[q] /\ cpos'[q] = cpos[q]
           /\ ctl'[r] = "sched" => cpos'[r] \in DOMAIN Next_(cnode[r])
<1>1. /\ cpos \in [Runs -> Nat] /\ ctl \in [Runs -> CtlPC]
      /\ cnode[r] \in Nodes
  BY DEF TypeInv, TypeOK
<1>2. /\ cpos[r] \in DOMAIN Next_(cnode[r])
      /\ Next_(cnode[r]) \in Seq(Nodes)
  BY <1>1, GraphShape DEF TypeInv, Positions
<1>3. cpos[r] + 1 \in Nat /\ cpos' = [cpos EXCEPT ![r] = cpos[r] + 1]
  BY <1>1 DEF Advance
<1>4. /\ cpos' \in [Runs -> Nat] /\ cpos'[r] = cpos[r] + 1
      /\ \A q \in Runs \ {r} : cpos'[q] = cpos[q]
  BY <1>1, <1>3
<1>5. PICK pc \in {"sched", "recv"} :
         /\ ctl' = [ctl EXCEPT ![r] = pc]
         /\ pc = "sched" => cpos[r] < Len(Next_(cnode[r]))
  BY DEF Advance
<1>6. /\ ctl' \in [Runs -> CtlPC] /\ ctl'[r] = pc
      /\ \A q \in Runs \ {r} : ctl'[q] = ctl[q]
  BY <1>1, <1>5 DEF CtlPC
<1>7. pc = "sched" => cpos[r] + 1 \in DOMAIN Next_(cnode[r])
  BY <1>1, <1>2, <1>5
<1> QED
  BY <1>4, <1>6, <1>7

(* The successor being scheduled is a node.                                *)
LEMMA SuccessorType ==
    ASSUME TypeInv, NEW r \in Runs, ctl[r] \in {"sched", "sendSkip"}
    PROVE  Successor(r) \in Nodes
<1>1. cnode[r] \in Nodes /\ cpos[r] \in DOMAIN Next_(cnode[r])
  BY DEF TypeInv, TypeOK, Positions
<1> QED
  BY <1>1, GraphShape DEF TypeInv, Successor

(* scheduleNode keeps types, whatever it decides.                          *)
LEMMA TypeSchedule ==
    ASSUME TypeInv, NEW r \in Runs,
           ScheduleNothing(r) \/ ScheduleRun(r) \/ SendSkipped(r)
    PROVE  TypeInv'
<1>1. ctl[r] \in {"sched", "sendSkip"} /\ Advance(r)
  BY DEF ScheduleNothing, ScheduleRun, SendSkipped
<1>2. /\ go \in [Runs -> [Nodes -> GoPC]] /\ done \in [Runs -> Seq(Nodes)]
      /\ state \in [Nodes -> States]
  BY DEF TypeInv, TypeOK
<1>3. Successor(r) \in Nodes
  BY <1>1, SuccessorType
<1>4. done' \in [Runs -> Seq(Nodes)]
  BY <1>2, <1>3, SendType DEF ScheduleNothing, ScheduleRun, SendSkipped, chanVars
<1>5. state' \in [Nodes -> States]
  BY <1>2 DEF ScheduleNothing, ScheduleRun, SendSkipped, States
<1>6. go' = go \/ \E x \in Nodes : SetPC(gs, x, "spawned")
  BY <1>3 DEF ScheduleNothing, ScheduleRun, SendSkipped, goVars
<1>7. /\ go' \in [Runs -> [Nodes -> GoPC]]
      /\ \A q \in Runs, m \in Nodes : go'[q][m] \in {"spawned", go[q][m]}
  <2>1. CASE go' = go
    BY <1>2, <2>1
  <2>2. CASE gs \notin Runs /\ \E x \in Nodes : SetPC(gs, x, "spawned")
    <3>1. go' = go
      BY <1>2, <2>2 DEF SetPC
    <3> QED
      BY <1>2, <3>1
  <2>3. CASE gs \in Runs /\ \E x \in Nodes : SetPC(gs, x, "spawned")
    <3>1. PICK x \in Nodes : SetPC(gs, x, "spawned")
      BY <2>3
    <3>2. "spawned" \in GoPC
      BY DEF GoPC
    <3>3. /\ go' \in [Runs -> [Nodes -> GoPC]]
          /\ go'[gs][x] = "spawned"
          /\ \A q \in Runs, m \in Nodes : q # gs \/ m # x => go'[q][m] = go[q][m]
      BY <1>2, <2>3, <3>1, <3>2, SetPCEffect
    <3> QED
      BY <3>3
  <2> QED
    BY <1>6, <2>1, <2>2, <2>3
<1>8. UNCHANGED <<graph, gs, finished, err, result, bound, tags, pos, cnode, cchan, clean>>
  BY DEF ScheduleNothing, ScheduleRun, SendSkipped, chanVars, goVars
<1>9. TypeOK'
  BY <1>1, <1>4, <1>5, <1>7, <1>8, AdvanceEffect DEF TypeInv, TypeOK
<1>10. Positions'
  BY <1>1, <1>7, <1>8, AdvanceEffect, ControlPositions
<1> QED
  BY <1>9, <1>10 DEF TypeInv

(* Sending a skipped node to done keeps types.                             *)
LEMMA TypeScheduleSend ==
    ASSUME TypeInv, NEW r \in Runs, ScheduleError(r) \/ ScheduleSkip(r)
    PROVE  TypeInv'
<1>1. /\ state \in [Nodes -> States] /\ ctl \in [Runs -> CtlPC]
      /\ cchan \in [Runs -> 0..MaxRuns] /\ gs \in 0..MaxRuns
      /\ ctl[r] = "sched"
  BY DEF TypeInv, TypeOK, ScheduleError, ScheduleSkip
<1>2. state' \in [Nodes -> States]
  BY <1>1 DEF ScheduleError, ScheduleSkip, States
<1>3. cchan' \in [Runs -> 0..MaxRuns]
  BY <1>1 DEF ScheduleError, ScheduleSkip
<1>4. PICK pc \in {"sendErr", "sendSkip"} : ctl' = [ctl EXCEPT ![r] = pc]
  BY DEF ScheduleError, ScheduleSkip
<1>5. ctl' \in [Runs -> CtlPC] /\ \A q \in Runs \ {r} : ctl'[q] = ctl[q]
  BY <1>1, <1>4 DEF CtlPC
<1>6. UNCHANGED <<graph, gs, chanVars, result, goVars, cnode, cpos, clean>>
  BY DEF ScheduleError, ScheduleSkip
<1>7. TypeOK'
  BY <1>2, <1>3, <1>5, <1>6 DEF TypeInv, TypeOK, chanVars, goVars
<1>8. cpos[r] \in DOMAIN Next_(cnode[r])
  BY <1>1 DEF TypeInv, Positions
<1>9. Positions'
  BY <1>5, <1>6, <1>8, ControlPositions DEF goVars
<1> QED
  BY <1>7, <1>9 DEF TypeInv

(* Every step keeps types and loop positions.                              *)
LEMMA TypeNext == TypeInv /\ [Next]_vars => TypeInv'
<1> SUFFICES ASSUME TypeInv, [Next]_vars PROVE TypeInv'
  OBVIOUS
<1>1. CASE Run \/ ReturnOk \/ ReturnErr
  BY <1>1, TypeRun, TypeReturn
<1>2. CASE \E r \in Runs : Control(r)
  BY <1>2, TypeReceive, TypeSendSignal, TypeSchedule, TypeScheduleSend DEF Control
<1>3. CASE \E r \in Runs, n \in Nodes : Goroutine(r, n)
  BY <1>3, TypeExecute, TypeFn, TypeCondOk, TypeSetBranch, TypeSendBranch, TypeSend
     DEF Goroutine
<1>4. CASE UNCHANGED vars
  BY <1>4 DEF vars, chanVars, goVars, ctlVars, TypeInv, TypeOK, Positions
<1> QED
  BY <1>1, <1>2, <1>3, <1>4 DEF Next

(* Every variable keeps its type: a state word is never anything but one   *)
(* of the five node states, the finished and err channels never hold more  *)
(* than one message.                                                       *)
THEOREM TypeCorrect == Spec => []TypeOK
<1>1. Init => TypeInv
  BY TypeInit
<1>2. TypeInv /\ [Next]_vars => TypeInv'
  BY TypeNext
<1>3. TypeInv => TypeOK
  BY DEF TypeInv
<1> QED
  BY <1>1, <1>2, <1>3, PTL DEF Spec

-----------------------------------------------------------------------------
(* How the node states evolve within a Run that is alone: a function ends, *)
(* a conditional node settles one of its branches, scheduleNode skips a    *)
(* node or starts one.                                                     *)
Becomes(x, s) == state' = [state EXCEPT ![x] = s]

EndsFn(x) ==
    /\ Kind(x) # "virtual"
    /\ state[x] = "running" \/ (x = Start /\ state[x] = "pending")
    /\ Becomes(x, "finished") \/ Becomes(x, "failed")

SettlesBranch(x) ==
    /\ Kind(x) = "virtual" /\ state[x] = "pending"
    /\ \A p \in Members(Prev_(x)) : state[p] = "finished"
    /\ Becomes(x, "finished") \/ Becomes(x, "skipped")

Skips(x) == AllSkipped(x) /\ state[x] \in {"pending", "skipped"} /\ Becomes(x, "skipped")

Starts(x) ==
    Kind(x) # "virtual" /\ state[x] = "pending" /\ Ready(x) /\ Becomes(x, "running")

Evolves ==
    \/ state' = state
    \/ \E x \in Nodes : EndsFn(x) \/ SettlesBranch(x) \/ Skips(x) \/ Starts(x)

(* The start node has no predecessor, and nothing leads to it.             *)
LEMMA StartShape ==
    ASSUME TypeOK
    PROVE  /\ graph.prev[Start] = <<>> /\ graph.kind[Start] = "normal"
           /\ graph.kind[End] = "normal" /\ Start \in Nodes /\ End \in Nodes
           /\ \A n \in Nodes : Start \notin Members(graph.next[n])
BY SchedulerAssumption DEF TypeOK, IsGraph

(* AddEdge and AddConditionalEdge record both ends of an edge; SetEntry    *)
(* only one.                                                               *)
LEMMA EdgeShape ==
    ASSUME TypeOK, NEW n \in Nodes, NEW m \in Nodes, m \in Members(graph.next[n])
    PROVE  /\ n # Start => n \in Members(graph.prev[m])
           /\ graph.kind[m] = "virtual" <=> graph.kind[n] = "conditional"
BY SchedulerAssumption DEF TypeOK, IsGraph

(* A predecessor has the node among its successors.                        *)
LEMMA BackShape ==
    ASSUME TypeOK, NEW n \in Nodes, NEW m \in Nodes, n \in Members(graph.prev[m])
    PROVE  m \in Members(graph.next[n])
BY SchedulerAssumption DEF TypeOK, IsGraph

(* A virtual node has exactly one predecessor, its conditional node.       *)
LEMMA VirtualShape ==
    ASSUME TypeOK, NEW v \in Nodes, graph.kind[v] = "virtual"
    PROVE  /\ Len(graph.prev[v]) = 1
           /\ graph.prev[v][1] \in Nodes
           /\ \A n \in Members(graph.prev[v]) : n = graph.prev[v][1]
           /\ \A i \in DOMAIN graph.prev[v] : graph.prev[v][i] = graph.prev[v][1]
<1>1. Len(graph.prev[v]) = 1 /\ graph.prev[v] \in Seq(Nodes)
  BY SchedulerAssumption DEF TypeOK, IsGraph
<1>2. DOMAIN graph.prev[v] = {1}
  BY <1>1
<1> QED
  BY <1>1, <1>2 DEF Members

(* A conditional node has each virtual node once.                          *)
LEMMA BranchShape ==
    ASSUME TypeOK, NEW c \in Nodes, graph.kind[c] = "conditional",
           NEW i \in DOMAIN graph.next[c], NEW j \in DOMAIN graph.next[c],
           graph.next[c][i] = graph.next[c][j]
    PROVE  i = j
BY SchedulerAssumption DEF TypeOK, IsGraph

(* Members of a sequence of nodes.                                         *)
LEMMA MembersOf ==
    ASSUME NEW s \in Seq(Nodes)
    PROVE  /\ Members(s) \subseteq Nodes
           /\ \A i \in DOMAIN s : s[i] \in Members(s) /\ s[i] \in Nodes
           /\ \A x \in Members(s) : \E i \in DOMAIN s : x = s[i]
BY DEF Members

(* Within such a Run an outcome is final.                                  *)
LEMMA EvolvesStable ==
    ASSUME TypeOK, Evolves, NEW n \in Nodes, state[n] \in Terminal
    PROVE  state'[n] = state[n]
<1>1. state \in [Nodes -> States]
  BY DEF TypeOK
<1> QED
  BY <1>1 DEF Evolves, EndsFn, SettlesBranch, Skips, Starts, Becomes, Terminal

(* Such a change respects the order of the graph.                          *)
LEMMA EvolvesPrecedence ==
    ASSUME TypeOK, clean, Precedence, Evolves, graph' = graph
    PROVE  Precedence'
<1> SUFFICES ASSUME NEW n \in Nodes, state'[n] # "pending", NEW p \in Members(Prev_(n))
             PROVE  state'[p] \in Settled
  BY DEF Precedence
<1>1. p \in Nodes
  BY GraphShape, MembersOf
<1>2. state[p] \in Settled => state'[p] \in Settled
  BY <1>1, EvolvesStable DEF Settled, Terminal
<1>3. CASE state[n] # "pending"
  BY <1>2, <1>3 DEF Precedence
<1>4. CASE state[n] = "pending"
  <2>1. state \in [Nodes -> States]
    BY DEF TypeOK
  <2>2. PICK x \in Nodes : EndsFn(x) \/ SettlesBranch(x) \/ Skips(x) \/ Starts(x)
    BY <1>4 DEF Evolves
  <2>3. x = n
    BY <1>4, <2>1, <2>2 DEF EndsFn, SettlesBranch, Skips, Starts, Becomes
  <2>4. CASE EndsFn(n)
    BY <1>4, <2>4, StartShape DEF EndsFn, Members
  <2>5. CASE SettlesBranch(n)
    BY <1>2, <2>5 DEF SettlesBranch, Settled
  <2>6. CASE Skips(n) \/ Starts(n)
    <3>1. PICK i \in DOMAIN Prev_(n) : p = Prev_(n)[i]
      BY DEF Members
    <3>2. state[Prev_(n)[i]] \in Settled
      BY <2>6, <3>1 DEF Skips, Starts, AllSkipped, Ready, Settled
    <3> QED
      BY <1>2, <3>1, <3>2
  <2> QED
    BY <2>2, <2>3, <2>4, <2>5, <2>6
<1> QED
  BY <1>3, <1>4

(* Such a change does not finish a branch of a skipped conditional node.   *)
LEMMA EvolvesVirtualSkip ==
    ASSUME TypeOK, clean, Precedence, VirtualSkip, Evolves, graph' = graph
    PROVE  VirtualSkip'
<1> SUFFICES ASSUME NEW c \in Nodes, NEW v \in Nodes, Kind(v) = "virtual",
                    c \in Members(Prev_(v)), state'[c] = "skipped"
             PROVE  state'[v] \in {"pending", "skipped"}
  BY DEF VirtualSkip
<1>1. state \in [Nodes -> States]
  BY DEF TypeOK
<1>2. state[v] \in {"pending", "skipped"}
  <2>1. CASE state[c] = "skipped"
    BY <2>1 DEF VirtualSkip
  <2>2. CASE state[c] # "skipped"
    <3>1. state[c] \notin Terminal
      BY <2>2, EvolvesStable
    <3> QED
      BY <3>1, <1>1 DEF Precedence, Settled, Terminal
  <2> QED
    BY <2>1, <2>2
<1>3. CASE state'[v] = state[v]
  BY <1>2, <1>3
<1>4. CASE state'[v] # state[v]
  <2>1. PICK x \in Nodes : EndsFn(x) \/ SettlesBranch(x) \/ Skips(x) \/ Starts(x)
    BY <1>4 DEF Evolves
  <2>2. x = v
    BY <1>1, <1>4, <2>1 DEF EndsFn, SettlesBranch, Skips, Starts, Becomes
  <2>3. CASE SettlesBranch(v)
    <3>1. state[c] = "finished"
      BY <2>3 DEF SettlesBranch
    <3> QED
      BY <3>1, EvolvesStable DEF Terminal
  <2>4. CASE Skips(v)
    BY <1>1, <2>4 DEF Skips, Becomes
  <2> QED
    BY <2>1, <2>2, <2>3, <2>4 DEF EndsFn, Starts
<1> QED
  BY <1>3, <1>4

(* Such a change skips only what all predecessors skip.                    *)
LEMMA EvolvesSkipSound ==
    ASSUME TypeOK, clean, Precedence, SkipSound, Evolves, graph' = graph
    PROVE  SkipSound'
<1> SUFFICES ASSUME NEW n \in Nodes, Kind(n) # "virtual"
             PROVE  /\ state'[n] = "skipped" =>
                          /\ Prev_(n) # <<>>
                          /\ \A p \in Members(Prev_(n)) : state'[p] = "skipped"
                    /\ (state'[n] \in {"running", "finished", "failed"} /\ Prev_(n) # <<>>)
                          => \E p \in Members(Prev_(n)) : state'[p] = "finished"
  BY DEF SkipSound
<1>1. state \in [Nodes -> States]
  BY DEF TypeOK
<1>2. \A p \in Members(Prev_(n)) :
         /\ p \in Nodes
         /\ state[p] = "skipped" => state'[p] = "skipped"
         /\ state[p] = "finished" => state'[p] = "finished"
  BY GraphShape, MembersOf, EvolvesStable DEF Terminal
<1>3. CASE state'[n] = state[n]
  BY <1>2, <1>3 DEF SkipSound
<1>4. CASE state'[n] # state[n]
  <2>1. PICK x \in Nodes : EndsFn(x) \/ SettlesBranch(x) \/ Skips(x) \/ Starts(x)
    BY <1>4 DEF Evolves
  <2>2. x = n
    BY <1>1, <1>4, <2>1 DEF EndsFn, SettlesBranch, Skips, Starts, Becomes
  <2>3. CASE EndsFn(n)
    <3>1. state'[n] \in {"finished", "failed"}
      BY <1>1, <2>3 DEF EndsFn, Becomes
    <3>2. state[n] = "running" \/ Prev_(n) = <<>>
      BY <2>3, StartShape DEF EndsFn
    <3> QED
      BY <1>2, <3>1, <3>2 DEF SkipSound
  <2>4. CASE Skips(n)
    <3>1. state'[n] = "skipped"
      BY <1>1, <2>4 DEF Skips, Becomes
    <3>2. Prev_(n) # <<>> /\ \A p \in Members(Prev_(n)) : state[p] = "skipped"
      BY <2>4 DEF Skips, AllSkipped, Members
    <3> QED
      BY <1>2, <3>1, <3>2
  <2>5. CASE Starts(n)
    <3>1. state'[n] = "running"
      BY <1>1, <2>5 DEF Starts, Becomes
    <3>2. Prev_(n) # <<>> => \E i \in DOMAIN Prev_(n) : state[Prev_(n)[i]] = "finished"
      BY <2>5 DEF Starts, Ready, AllSkipped, Settled
    <3> QED
      BY <1>2, <3>1, <3>2 DEF Members
  <2> QED
    BY <2>1, <2>2, <2>3, <2>4, <2>5 DEF SettlesBranch
<1> QED
  BY <1>3, <1>4

-----------------------------------------------------------------------------
(* The steps of the current Run preserve the inductive invariant.          *)

(* Only the current Run has goroutines that are able to act, except for    *)
(* those about to report an error.                                         *)
LEMMA Current ==
    ASSUME Inductive, clean, NEW r \in Runs
    PROVE  /\ \A n \in Nodes : go[r][n] \in {"spawned", "fn", "set", "sendBranch", "send"}
                 => r = gs /\ gs > 0
           /\ ctl[r] \in {"sched", "sendSkip"} => r = gs /\ gs > 0
           /\ ctl[r] = "recv" /\ done[r] # <<>> => r = gs /\ gs > 0
           /\ ctl[r] # "none" => r <= gs /\ gs > 0
           /\ \A n \in Nodes : go[r][n] # "none" => r <= gs /\ gs > 0
<1>1. gs \in 0..MaxRuns /\ r \in 1..MaxRuns /\ MaxRuns \in Nat
  BY SchedulerAssumption DEF Inductive, TypeOK, Runs
<1>2. r < gs => Quiet(r)
  BY DEF Inductive, Undisturbed
<1>3. r > gs => ctl[r] = "none" /\ \A n \in Nodes : go[r][n] = "none"
  BY DEF Inductive, Undisturbed
<1>4. r < gs \/ r > gs \/ (r = gs /\ gs > 0)
  BY <1>1
<1> QED
  BY <1>1, <1>2, <1>3, <1>4 DEF Quiet

(* What a step has to leave alone outside the current Run.                 *)
OthersKept ==
    /\ \A q \in Runs : q # gs =>
          /\ \A m \in Nodes : \/ go'[q][m] = go[q][m]
                              \/ go[q][m] = "sendErr" /\ go'[q][m] = "exited"
          /\ \/ ctl'[q] = ctl[q]
             \/ ctl[q] \in {"sendFinished", "sendErr"} /\ ctl'[q] = "exited"
          /\ done'[q] = done[q]
    /\ \A q \in Runs : q > gs =>
          finished'[q] = finished[q] /\ err'[q] = err[q] /\ result'[q] = result[q]

BoundKept == \A q \in Runs, m \in Nodes :
    go'[q][m] \in {"fn", "set", "sendBranch", "send", "sendErr"} => bound'[q][m] = q

ChanKept == \A q \in Runs :
    ctl'[q] \in {"sched", "sendSkip", "sendFinished", "sendErr"} => cchan'[q] = q

(* A step of the current Run that touches only its own goroutines and      *)
(* channels leaves the other Runs as they are.                             *)
LEMMA UndisturbedStep ==
    ASSUME Inductive, clean, gs > 0, gs' = gs, OthersKept, BoundKept, ChanKept
    PROVE  Undisturbed'
<1>1. gs \in 0..MaxRuns /\ Runs \subseteq Nat
  BY SchedulerAssumption DEF Inductive, TypeOK, Runs
<1>2. ASSUME NEW r \in Runs, r < gs PROVE Quiet(r)'
  <2>1. Quiet(r) /\ r # gs
    BY <1>1, <1>2 DEF Inductive, Undisturbed
  <2>2. \A n \in Nodes : go'[r][n] \in {"none", "sendErr", "exited"}
    BY <2>1 DEF Quiet, OthersKept
  <2>3. \/ ctl'[r] \in {"none", "sendFinished", "sendErr", "exited"}
        \/ ctl'[r] = "recv" /\ done'[r] = <<>>
    BY <2>1 DEF Quiet, OthersKept
  <2> QED
    BY <2>2, <2>3 DEF Quiet
<1>3. ASSUME NEW r \in Runs, r > gs
      PROVE  /\ \A n \in Nodes : go'[r][n] = "none"
             /\ ctl'[r] = "none" /\ done'[r] = <<>> /\ finished'[r] = 0 /\ err'[r] = 0
             /\ result'[r] = "none"
  <2>1. r # gs
    BY <1>1, <1>3
  <2> QED
    BY <1>3, <2>1 DEF Inductive, Undisturbed, OthersKept
<1>4. gs' # 0
  BY <1>1
<1> QED
  BY <1>2, <1>3, <1>4 DEF Undisturbed, BoundKept, ChanKept

(* A goroutine of the current Run works on the current GraphState.         *)
LEMMA CurrentBound ==
    ASSUME Inductive, clean
    PROVE  /\ \A q \in Runs, m \in Nodes :
                 go[q][m] \in {"fn", "set", "sendBranch", "send", "sendErr"} => bound[q][m] = q
           /\ \A q \in Runs :
                 ctl[q] \in {"sched", "sendSkip", "sendFinished", "sendErr"} => cchan[q] = q
BY DEF Inductive, Undisturbed

(* The start of a goroutine keeps the invariant.                           *)
LEMMA InductiveExecute ==
    ASSUME Inductive, clean, NEW r \in Runs, NEW n \in Nodes, Execute(r, n)
    PROVE  Inductive' /\ Evolves
<1>1. r = gs /\ gs > 0 /\ gs \in Runs
  BY Current DEF Execute
<1>2. PICK pc \in {"fn", "exited"} :
         SetPC(r, n, pc) /\ (pc = "fn" => Kind(n) # "virtual")
  BY DEF Execute
<1>3. /\ go'[gs][n] = pc
      /\ \A q \in Runs, m \in Nodes : q # gs \/ m # n => go'[q][m] = go[q][m]
  <2>1. go \in [Runs -> [Nodes -> GoPC]] /\ pc \in GoPC
    BY DEF Inductive, TypeOK, GoPC
  <2> QED
    BY <1>1, <1>2, <2>1, SetPCEffect
<1>4. /\ bound'[gs][n] = gs
      /\ \A q \in Runs, m \in Nodes : q # gs \/ m # n => bound'[q][m] = bound[q][m]
  <2>1. bound \in [Runs -> [Nodes -> 0..MaxRuns]]
    BY DEF Inductive, TypeOK
  <2> QED
    BY <1>1, <2>1 DEF Execute
<1>5. UNCHANGED <<graph, state, gs, chanVars, result, tags, pos, ctlVars, clean>>
  BY DEF Execute
<1>6. TypeInv'
  BY TypeExecute DEF Inductive, TypeInv
<1>7. OthersKept
  BY <1>3, <1>5 DEF OthersKept, chanVars, ctlVars
<1>8. BoundKept
  BY <1>1, <1>3, <1>4, CurrentBound DEF BoundKept
<1>9. ChanKept
  BY <1>5, CurrentBound DEF ChanKept, ctlVars
<1>10. Undisturbed'
  BY <1>1, <1>5, <1>7, <1>8, <1>9, UndisturbedStep
<1>11. go[gs][n] = "spawned"
  BY <1>1 DEF Execute
<1>12. GoroutineSound'
  BY <1>1, <1>2, <1>3, <1>5, <1>11 DEF Inductive, GoroutineSound
<1>13. BranchSound'
  BY <1>1, <1>2, <1>3, <1>5, <1>11 DEF Inductive, BranchSound
<1>14. QueueSound' /\ OutcomeSound'
  BY <1>1, <1>5 DEF Inductive, QueueSound, Delivered, Successor, OutcomeSound, chanVars, ctlVars
<1>15. Precedence' /\ SkipSound' /\ VirtualSkip'
  BY <1>5 DEF Inductive, Precedence, SkipSound, VirtualSkip
<1>16. Evolves
  BY <1>5 DEF Evolves
<1> QED
  BY <1>6, <1>10, <1>12, <1>13, <1>14, <1>15, <1>16 DEF Inductive, TypeInv

(* What remains to show of a step that changes node states as Evolves says. *)
LEMMA InductiveEvolves ==
    ASSUME Inductive, clean, gs > 0, TypeInv', Evolves, UNCHANGED <<graph, gs, clean>>,
           OthersKept, BoundKept, ChanKept,
           GoroutineSound', BranchSound', QueueSound', OutcomeSound'
    PROVE  Inductive'
<1>1. Undisturbed'
  BY UndisturbedStep
<1>2. Precedence' /\ SkipSound' /\ VirtualSkip'
  BY EvolvesPrecedence, EvolvesSkipSound, EvolvesVirtualSkip DEF Inductive
<1> QED
  BY <1>1, <1>2 DEF Inductive, TypeInv

(* Delivered nodes stay delivered, and a failure is not taken back.        *)
LEMMA EvolvesDelivered ==
    ASSUME TypeOK, Evolves, graph' = graph, NEW n \in Nodes, Delivered(n)
    PROVE  Delivered(n)'
<1>1. state[n] \in Terminal
  BY DEF Delivered, Settled, Terminal
<1> QED
  BY <1>1, EvolvesStable DEF Delivered

(* What is in the done channel stays settled when states evolve.           *)
LEMMA EvolvesQueue ==
    ASSUME Inductive, clean, gs > 0, gs \in Runs, Evolves,
           UNCHANGED <<graph, gs, clean, done, ctl, cnode, cpos>>
    PROVE  QueueSound'
<1>1. /\ done[gs] \in Seq(Nodes) /\ cnode[gs] \in Nodes /\ TypeOK
      /\ state \in [Nodes -> States]
  BY DEF Inductive, TypeOK
<1>2. \A i \in DOMAIN done[gs] : done[gs][i] \in Nodes
  BY <1>1
<1>3. \A i \in DOMAIN done[gs] : Delivered(done[gs][i])'
  <2> SUFFICES ASSUME NEW i \in DOMAIN done[gs], NEW x \in Nodes, x = done[gs][i],
                      Delivered(x)
               PROVE  Delivered(x)'
    BY <1>2 DEF Inductive, QueueSound, Delivered
  <2> QED
    BY <1>1, EvolvesDelivered
<1>4. ctl[gs] \in {"sched", "sendSkip", "sendFinished"} => Delivered(cnode[gs])'
  <2> SUFFICES ASSUME NEW x \in Nodes, x = cnode[gs], Delivered(x)
               PROVE  Delivered(x)'
    BY <1>1 DEF Inductive, QueueSound, Delivered
  <2> QED
    BY <1>1, EvolvesDelivered
<1>5. ctl[gs] = "sendSkip" => state'[Successor(gs)] = "skipped"
  <2> SUFFICES ASSUME ctl[gs] = "sendSkip" PROVE state'[Successor(gs)] = "skipped"
    OBVIOUS
  <2>1. Successor(gs) \in Nodes
    BY SuccessorType DEF Inductive, TypeInv
  <2>2. state[Successor(gs)] = "skipped"
    BY DEF Inductive, QueueSound
  <2> QED
    BY <1>1, <2>1, <2>2, EvolvesStable DEF Terminal
<1> QED
  BY <1>3, <1>4, <1>5 DEF Inductive, QueueSound, Delivered, Successor

(* A pending result stays justified when states evolve.                    *)
LEMMA EvolvesOutcome ==
    ASSUME Inductive, clean, gs > 0, Evolves, gs \in Runs,
           UNCHANGED <<graph, gs, clean, finished, err, result, ctl>>
    PROVE  OutcomeSound'
<1>1. TypeOK /\ state \in [Nodes -> States] /\ End \in Nodes
  BY StartShape DEF Inductive, TypeOK
<1>2. state[End] \in Settled => state'[End] \in Settled
  BY <1>1, EvolvesStable DEF Settled, Terminal
<1>3. (\E n \in Nodes : state[n] = "failed") => \E n \in Nodes : state'[n] = "failed"
  BY <1>1, EvolvesStable DEF Terminal
<1> QED
  BY <1>2, <1>3 DEF Inductive, OutcomeSound

(* The return of a node function keeps the invariant.                      *)
LEMMA InductiveFn ==
    ASSUME Inductive, clean, NEW r \in Runs, NEW n \in Nodes, FnOk(r, n) \/ FnFail(r, n)
    PROVE  Inductive' /\ Evolves
<1>1. r = gs /\ gs > 0 /\ gs \in Runs
  BY Current DEF FnOk, FnFail
<1>2. PICK pc \in {"send", "sendErr"} :
         /\ SetPC(gs, n, pc)
         /\ pc = "send" => Kind(n) = "normal" /\ Becomes(n, "finished")
         /\ pc = "sendErr" => Becomes(n, "failed")
  BY <1>1 DEF FnOk, FnFail, Becomes
<1>3. /\ go'[gs][n] = pc
      /\ \A q \in Runs, m \in Nodes : q # gs \/ m # n => go'[q][m] = go[q][m]
  <2>1. go \in [Runs -> [Nodes -> GoPC]] /\ pc \in GoPC
    BY DEF Inductive, TypeOK, GoPC
  <2> QED
    BY <1>1, <1>2, <2>1, SetPCEffect
<1>4. UNCHANGED <<graph, gs, done, finished, err, result, bound, pos, ctl, cnode, cpos, cchan, clean>>
  BY DEF FnOk, FnFail, chanVars, ctlVars
<1>5. TypeInv'
  BY TypeFn DEF Inductive, TypeInv
<1>6. go[gs][n] = "fn" /\ state \in [Nodes -> States] /\ TypeOK
  BY <1>1 DEF FnOk, FnFail, Inductive, TypeOK
<1>7. EndsFn(n)
  BY <1>1, <1>2, <1>6 DEF EndsFn, Inductive, GoroutineSound
<1>8. Evolves
  BY <1>7 DEF Evolves
<1>9. OthersKept
  BY <1>3, <1>4 DEF OthersKept
<1>10. BoundKept
  BY <1>1, <1>3, <1>4, <1>6, CurrentBound DEF BoundKept
<1>11. ChanKept
  BY <1>4, CurrentBound DEF ChanKept
<1>12. /\ pc = "send" => state'[n] = "finished" /\ Kind(n) = "normal"
       /\ pc = "sendErr" => state'[n] = "failed"
       /\ \A m \in Nodes : m # n => state'[m] = state[m]
  BY <1>2, <1>6 DEF Becomes
<1>13. GoroutineSound'
  BY <1>1, <1>3, <1>4, <1>12 DEF Inductive, GoroutineSound
<1>14. BranchSound'
  <2> SUFFICES ASSUME NEW m \in Nodes, go[gs][m] \in {"set", "sendBranch"}
               PROVE  \A j \in DOMAIN Next_(m) : state'[Next_(m)[j]] = state[Next_(m)[j]]
    BY <1>1, <1>3, <1>4 DEF Inductive, BranchSound, Positions
  <2> TAKE j \in DOMAIN Next_(m)
  <2>1. Kind(m) = "conditional"
    BY <1>1 DEF Inductive, GoroutineSound
  <2>2. Next_(m)[j] \in Nodes /\ Next_(m)[j] \in Members(Next_(m))
    BY <1>6, GraphShape, MembersOf
  <2>3. Kind(Next_(m)[j]) = "virtual"
    BY <1>6, <2>1, <2>2, EdgeShape
  <2> QED
    BY <1>7, <1>12, <2>2, <2>3 DEF EndsFn
<1>15. QueueSound' /\ OutcomeSound'
  BY <1>1, <1>4, <1>8, EvolvesQueue, EvolvesOutcome
<1> QED
  BY <1>1, <1>4, <1>5, <1>8, <1>9, <1>10, <1>11, <1>13, <1>14, <1>15, InductiveEvolves

(* The return of a condition keeps the invariant: all branches are         *)
(* pending.                                                                *)
LEMMA InductiveCondOk ==
    ASSUME Inductive, clean, NEW r \in Runs, NEW n \in Nodes, CondOk(r, n)
    PROVE  Inductive' /\ Evolves
<1>1. r = gs /\ gs > 0 /\ gs \in Runs
  BY Current DEF CondOk
<1>2. PICK pc \in {"exited", "set"} : SetPC(gs, n, pc)
  BY <1>1 DEF CondOk
<1>3. /\ go'[gs][n] = pc
      /\ \A q \in Runs, m \in Nodes : q # gs \/ m # n => go'[q][m] = go[q][m]
  <2>1. go \in [Runs -> [Nodes -> GoPC]] /\ pc \in GoPC
    BY DEF Inductive, TypeOK, GoPC
  <2> QED
    BY <1>1, <1>2, <2>1, SetPCEffect
<1>4. UNCHANGED <<graph, gs, done, finished, err, result, bound, ctl, cnode, cpos, cchan, clean>>
  BY DEF CondOk, chanVars, ctlVars
<1>5. TypeInv'
  BY TypeCondOk DEF Inductive, TypeInv
<1>6. /\ go[gs][n] = "fn" /\ state \in [Nodes -> States] /\ TypeOK
      /\ Kind(n) = "conditional" /\ Becomes(n, "finished")
  BY <1>1 DEF CondOk, Inductive, TypeOK, Becomes
<1>7. EndsFn(n)
  BY <1>1, <1>6 DEF EndsFn, Inductive, GoroutineSound
<1>8. Evolves
  BY <1>7 DEF Evolves
<1>9. OthersKept
  BY <1>3, <1>4 DEF OthersKept
<1>10. BoundKept
  BY <1>1, <1>3, <1>4, <1>6, CurrentBound DEF BoundKept
<1>11. ChanKept
  BY <1>4, CurrentBound DEF ChanKept
<1>12. state'[n] = "finished" /\ \A m \in Nodes : m # n => state'[m] = state[m]
  BY <1>6 DEF Becomes
<1>13. GoroutineSound'
  BY <1>1, <1>3, <1>4, <1>6, <1>12 DEF Inductive, GoroutineSound
<1>14. \A m \in Nodes : m # n => pos'[gs][m] = pos[gs][m]
  <2>1. pos \in [Runs -> [Nodes -> Nat]]
    BY DEF Inductive, TypeOK
  <2> QED
    BY <1>1, <2>1 DEF CondOk
<1>15. ASSUME NEW m \in Nodes, Kind(m) = "conditional", NEW j \in DOMAIN Next_(m)
       PROVE  /\ Next_(m)[j] \in Nodes /\ Next_(m)[j] \in Members(Next_(m))
              /\ state'[Next_(m)[j]] = state[Next_(m)[j]]
  <2>1. Next_(m)[j] \in Nodes /\ Next_(m)[j] \in Members(Next_(m))
    BY <1>6, GraphShape, MembersOf
  <2>2. Kind(Next_(m)[j]) = "virtual"
    BY <1>6, <1>15, <2>1, EdgeShape
  <2> QED
    BY <1>6, <1>12, <2>1, <2>2
<1>16. \A j \in DOMAIN Next_(n) : state'[Next_(n)[j]] = "pending"
  <2> TAKE j \in DOMAIN Next_(n)
  <2>1. n # Start /\ state[n] = "running"
    BY <1>6, <1>7, StartShape DEF EndsFn
  <2>2. n \in Members(Prev_(Next_(n)[j]))
    BY <1>6, <1>15, <2>1, EdgeShape
  <2>3. state[Next_(n)[j]] = "pending"
    BY <1>6, <1>15, <2>1, <2>2 DEF Inductive, Precedence, Settled
  <2> QED
    BY <1>6, <1>15, <2>3
<1>17. BranchSound'
  <2>1. ASSUME NEW m \in Nodes, m # n, go[gs][m] \in {"set", "sendBranch"}
        PROVE  /\ \A j \in DOMAIN Next_(m) : state'[Next_(m)[j]] = state[Next_(m)[j]]
               /\ pos[gs][m] \in DOMAIN Next_(m)
    BY <1>1, <1>15, <2>1 DEF Inductive, GoroutineSound, Positions
  <2> QED
    BY <1>1, <1>3, <1>4, <1>14, <1>16, <2>1 DEF Inductive, BranchSound
<1>18. QueueSound' /\ OutcomeSound'
  BY <1>1, <1>4, <1>8, EvolvesQueue, EvolvesOutcome
<1> QED
  BY <1>1, <1>4, <1>5, <1>8, <1>9, <1>10, <1>11, <1>13, <1>17, <1>18, InductiveEvolves

(* Settling a branch keeps the invariant.                                  *)
LEMMA InductiveSetBranch ==
    ASSUME Inductive, clean, NEW r \in Runs, NEW n \in Nodes, SetBranch(r, n)
    PROVE  Inductive' /\ Evolves
<1> DEFINE v == Next_(n)[pos[gs][n]]
<1>1. r = gs /\ gs > 0 /\ gs \in Runs
  BY Current DEF SetBranch
<1>2. /\ go'[gs][n] = "sendBranch"
      /\ \A q \in Runs, m \in Nodes : q # gs \/ m # n => go'[q][m] = go[q][m]
  <2>1. go \in [Runs -> [Nodes -> GoPC]] /\ "sendBranch" \in GoPC
    BY DEF Inductive, TypeOK, GoPC
  <2>2. SetPC(gs, n, "sendBranch")
    BY <1>1 DEF SetBranch
  <2> QED
    BY <1>1, <2>1, <2>2, SetPCEffect
<1>3. UNCHANGED <<graph, gs, done, finished, err, result, bound, pos, ctl, cnode, cpos, cchan, clean>>
  BY DEF SetBranch, chanVars, ctlVars
<1>4. TypeInv'
  BY TypeSetBranch DEF Inductive, TypeInv
<1>5. go[gs][n] = "set" /\ state \in [Nodes -> States] /\ TypeOK
  BY <1>1 DEF SetBranch, Inductive, TypeOK
<1>6. Kind(n) = "conditional" /\ state[n] = "finished" /\ n # Start
  BY <1>1, <1>5, StartShape DEF Inductive, GoroutineSound
<1>7. pos[gs][n] \in DOMAIN Next_(n)
  BY <1>1, <1>5 DEF Inductive, Positions
<1>8. v \in Nodes /\ v \in Members(Next_(n))
  BY <1>5, <1>7, GraphShape, MembersOf
<1>9. Kind(v) = "virtual" /\ n \in Members(Prev_(v))
  BY <1>5, <1>6, <1>8, EdgeShape
<1>10. \A p \in Members(Prev_(v)) : p = n
  BY <1>5, <1>8, <1>9, VirtualShape
<1>11. state[v] = "pending"
  BY <1>1, <1>5, <1>7 DEF Inductive, BranchSound
<1>12. Becomes(v, "finished") \/ Becomes(v, "skipped")
  BY <1>1 DEF SetBranch, Becomes
<1>13. SettlesBranch(v)
  BY <1>6, <1>9, <1>10, <1>11, <1>12 DEF SettlesBranch
<1>14. Evolves
  BY <1>8, <1>13 DEF Evolves
<1>15. OthersKept
  BY <1>2, <1>3 DEF OthersKept
<1>16. BoundKept
  BY <1>1, <1>2, <1>3, <1>5, CurrentBound DEF BoundKept
<1>17. ChanKept
  BY <1>3, CurrentBound DEF ChanKept
<1>18. state'[v] \in Settled /\ \A m \in Nodes : m # v => state'[m] = state[m]
  BY <1>5, <1>8, <1>12 DEF Becomes, Settled
<1>19. GoroutineSound'
  <2>1. go[gs][v] \notin {"spawned", "fn", "send", "set", "sendBranch", "sendErr"}
    BY <1>1, <1>8, <1>9, <1>11 DEF Inductive, GoroutineSound
  <2>2. v # n
    BY <1>6, <1>9
  <2>3. go'[gs][v] = go[gs][v]
    BY <1>1, <1>2, <1>8, <2>2
  <2>4. ASSUME NEW m \in Nodes, m # v, m # n
        PROVE  go'[gs][m] = go[gs][m] /\ state'[m] = state[m]
    BY <1>1, <1>2, <1>18, <2>4
  <2>5. state'[n] = "finished"
    BY <1>6, <1>18, <2>2
  <2>6. \A m \in Nodes : Kind(m)' = Kind(m)
    BY <1>3 DEF Kind
  <2> DEFINE Sound(pc, m, s) ==
         /\ pc \in {"spawned", "fn"} =>
               /\ s = "running" \/ (m = Start /\ s = "pending")
               /\ Kind(m) # "virtual"
         /\ pc = "send" => s = "finished" /\ Kind(m) = "normal"
         /\ pc \in {"set", "sendBranch"} => s = "finished" /\ Kind(m) = "conditional"
         /\ pc = "sendErr" => s = "failed"
  <2>7. \A m \in Nodes : Sound(go[gs][m], m, state[m])
    BY <1>1 DEF Inductive, GoroutineSound
  <2>8. Sound(go'[gs][n], n, state'[n])
    BY <1>2, <1>6, <2>5
  <2>9. Sound(go'[gs][v], v, state'[v])
    BY <2>1, <2>3
  <2>10. ASSUME NEW m \in Nodes, m # v, m # n PROVE Sound(go'[gs][m], m, state'[m])
    BY <2>4, <2>7, <2>10
  <2>11. \A m \in Nodes : Sound(go'[gs][m], m, state'[m])
    <3> HIDE DEF Sound
    <3> QED
      BY <2>8, <2>9, <2>10
  <2> QED
    BY <1>3, <2>6, <2>11 DEF GoroutineSound
<1>20. BranchSound'
  <2>1. ASSUME NEW m \in Nodes, m # n, go[gs][m] \in {"set", "sendBranch"},
               NEW j \in DOMAIN Next_(m)
        PROVE  state'[Next_(m)[j]] = state[Next_(m)[j]]
    <3>1. Kind(m) = "conditional" /\ m # Start
      BY <1>1, <1>5, <2>1, StartShape DEF Inductive, GoroutineSound
    <3>2. Next_(m)[j] \in Nodes /\ Next_(m)[j] \in Members(Next_(m))
      BY <1>5, GraphShape, MembersOf
    <3>3. m \in Members(Prev_(Next_(m)[j]))
      BY <1>5, <3>1, <3>2, EdgeShape
    <3>4. Next_(m)[j] # v
      BY <1>10, <2>1, <3>3
    <3> QED
      BY <1>18, <3>2, <3>4
  <2>2. ASSUME NEW j \in DOMAIN Next_(n), j > pos[gs][n]
        PROVE  state'[Next_(n)[j]] = "pending"
    <3>1. Next_(n)[j] \in Nodes
      BY <1>5, GraphShape, MembersOf
    <3>2. j # pos[gs][n]
      <4>1. pos[gs][n] \in Nat
        BY <1>1 DEF Inductive, TypeOK
      <4> QED
        BY <2>2, <4>1
    <3>3. Next_(n)[j] # v
      BY <1>5, <1>6, <1>7, <3>2, BranchShape
    <3>4. state[Next_(n)[j]] = "pending"
      BY <1>1, <1>5, <2>2 DEF Inductive, BranchSound
    <3> QED
      BY <1>18, <3>1, <3>3, <3>4
  <2>3. ASSUME NEW m \in Nodes, m # n, go[gs][m] \in {"set", "sendBranch"}
        PROVE  pos[gs][m] \in DOMAIN Next_(m)
    BY <1>1, <2>3 DEF Inductive, Positions
  <2> QED
    BY <1>1, <1>2, <1>3, <1>18, <2>1, <2>2, <2>3 DEF Inductive, BranchSound
<1>21. QueueSound' /\ OutcomeSound'
  BY <1>1, <1>3, <1>14, EvolvesQueue, EvolvesOutcome
<1> QED
  BY <1>1, <1>3, <1>4, <1>14, <1>15, <1>16, <1>17, <1>19, <1>20, <1>21, InductiveEvolves

(* Appending a delivered node to the done channel of the current Run.      *)
LEMMA QueueAppend ==
    ASSUME Inductive, clean, gs > 0, gs \in Runs, NEW x \in Nodes, Delivered(x),
           done' = [done EXCEPT ![gs] = Append(@, x)],
           UNCHANGED <<graph, state>>
    PROVE  /\ \A i \in DOMAIN done'[gs] : Delivered(done'[gs][i])
           /\ \A q \in Runs : q # gs => done'[q] = done[q]
<1>1. done \in [Runs -> Seq(Nodes)] /\ \A i \in DOMAIN done[gs] : Delivered(done[gs][i])
  BY DEF Inductive, TypeOK, QueueSound
<1>2. done'[gs] = Append(done[gs], x) /\ \A q \in Runs : q # gs => done'[q] = done[q]
  BY <1>1
<1>3. \A i \in DOMAIN done'[gs] :
         (i \in DOMAIN done[gs] /\ done'[gs][i] = done[gs][i]) \/ done'[gs][i] = x
  BY <1>1, <1>2
<1> QED
  BY <1>1, <1>2, <1>3 DEF Delivered

(* Sending a settled branch to done keeps the invariant.                   *)
LEMMA InductiveSendBranch ==
    ASSUME Inductive, clean, NEW r \in Runs, NEW n \in Nodes, SendBranch(r, n)
    PROVE  Inductive' /\ Evolves
<1> DEFINE v == Next_(n)[pos[gs][n]]
<1>1. r = gs /\ gs > 0 /\ gs \in Runs
  BY Current DEF SendBranch
<1>2. PICK pc \in {"exited", "set"} : SetPC(gs, n, pc)
  BY <1>1 DEF SendBranch
<1>3. /\ go'[gs][n] = pc
      /\ \A q \in Runs, m \in Nodes : q # gs \/ m # n => go'[q][m] = go[q][m]
  <2>1. go \in [Runs -> [Nodes -> GoPC]] /\ pc \in GoPC
    BY DEF Inductive, TypeOK, GoPC
  <2> QED
    BY <1>1, <1>2, <2>1, SetPCEffect
<1>4. UNCHANGED <<graph, state, gs, finished, err, result, bound, ctl, cnode, cpos, cchan, clean>>
  BY DEF SendBranch, ctlVars
<1>5. TypeInv'
  BY TypeSendBranch DEF Inductive, TypeInv
<1>6. go[gs][n] = "sendBranch" /\ TypeOK
  BY <1>1 DEF SendBranch, Inductive
<1>7. Kind(n) = "conditional" /\ pos[gs][n] \in DOMAIN Next_(n) /\ state[v] \in Settled
  BY <1>1, <1>6 DEF Inductive, GoroutineSound, Positions, BranchSound
<1>8. v \in Nodes /\ v \in Members(Next_(n))
  BY <1>6, <1>7, GraphShape, MembersOf
<1>9. Delivered(v)
  BY <1>6, <1>7, <1>8, EdgeShape DEF Delivered
<1>10. done' = [done EXCEPT ![gs] = Append(@, v)]
  <2>1. bound[gs][n] = gs
    BY <1>1, <1>6, CurrentBound
  <2> QED
    BY <1>1, <2>1 DEF SendBranch
<1>11. /\ \A i \in DOMAIN done'[gs] : Delivered(done'[gs][i])
       /\ \A q \in Runs : q # gs => done'[q] = done[q]
  BY <1>1, <1>4, <1>8, <1>9, <1>10, QueueAppend
<1>12. Evolves
  BY <1>4 DEF Evolves
<1>13. OthersKept
  BY <1>3, <1>4, <1>11 DEF OthersKept
<1>14. BoundKept
  BY <1>1, <1>3, <1>4, <1>6, CurrentBound DEF BoundKept
<1>15. ChanKept
  BY <1>4, CurrentBound DEF ChanKept
<1>16. GoroutineSound'
  BY <1>1, <1>2, <1>3, <1>4, <1>6 DEF Inductive, GoroutineSound
<1>17. /\ pos[gs][n] \in Nat /\ pos'[gs][n] = pos[gs][n] + 1
       /\ \A m \in Nodes : m # n => pos'[gs][m] = pos[gs][m]
  <2>1. pos \in [Runs -> [Nodes -> Nat]]
    BY DEF Inductive, TypeOK
  <2>2. pos' = [pos EXCEPT ![gs] = [@ EXCEPT ![n] = pos[gs][n] + 1]]
    BY <1>1 DEF SendBranch
  <2>3. pos[gs][n] + 1 \in Nat
    BY <1>1, <2>1
  <2> QED
    BY <1>1, <2>1, <2>2, <2>3, PosEffect
<1>18. BranchSound'
  <2>1. \A j \in DOMAIN Next_(n) : j >= pos[gs][n] + 1 => state[Next_(n)[j]] = "pending"
    <3> SUFFICES ASSUME NEW j \in DOMAIN Next_(n), j >= pos[gs][n] + 1
                 PROVE  state[Next_(n)[j]] = "pending"
      OBVIOUS
    <3>1. Next_(n) \in Seq(Nodes)
      BY <1>6, GraphShape
    <3>2. j > pos[gs][n]
      BY <1>17, <3>1
    <3> QED
      BY <1>1, <1>6, <3>2 DEF Inductive, BranchSound
  <2>2. \A j \in DOMAIN Next_(n) :
           (j > pos'[gs][n] \/ j = pos'[gs][n]) => state[Next_(n)[j]] = "pending"
    <3>1. \A j \in DOMAIN Next_(n) : j \in Nat
      BY <1>6, GraphShape
    <3> QED
      BY <1>17, <2>1, <3>1
  <2>3. go'[gs][n] # "sendBranch"
    BY <1>2, <1>3
  <2> QED
    BY <1>1, <1>3, <1>4, <1>17, <2>2, <2>3 DEF Inductive, BranchSound
<1>19. QueueSound'
  BY <1>1, <1>4, <1>11 DEF Inductive, QueueSound, Delivered, Successor
<1>20. OutcomeSound'
  BY <1>1, <1>4, <1>12, EvolvesOutcome
<1> QED
  BY <1>1, <1>4, <1>5, <1>12, <1>13, <1>14, <1>15, <1>16, <1>18, <1>19, <1>20, InductiveEvolves

(* Sending a finished node to done keeps the invariant.                    *)
LEMMA InductiveSendDone ==
    ASSUME Inductive, clean, NEW r \in Runs, NEW n \in Nodes, SendDone(r, n)
    PROVE  Inductive' /\ Evolves
<1>1. r = gs /\ gs > 0 /\ gs \in Runs
  BY Current DEF SendDone
<1>2. /\ go'[gs][n] = "exited"
      /\ \A q \in Runs, m \in Nodes : q # gs \/ m # n => go'[q][m] = go[q][m]
  <2>1. go \in [Runs -> [Nodes -> GoPC]] /\ "exited" \in GoPC
    BY DEF Inductive, TypeOK, GoPC
  <2>2. SetPC(gs, n, "exited")
    BY <1>1 DEF SendDone
  <2> QED
    BY <1>1, <2>1, <2>2, SetPCEffect
<1>3. UNCHANGED <<graph, state, gs, finished, err, result, bound, pos, ctl, cnode, cpos, cchan, clean>>
  BY DEF SendDone, ctlVars
<1>4. TypeInv'
  BY TypeSend DEF Inductive, TypeInv
<1>5. go[gs][n] = "send"
  BY <1>1 DEF SendDone
<1>6. Delivered(n)
  BY <1>1, <1>5 DEF Inductive, GoroutineSound, Delivered, Settled
<1>7. done' = [done EXCEPT ![gs] = Append(@, n)]
  <2>1. bound[gs][n] = gs
    BY <1>1, <1>5, CurrentBound
  <2> QED
    BY <1>1, <2>1 DEF SendDone
<1>8. /\ \A i \in DOMAIN done'[gs] : Delivered(done'[gs][i])
      /\ \A q \in Runs : q # gs => done'[q] = done[q]
  BY <1>1, <1>3, <1>6, <1>7, QueueAppend
<1>9. Evolves
  BY <1>3 DEF Evolves
<1>10. OthersKept
  BY <1>2, <1>3, <1>8 DEF OthersKept
<1>11. BoundKept
  BY <1>1, <1>2, <1>3, CurrentBound DEF BoundKept
<1>12. ChanKept
  BY <1>3, CurrentBound DEF ChanKept
<1>13. GoroutineSound'
  BY <1>1, <1>2, <1>3 DEF Inductive, GoroutineSound
<1>14. BranchSound'
  BY <1>1, <1>2, <1>3 DEF Inductive, BranchSound
<1>15. QueueSound'
  BY <1>1, <1>3, <1>8 DEF Inductive, QueueSound, Delivered, Successor
<1>16. OutcomeSound'
  BY <1>1, <1>3, <1>9, EvolvesOutcome
<1> QED
  BY <1>1, <1>3, <1>4, <1>9, <1>10, <1>11, <1>12, <1>13, <1>14, <1>15, <1>16, InductiveEvolves

(* Sending the error of a failed node keeps the invariant.                 *)
LEMMA InductiveSendErr ==
    ASSUME Inductive, clean, NEW r \in Runs, NEW n \in Nodes, SendErr(r, n)
    PROVE  Inductive' /\ Evolves
<1>1. r <= gs /\ gs > 0 /\ gs \in Runs
  <2>1. r <= gs /\ gs > 0
    BY Current DEF SendErr
  <2> QED
    BY <2>1 DEF Inductive, TypeOK, Runs
<1>2. /\ go'[r][n] = "exited"
      /\ \A q \in Runs, m \in Nodes : q # r \/ m # n => go'[q][m] = go[q][m]
  <2>1. go \in [Runs -> [Nodes -> GoPC]] /\ "exited" \in GoPC
    BY DEF Inductive, TypeOK, GoPC
  <2>2. SetPC(r, n, "exited")
    BY DEF SendErr
  <2> QED
    BY <2>1, <2>2, SetPCEffect
<1>3. UNCHANGED <<graph, state, gs, done, finished, result, bound, pos, ctl, cnode, cpos, cchan, clean>>
  BY DEF SendErr, ctlVars
<1>4. TypeInv'
  BY TypeSend DEF Inductive, TypeInv
<1>5. go[r][n] = "sendErr" /\ bound[r][n] = r
  BY CurrentBound DEF SendErr
<1>6. \A q \in Runs : q # r => err'[q] = err[q]
  BY <1>5 DEF SendErr, Inductive, TypeOK
<1>7. Evolves
  BY <1>3 DEF Evolves
<1>8. OthersKept
  <2>1. \A q \in Runs : q > gs => q # r
    BY <1>1 DEF Runs
  <2> QED
    BY <1>2, <1>3, <1>5, <1>6, <2>1 DEF OthersKept
<1>9. BoundKept
  BY <1>2, <1>3, CurrentBound DEF BoundKept
<1>10. ChanKept
  BY <1>3, CurrentBound DEF ChanKept
<1>11. GoroutineSound'
  BY <1>1, <1>2, <1>3 DEF Inductive, GoroutineSound
<1>12. BranchSound'
  BY <1>1, <1>2, <1>3 DEF Inductive, BranchSound
<1>13. QueueSound'
  BY <1>1, <1>3, <1>7, EvolvesQueue
<1>14. OutcomeSound'
  <2>1. CASE r = gs
    <3>1. state[n] = "failed"
      BY <1>1, <1>5, <2>1 DEF Inductive, GoroutineSound
    <3> QED
      BY <1>1, <1>3, <3>1 DEF Inductive, OutcomeSound
  <2>2. CASE r # gs
    BY <1>1, <1>3, <1>6, <2>2 DEF Inductive, OutcomeSound
  <2> QED
    BY <2>1, <2>2
<1> QED
  BY <1>1, <1>3, <1>4, <1>7, <1>8, <1>9, <1>10, <1>11, <1>12, <1>13, <1>14, InductiveEvolves

(* Receiving a node from done keeps the invariant: it was settled when it  *)
(* was sent.                                                               *)
LEMMA InductiveReceive ==
    ASSUME Inductive, clean, NEW r \in Runs, Receive(r)
    PROVE  Inductive' /\ Evolves
<1>1. r = gs /\ gs > 0 /\ gs \in Runs
  BY Current DEF Receive
<1>2. UNCHANGED <<graph, state, gs, finished, err, result, go, bound, pos, clean>>
  BY DEF Receive, goVars
<1>3. TypeInv'
  BY TypeReceive DEF Inductive, TypeInv
<1>4. /\ done \in [Runs -> Seq(Nodes)] /\ done[gs] # <<>>
      /\ ctl \in [Runs -> CtlPC] /\ cnode \in [Runs -> Nodes]
      /\ cchan \in [Runs -> 0..MaxRuns]
  BY <1>1 DEF Receive, Inductive, TypeOK
<1>5. done'[gs] = Tail(done[gs]) /\ \A q \in Runs : q # gs => done'[q] = done[q]
  BY <1>1, <1>4 DEF Receive
<1>6. cnode'[gs] = Head(done[gs])
  BY <1>1, <1>4 DEF Receive
<1>7. /\ ctl'[gs] \in {"sendFinished", "recv", "sched"}
      /\ ctl'[gs] = "sendFinished" => Head(done[gs]) = End
      /\ \A q \in Runs : q # gs => ctl'[q] = ctl[q]
  BY <1>1, <1>4 DEF Receive
<1>8. cchan'[gs] = gs /\ \A q \in Runs : q # gs => cchan'[q] = cchan[q]
  BY <1>1, <1>4 DEF Receive
<1>9. Delivered(Head(done[gs])) /\ \A i \in DOMAIN Tail(done[gs]) : Delivered(Tail(done[gs])[i])
  <2>1. \A i \in DOMAIN done[gs] : Delivered(done[gs][i])
    BY <1>1 DEF Inductive, QueueSound
  <2>2. 1 \in DOMAIN done[gs] /\ Head(done[gs]) = done[gs][1]
    BY <1>1, <1>4
  <2>3. \A i \in DOMAIN Tail(done[gs]) :
           i + 1 \in DOMAIN done[gs] /\ Tail(done[gs])[i] = done[gs][i + 1]
    BY <1>1, <1>4
  <2> QED
    BY <2>1, <2>2, <2>3
<1>10. Evolves
  BY <1>2 DEF Evolves
<1>11. OthersKept
  BY <1>2, <1>5, <1>7 DEF OthersKept
<1>12. BoundKept
  BY <1>2, CurrentBound DEF BoundKept
<1>13. ChanKept
  BY <1>7, <1>8, CurrentBound DEF ChanKept
<1>14. GoroutineSound' /\ BranchSound'
  BY <1>2 DEF Inductive, GoroutineSound, BranchSound
<1>15. QueueSound'
  BY <1>2, <1>5, <1>6, <1>7, <1>9 DEF QueueSound, Delivered
<1>16. OutcomeSound'
  BY <1>2, <1>7 DEF Inductive, OutcomeSound
<1> QED
  BY <1>1, <1>2, <1>3, <1>10, <1>11, <1>12, <1>13, <1>14, <1>15, <1>16, InductiveEvolves

(* The signals of the control goroutine keep the invariant.                *)
LEMMA InductiveSendSignal ==
    ASSUME Inductive, clean, NEW r \in Runs, SendFinished(r) \/ SendScheduleErr(r)
    PROVE  Inductive' /\ Evolves
<1>1. r <= gs /\ gs > 0 /\ gs \in Runs
  <2>1. r <= gs /\ gs > 0
    BY Current DEF SendFinished, SendScheduleErr
  <2> QED
    BY <2>1 DEF Inductive, TypeOK, Runs
<1>2. UNCHANGED <<graph, state, gs, done, result, go, bound, pos, cnode, cpos, cchan, clean>>
  BY DEF SendFinished, SendScheduleErr, goVars
<1>3. TypeInv'
  BY TypeSendSignal DEF Inductive, TypeInv
<1>4. /\ ctl \in [Runs -> CtlPC] /\ ctl' = [ctl EXCEPT ![r] = "exited"]
      /\ finished \in [Runs -> 0..1] /\ err \in [Runs -> 0..1]
      /\ ctl[r] \in {"sendFinished", "sendErr"} /\ cchan[r] = r
  BY CurrentBound DEF SendFinished, SendScheduleErr, Inductive, TypeOK
<1>5. ctl'[r] = "exited" /\ \A q \in Runs : q # r => ctl'[q] = ctl[q]
  BY <1>4
<1>6. \A q \in Runs : q # r => finished'[q] = finished[q] /\ err'[q] = err[q]
  BY <1>4 DEF SendFinished, SendScheduleErr
<1>7. \/ ctl[r] = "sendFinished" /\ err' = err
      \/ ctl[r] = "sendErr" /\ finished' = finished
  BY DEF SendFinished, SendScheduleErr
<1>8. Evolves
  BY <1>2 DEF Evolves
<1>9. OthersKept
  <2>1. \A q \in Runs : q > gs => q # r
    BY <1>1 DEF Runs
  <2> QED
    BY <1>2, <1>4, <1>5, <1>6, <2>1 DEF OthersKept
<1>10. BoundKept
  BY <1>2, CurrentBound DEF BoundKept
<1>11. ChanKept
  BY <1>2, <1>5, CurrentBound DEF ChanKept
<1>12. GoroutineSound' /\ BranchSound'
  BY <1>2 DEF Inductive, GoroutineSound, BranchSound
<1>13. QueueSound'
  BY <1>1, <1>2, <1>5 DEF Inductive, QueueSound, Delivered, Successor
<1>14. OutcomeSound'
  <2>1. CASE r = gs /\ ctl[r] = "sendFinished" /\ err' = err
    <3>1. state[End] \in Settled
      BY <1>1, <2>1 DEF Inductive, QueueSound, Delivered
    <3> QED
      BY <1>1, <1>2, <1>5, <2>1, <3>1 DEF Inductive, OutcomeSound
  <2>2. CASE r = gs /\ ctl[r] = "sendErr" /\ finished' = finished
    BY <1>1, <1>2, <1>5, <2>2 DEF Inductive, OutcomeSound
  <2>3. CASE r # gs
    BY <1>1, <1>2, <1>5, <1>6, <2>3 DEF Inductive, OutcomeSound
  <2> QED
    BY <1>7, <2>1, <2>2, <2>3
<1> QED
  BY <1>1, <1>2, <1>3, <1>8, <1>9, <1>10, <1>11, <1>12, <1>13, <1>14, InductiveEvolves

(* The successor the control goroutine is looking at.                      *)
LEMMA SuccessorShape ==
    ASSUME Inductive, clean, gs > 0, gs \in Runs, ctl[gs] \in {"sched", "sendSkip"}
    PROVE  /\ Successor(gs) \in Nodes
           /\ cnode[gs] \in Nodes
           /\ Successor(gs) \in Members(Next_(cnode[gs]))
           /\ Successor(gs) # Start
           /\ Delivered(cnode[gs])
<1>1. cnode[gs] \in Nodes /\ cpos[gs] \in DOMAIN Next_(cnode[gs]) /\ TypeOK
  BY DEF Inductive, TypeOK, Positions
<1>2. Successor(gs) \in Nodes /\ Successor(gs) \in Members(Next_(cnode[gs]))
  BY <1>1, GraphShape, MembersOf DEF Successor
<1>3. Successor(gs) # Start
  BY <1>1, <1>2, StartShape
<1> QED
  BY <1>1, <1>2, <1>3 DEF Inductive, QueueSound

(* scheduleNode returning early keeps the invariant.                       *)
LEMMA InductiveScheduleNothing ==
    ASSUME Inductive, clean, NEW r \in Runs, ScheduleNothing(r)
    PROVE  Inductive' /\ Evolves
<1>1. r = gs /\ gs > 0 /\ gs \in Runs /\ ctl[gs] = "sched"
  BY Current DEF ScheduleNothing
<1>2. UNCHANGED <<graph, state, gs, done, finished, err, result, go, bound, pos, cnode, cchan, clean>>
  BY DEF ScheduleNothing, chanVars, goVars
<1>3. TypeInv'
  BY TypeSchedule DEF Inductive, TypeInv
<1>4. /\ ctl'[gs] \in {"sched", "recv"}
      /\ \A q \in Runs : q # gs => ctl'[q] = ctl[q]
  BY <1>1, AdvanceEffect DEF ScheduleNothing, Inductive, TypeInv
<1>5. Evolves
  BY <1>2 DEF Evolves
<1>6. OthersKept
  BY <1>2, <1>4 DEF OthersKept
<1>7. BoundKept
  BY <1>2, CurrentBound DEF BoundKept
<1>8. ChanKept
  BY <1>1, <1>2, <1>4, CurrentBound DEF ChanKept
<1>9. GoroutineSound' /\ BranchSound'
  BY <1>2 DEF Inductive, GoroutineSound, BranchSound
<1>10. QueueSound'
  BY <1>1, <1>2, <1>4 DEF Inductive, QueueSound, Delivered
<1>11. OutcomeSound'
  BY <1>2, <1>4 DEF Inductive, OutcomeSound
<1> QED
  BY <1>1, <1>2, <1>3, <1>5, <1>6, <1>7, <1>8, <1>9, <1>10, <1>11, InductiveEvolves

(* scheduleNode reporting a failed predecessor keeps the invariant.        *)
LEMMA InductiveScheduleError ==
    ASSUME Inductive, clean, NEW r \in Runs, ScheduleError(r)
    PROVE  Inductive' /\ Evolves
<1>1. r = gs /\ gs > 0 /\ gs \in Runs /\ ctl[gs] = "sched"
  BY Current DEF ScheduleError
<1>2. UNCHANGED <<graph, state, gs, done, finished, err, result, go, bound, pos, cnode, cpos, clean>>
  BY DEF ScheduleError, chanVars, goVars
<1>3. TypeInv'
  BY TypeScheduleSend DEF Inductive, TypeInv
<1>4. ctl'[gs] = "sendErr" /\ \A q \in Runs : q # gs => ctl'[q] = ctl[q]
  BY <1>1 DEF ScheduleError, Inductive, TypeOK
<1>5. cchan'[gs] = gs /\ \A q \in Runs : q # gs => cchan'[q] = cchan[q]
  BY <1>1 DEF ScheduleError, Inductive, TypeOK
<1>6. \E n \in Nodes : state[n] = "failed"
  <2>1. Successor(gs) \in Nodes /\ TypeOK
    BY <1>1, SuccessorShape DEF Inductive
  <2>2. PICK i \in DOMAIN Prev_(Successor(gs)) : state[Prev_(Successor(gs))[i]] = "failed"
    BY <1>1 DEF ScheduleError, PrevFailed
  <2>3. Prev_(Successor(gs))[i] \in Nodes
    BY <2>1, GraphShape, MembersOf
  <2> QED
    BY <2>2, <2>3
<1>7. Evolves
  BY <1>2 DEF Evolves
<1>8. OthersKept
  BY <1>2, <1>4 DEF OthersKept
<1>9. BoundKept
  BY <1>2, CurrentBound DEF BoundKept
<1>10. ChanKept
  BY <1>1, <1>4, <1>5, CurrentBound DEF ChanKept
<1>11. GoroutineSound' /\ BranchSound'
  BY <1>2 DEF Inductive, GoroutineSound, BranchSound
<1>12. QueueSound'
  BY <1>1, <1>2, <1>4 DEF Inductive, QueueSound, Delivered
<1>13. OutcomeSound'
  BY <1>2, <1>4, <1>6 DEF Inductive, OutcomeSound
<1> QED
  BY <1>1, <1>2, <1>3, <1>7, <1>8, <1>9, <1>10, <1>11, <1>12, <1>13, InductiveEvolves

(* Skipping without compare-and-swap keeps the invariant: the node was     *)
(* pending or already skipped.                                             *)
LEMMA InductiveScheduleSkip ==
    ASSUME Inductive, clean, NEW r \in Runs, ScheduleSkip(r)
    PROVE  Inductive' /\ Evolves
<1> DEFINE x == Successor(gs)
<1>1. r = gs /\ gs > 0 /\ gs \in Runs /\ ctl[gs] = "sched"
  BY Current DEF ScheduleSkip
<1>2. UNCHANGED <<graph, gs, done, finished, err, result, go, bound, pos, cnode, cpos, clean>>
  BY DEF ScheduleSkip, chanVars, goVars
<1>3. TypeInv'
  BY TypeScheduleSend DEF Inductive, TypeInv
<1>4. ctl'[gs] = "sendSkip" /\ \A q \in Runs : q # gs => ctl'[q] = ctl[q]
  BY <1>1 DEF ScheduleSkip, Inductive, TypeOK
<1>5. cchan'[gs] = gs /\ \A q \in Runs : q # gs => cchan'[q] = cchan[q]
  BY <1>1 DEF ScheduleSkip, Inductive, TypeOK
<1>6. x \in Nodes /\ x # Start /\ Delivered(cnode[gs]) /\ cnode[gs] \in Nodes
  BY <1>1, SuccessorShape
<1>7. /\ TypeOK /\ state \in [Nodes -> States] /\ AllSkipped(x) /\ Becomes(x, "skipped")
      /\ Precedence /\ SkipSound /\ VirtualSkip
  BY <1>1 DEF ScheduleSkip, Inductive, TypeOK, Becomes
<1>8. Prev_(x) # <<>> /\ \A p \in Members(Prev_(x)) : state[p] = "skipped"
  BY <1>7 DEF AllSkipped, Members
<1>9. state[x] \in {"pending", "skipped"}
  <2>1. CASE Kind(x) = "virtual"
    <3>1. Prev_(x)[1] \in Nodes /\ Prev_(x)[1] \in Members(Prev_(x))
      <4>1. Prev_(x) \in Seq(Nodes) /\ Len(Prev_(x)) = 1
        BY <1>6, <1>7, <2>1, GraphShape, VirtualShape
      <4>2. 1 \in DOMAIN Prev_(x)
        BY <4>1
      <4> QED
        BY <4>1, <4>2, MembersOf
    <3> QED
      BY <1>6, <1>7, <1>8, <2>1, <3>1 DEF VirtualSkip
  <2>2. CASE Kind(x) # "virtual"
    BY <1>6, <1>7, <1>8, <2>2 DEF SkipSound, States
  <2> QED
    BY <2>1, <2>2
<1>10. Evolves
  BY <1>6, <1>7, <1>9 DEF Evolves, Skips
<1>11. OthersKept
  BY <1>2, <1>4 DEF OthersKept
<1>12. BoundKept
  BY <1>2, CurrentBound DEF BoundKept
<1>13. ChanKept
  BY <1>1, <1>4, <1>5, CurrentBound DEF ChanKept
<1>14. state'[x] = "skipped" /\ \A m \in Nodes : m # x => state'[m] = state[m]
  BY <1>6, <1>7 DEF Becomes
<1>15. GoroutineSound'
  <2>1. go[gs][x] \notin {"spawned", "fn", "send", "set", "sendBranch", "sendErr"}
    BY <1>1, <1>6, <1>9 DEF Inductive, GoroutineSound
  <2> QED
    BY <1>1, <1>2, <1>14, <2>1 DEF Inductive, GoroutineSound
<1>16. BranchSound'
  <2>1. ASSUME NEW m \in Nodes, go[gs][m] \in {"set", "sendBranch"},
               NEW j \in DOMAIN Next_(m)
        PROVE  state'[Next_(m)[j]] = state[Next_(m)[j]]
    <3>1. Kind(m) = "conditional" /\ m # Start /\ state[m] = "finished"
      BY <1>1, <1>7, <2>1, StartShape DEF Inductive, GoroutineSound
    <3>2. Next_(m)[j] \in Nodes /\ Next_(m)[j] \in Members(Next_(m))
      BY <1>7, GraphShape, MembersOf
    <3>3. m \in Members(Prev_(Next_(m)[j]))
      BY <1>7, <3>1, <3>2, EdgeShape
    <3>4. Next_(m)[j] # x
      BY <1>8, <3>1, <3>3
    <3> QED
      BY <1>14, <3>2, <3>4
  <2>2. ASSUME NEW m \in Nodes, go[gs][m] \in {"set", "sendBranch"}
        PROVE  pos[gs][m] \in DOMAIN Next_(m)
    BY <1>1, <2>2 DEF Inductive, Positions
  <2> QED
    BY <1>1, <1>2, <2>1, <2>2 DEF Inductive, BranchSound
<1>17. QueueSound'
  <2>1. \A i \in DOMAIN done[gs] : Delivered(done[gs][i])'
    <3> SUFFICES ASSUME NEW i \in DOMAIN done[gs], NEW y \in Nodes, y = done[gs][i],
                        Delivered(y)
                 PROVE  Delivered(y)'
      <4>1. done[gs] \in Seq(Nodes)
        BY <1>1 DEF Inductive, TypeOK
      <4> QED
        BY <1>1, <1>2, <4>1 DEF Inductive, QueueSound, Delivered
    <3> QED
      BY <1>2, <1>7, <1>10, EvolvesDelivered
  <2>2. Delivered(cnode[gs])'
    <3> SUFFICES ASSUME NEW y \in Nodes, y = cnode[gs], Delivered(y)
                 PROVE  Delivered(y)'
      BY <1>2, <1>6 DEF Delivered
    <3> QED
      BY <1>2, <1>7, <1>10, EvolvesDelivered
  <2>3. x' = x
    BY <1>2 DEF Successor
  <2> QED
    BY <1>2, <1>4, <1>14, <2>1, <2>2, <2>3 DEF QueueSound
<1>18. OutcomeSound'
  <2>1. state[End] \in Settled => state'[End] \in Settled
    BY <1>7, <1>10, StartShape, EvolvesStable DEF Settled, Terminal
  <2>2. (\E n \in Nodes : state[n] = "failed") => \E n \in Nodes : state'[n] = "failed"
    BY <1>7, <1>10, EvolvesStable DEF Terminal
  <2> QED
    BY <1>1, <1>2, <1>4, <2>1, <2>2 DEF Inductive, OutcomeSound
<1> QED
  BY <1>1, <1>2, <1>3, <1>10, <1>11, <1>12, <1>13, <1>15, <1>16, <1>17, <1>18, InductiveEvolves

(* Starting a node keeps the invariant: all its predecessors are settled.  *)
LEMMA InductiveScheduleRun ==
    ASSUME Inductive, clean, NEW r \in Runs, ScheduleRun(r)
    PROVE  Inductive' /\ Evolves
<1> DEFINE x == Successor(gs)
<1>1. r = gs /\ gs > 0 /\ gs \in Runs /\ ctl[gs] = "sched"
  BY Current DEF ScheduleRun
<1>2. UNCHANGED <<graph, gs, done, finished, err, result, bound, pos, cnode, cchan, clean>>
  BY DEF ScheduleRun, chanVars
<1>3. TypeInv'
  BY TypeSchedule DEF Inductive, TypeInv
<1>4. /\ ctl'[gs] \in {"sched", "recv"}
      /\ \A q \in Runs : q # gs => ctl'[q] = ctl[q]
  BY <1>1, AdvanceEffect DEF ScheduleRun, Inductive, TypeInv
<1>5. /\ x \in Nodes /\ x # Start /\ Delivered(cnode[gs]) /\ cnode[gs] \in Nodes
      /\ x \in Members(Next_(cnode[gs]))
  BY <1>1, SuccessorShape
<1>6. /\ TypeOK /\ state \in [Nodes -> States] /\ state[x] = "pending" /\ Ready(x)
      /\ Becomes(x, "running") /\ SetPC(gs, x, "spawned")
  BY <1>1 DEF ScheduleRun, Inductive, TypeOK, Becomes
<1>7. Kind(x) # "virtual"
  <2> SUFFICES ASSUME Kind(x) = "virtual" PROVE FALSE
    OBVIOUS
  <2>1. Kind(cnode[gs]) = "conditional"
    BY <1>5, <1>6, EdgeShape
  <2>2. cnode[gs] \in Members(Prev_(x)) /\ state[cnode[gs]] = "skipped"
    BY <1>5, <1>6, <2>1, EdgeShape, StartShape DEF Delivered
  <2>3. \A i \in DOMAIN Prev_(x) : Prev_(x)[i] = cnode[gs]
    BY <1>5, <1>6, <2>2, VirtualShape
  <2>4. Prev_(x) # <<>>
    BY <2>2 DEF Members
  <2> QED
    BY <1>6, <2>2, <2>3, <2>4 DEF Ready, AllSkipped
<1>8. Evolves
  BY <1>5, <1>6, <1>7 DEF Evolves, Starts
<1>9. /\ go'[gs][x] = "spawned"
      /\ \A q \in Runs, m \in Nodes : q # gs \/ m # x => go'[q][m] = go[q][m]
  <2>1. go \in [Runs -> [Nodes -> GoPC]] /\ "spawned" \in GoPC
    BY DEF Inductive, TypeOK, GoPC
  <2> QED
    BY <1>1, <1>5, <1>6, <2>1, SetPCEffect
<1>10. OthersKept
  BY <1>2, <1>4, <1>9 DEF OthersKept
<1>11. BoundKept
  BY <1>2, <1>9, CurrentBound DEF BoundKept
<1>12. ChanKept
  BY <1>1, <1>2, <1>4, CurrentBound DEF ChanKept
<1>13. state'[x] = "running" /\ \A m \in Nodes : m # x => state'[m] = state[m]
  BY <1>5, <1>6 DEF Becomes
<1>14. GoroutineSound'
  BY <1>1, <1>2, <1>7, <1>9, <1>13 DEF Inductive, GoroutineSound
<1>15. BranchSound'
  <2>1. ASSUME NEW m \in Nodes, go[gs][m] \in {"set", "sendBranch"},
               NEW j \in DOMAIN Next_(m)
        PROVE  state'[Next_(m)[j]] = state[Next_(m)[j]]
    <3>1. Kind(m) = "conditional"
      BY <1>1, <2>1 DEF Inductive, GoroutineSound
    <3>2. Next_(m)[j] \in Nodes /\ Next_(m)[j] \in Members(Next_(m))
      BY <1>6, GraphShape, MembersOf
    <3>3. Kind(Next_(m)[j]) = "virtual"
      BY <1>6, <3>1, <3>2, EdgeShape
    <3> QED
      BY <1>7, <1>13, <3>2, <3>3
  <2>2. ASSUME NEW m \in Nodes, go[gs][m] \in {"set", "sendBranch"}
        PROVE  pos[gs][m] \in DOMAIN Next_(m)
    BY <1>1, <2>2 DEF Inductive, Positions
  <2> QED
    BY <1>1, <1>2, <1>9, <2>1, <2>2 DEF Inductive, BranchSound
<1>16. QueueSound'
  <2>1. \A i \in DOMAIN done[gs] : Delivered(done[gs][i])'
    <3> SUFFICES ASSUME NEW i \in DOMAIN done[gs], NEW y \in Nodes, y = done[gs][i],
                        Delivered(y)
                 PROVE  Delivered(y)'
      <4>1. done[gs] \in Seq(Nodes)
        BY <1>1 DEF Inductive, TypeOK
      <4> QED
        BY <1>1, <1>2, <4>1 DEF Inductive, QueueSound, Delivered
    <3> QED
      BY <1>2, <1>6, <1>8, EvolvesDelivered
  <2>2. Delivered(cnode[gs])'
    <3> SUFFICES ASSUME NEW y \in Nodes, y = cnode[gs], Delivered(y)
                 PROVE  Delivered(y)'
      BY <1>2, <1>5 DEF Delivered
    <3> QED
      BY <1>2, <1>6, <1>8, EvolvesDelivered
  <2> QED
    BY <1>2, <1>4, <2>1, <2>2 DEF QueueSound
<1>17. OutcomeSound'
  <2>1. state[End] \in Settled => state'[End] \in Settled
    BY <1>6, <1>8, StartShape, EvolvesStable DEF Settled, Terminal
  <2>2. (\E n \in Nodes : state[n] = "failed") => \E n \in Nodes : state'[n] = "failed"
    BY <1>6, <1>8, EvolvesStable DEF Terminal
  <2> QED
    BY <1>1, <1>2, <1>4, <2>1, <2>2 DEF Inductive, OutcomeSound
<1> QED
  BY <1>1, <1>2, <1>3, <1>8, <1>10, <1>11, <1>12, <1>14, <1>15, <1>16, <1>17, InductiveEvolves

(* Sending a skipped node to done keeps the invariant.                     *)
LEMMA InductiveSendSkipped ==
    ASSUME Inductive, clean, NEW r \in Runs, SendSkipped(r)
    PROVE  Inductive' /\ Evolves
<1> DEFINE x == Successor(gs)
<1>1. r = gs /\ gs > 0 /\ gs \in Runs /\ ctl[gs] = "sendSkip"
  BY Current DEF SendSkipped
<1>2. UNCHANGED <<graph, state, gs, finished, err, result, go, bound, pos, cnode, cchan, clean>>
  BY DEF SendSkipped, goVars
<1>3. TypeInv'
  BY TypeSchedule DEF Inductive, TypeInv
<1>4. /\ ctl'[gs] \in {"sched", "recv"}
      /\ \A q \in Runs : q # gs => ctl'[q] = ctl[q]
  BY <1>1, AdvanceEffect DEF SendSkipped, Inductive, TypeInv
<1>5. x \in Nodes /\ Delivered(cnode[gs])
  BY <1>1, SuccessorShape
<1>6. Delivered(x)
  BY <1>1 DEF Inductive, QueueSound, Delivered, Settled
<1>7. done' = [done EXCEPT ![gs] = Append(@, x)]
  <2>1. cchan[gs] = gs
    BY <1>1, CurrentBound
  <2> QED
    BY <1>1, <2>1 DEF SendSkipped
<1>8. /\ \A i \in DOMAIN done'[gs] : Delivered(done'[gs][i])
      /\ \A q \in Runs : q # gs => done'[q] = done[q]
  BY <1>1, <1>2, <1>5, <1>6, <1>7, QueueAppend
<1>9. Evolves
  BY <1>2 DEF Evolves
<1>10. OthersKept
  BY <1>2, <1>4, <1>8 DEF OthersKept
<1>11. BoundKept
  BY <1>2, CurrentBound DEF BoundKept
<1>12. ChanKept
  BY <1>1, <1>2, <1>4, CurrentBound DEF ChanKept
<1>13. GoroutineSound' /\ BranchSound'
  BY <1>2 DEF Inductive, GoroutineSound, BranchSound
<1>14. QueueSound'
  BY <1>2, <1>4, <1>5, <1>8 DEF QueueSound, Delivered
<1>15. OutcomeSound'
  BY <1>2, <1>4 DEF Inductive, OutcomeSound
<1> QED
  BY <1>1, <1>2, <1>3, <1>9, <1>10, <1>11, <1>12, <1>13, <1>14, <1>15, InductiveEvolves

(* The return of Run keeps the invariant.                                  *)
LEMMA InductiveReturn ==
    ASSUME Inductive, clean, ReturnOk \/ ReturnErr
    PROVE  Inductive' /\ Evolves
<1>1. gs > 0 /\ gs \in Runs /\ gs \in Nat
  <2>1. gs > 0
    BY DEF ReturnOk, ReturnErr, Idle
  <2>2. gs \in 0..MaxRuns /\ MaxRuns \in Nat
    BY SchedulerAssumption DEF Inductive, TypeOK
  <2> QED
    BY <2>1, <2>2 DEF Runs
<1>2. UNCHANGED <<graph, state, gs, done, go, bound, pos, ctl, cnode, cpos, cchan, clean>>
  BY DEF ReturnOk, ReturnErr, goVars, ctlVars
<1>3. TypeInv'
  BY TypeReturn DEF Inductive, TypeInv
<1>4. \A q \in Runs : q # gs =>
         finished'[q] = finished[q] /\ err'[q] = err[q] /\ result'[q] = result[q]
  BY <1>1 DEF ReturnOk, ReturnErr, Inductive, TypeOK
<1>5. \/ finished[gs] = 1 /\ err' = err /\ result'[gs] = "ok"
      \/ err[gs] = 1 /\ result'[gs] = "err" /\ finished' = finished
  BY <1>1 DEF ReturnOk, ReturnErr, Inductive, TypeOK
<1>6. Evolves
  BY <1>2 DEF Evolves
<1>7. OthersKept
  <2>1. \A q \in Runs : q > gs => q # gs
    BY <1>1 DEF Runs
  <2> QED
    BY <1>2, <1>4, <2>1 DEF OthersKept
<1>8. BoundKept /\ ChanKept
  BY <1>2, CurrentBound DEF BoundKept, ChanKept
<1>9. GoroutineSound' /\ BranchSound'
  BY <1>2 DEF Inductive, GoroutineSound, BranchSound
<1>10. QueueSound'
  BY <1>1, <1>2, <1>6, EvolvesQueue
<1>11. OutcomeSound'
  BY <1>1, <1>2, <1>5 DEF Inductive, OutcomeSound
<1> QED
  BY <1>1, <1>2, <1>3, <1>6, <1>7, <1>8, <1>9, <1>10, <1>11, InductiveEvolves

(* A new Run starts from pending nodes and fresh channels.                 *)
LEMMA InductiveRun ==
    ASSUME Inductive, Run
    PROVE  Inductive'
<1>1. TypeInv'
  BY TypeRun DEF Inductive, TypeInv
<1>2. CASE ~clean'
  BY <1>1, <1>2 DEF Inductive, TypeInv, Undisturbed, GoroutineSound, BranchSound,
     QueueSound, Precedence, SkipSound, VirtualSkip, OutcomeSound
<1>3. CASE clean'
  <2>1. clean /\ (gs > 0 => Quiet(gs) /\ Reusable)
    BY <1>3 DEF Run
  <2>2. gs \in 0..MaxRuns /\ gs' = gs + 1 /\ gs + 1 \in Runs /\ Runs \subseteq Nat
    BY SchedulerAssumption DEF Run, Inductive, TypeOK, Runs
  <2>3. \A n \in Nodes : state'[n] = "pending"
    <3>1. CASE gs = 0
      BY <2>1, <3>1 DEF Run, ResetStates, Inductive, Undisturbed
    <3>2. CASE gs > 0
      BY <2>1, <3>2 DEF Run, ResetStates, Reusable
    <3> QED
      BY <2>2, <3>1, <3>2
  <2>4. UNCHANGED <<graph, done, finished, err, bound, pos, cnode, cpos, cchan>>
    BY DEF Run, chanVars
  <2>5. /\ go'[gs + 1][Start] = "spawned"
        /\ \A q \in Runs, m \in Nodes : q # gs + 1 \/ m # Start => go'[q][m] = go[q][m]
    <3>1. go \in [Runs -> [Nodes -> GoPC]] /\ "spawned" \in GoPC
      BY DEF Inductive, TypeOK, GoPC
    <3>2. SetPC(gs + 1, Start, "spawned") /\ Start \in Nodes
      BY SchedulerAssumption DEF Run
    <3> QED
      BY <2>2, <3>1, <3>2, SetPCEffect
  <2>6. /\ ctl'[gs + 1] = "recv" /\ result'[gs + 1] = "running"
        /\ \A q \in Runs : q # gs + 1 => ctl'[q] = ctl[q] /\ result'[q] = result[q]
    BY <2>2 DEF Run, Inductive, TypeOK
  <2>7. /\ \A n \in Nodes : go[gs + 1][n] = "none"
        /\ ctl[gs + 1] = "none" /\ done[gs + 1] = <<>>
        /\ finished[gs + 1] = 0 /\ err[gs + 1] = 0
    BY <2>1, <2>2 DEF Inductive, Undisturbed
  <2>8. ASSUME NEW r \in Runs, r < gs + 1 PROVE Quiet(r)'
    <3>1. r \in 1..MaxRuns
      BY DEF Runs
    <3>2. r < gs \/ (r = gs /\ gs > 0)
      BY <2>2, <2>8, <3>1
    <3>3. Quiet(r) /\ r # gs + 1
      BY <2>1, <2>2, <3>2 DEF Inductive, Undisturbed
    <3> QED
      BY <2>4, <2>5, <2>6, <3>3 DEF Quiet
  <2>9. ASSUME NEW r \in Runs, r > gs + 1
        PROVE  /\ \A n \in Nodes : go'[r][n] = "none"
               /\ ctl'[r] = "none" /\ done'[r] = <<>> /\ finished'[r] = 0 /\ err'[r] = 0
               /\ result'[r] = "none"
    <3>1. r > gs /\ r # gs + 1
      BY <2>2, <2>9
    <3> QED
      BY <2>1, <2>4, <2>5, <2>6, <3>1 DEF Inductive, Undisturbed
  <2>10. BoundKept
    BY <2>1, <2>4, <2>5, CurrentBound DEF BoundKept
  <2>11. ChanKept
    BY <2>1, <2>4, <2>6, CurrentBound DEF ChanKept
  <2>12. Undisturbed'
    BY <2>2, <2>3, <2>8, <2>9, <2>10, <2>11 DEF Undisturbed, BoundKept, ChanKept
  <2>13. \A n \in Nodes : go'[gs + 1][n] \in {"spawned", "none"} /\
                          (go'[gs + 1][n] = "spawned" => n = Start)
    BY <2>2, <2>5, <2>7
  <2>14. TypeOK
    BY DEF Inductive
  <2>15. GoroutineSound' /\ BranchSound'
    BY <2>2, <2>3, <2>4, <2>13, <2>14, StartShape DEF GoroutineSound, BranchSound
  <2>16. QueueSound'
    <3>1. done'[gs + 1] = <<>> /\ ctl'[gs + 1] = "recv"
      BY <2>4, <2>6, <2>7
    <3> QED
      BY <2>2, <3>1 DEF QueueSound
  <2>17. OutcomeSound'
    BY <2>2, <2>4, <2>6, <2>7 DEF OutcomeSound
  <2>18. Precedence' /\ SkipSound' /\ VirtualSkip'
    <3>1. Precedence'
      BY <2>3 DEF Precedence
    <3>2. SkipSound'
      BY <2>3 DEF SkipSound
    <3>3. VirtualSkip'
      BY <2>3 DEF VirtualSkip
    <3> QED
      BY <3>1, <3>2, <3>3
  <2> QED
    BY <1>1, <2>12, <2>15, <2>16, <2>17, <2>18 DEF Inductive, TypeInv
<1> QED
  BY <1>2, <1>3

(* Every step of a goroutine of the current Run keeps the invariant.       *)
LEMMA InductiveStep ==
    ASSUME Inductive, clean, Next, ~Run
    PROVE  Inductive' /\ Evolves
<1>1. CASE ReturnOk \/ ReturnErr
  BY <1>1, InductiveReturn
<1>2. CASE \E r \in Runs : Control(r)
  BY <1>2, InductiveReceive, InductiveSendSignal, InductiveScheduleNothing,
     InductiveScheduleError, InductiveScheduleSkip, InductiveScheduleRun,
     InductiveSendSkipped DEF Control
<1>3. CASE \E r \in Runs, n \in Nodes : Goroutine(r, n)
  BY <1>3, InductiveExecute, InductiveFn, InductiveCondOk, InductiveSetBranch,
     InductiveSendBranch, InductiveSendDone, InductiveSendErr DEF Goroutine
<1> QED
  BY <1>1, <1>2, <1>3 DEF Next

(* A Run that was disturbed stays marked as such.                          *)
LEMMA CleanKept ==
    ASSUME Next, ~Run
    PROVE  UNCHANGED clean
<1>1. CASE ReturnOk \/ ReturnErr
  BY <1>1 DEF ReturnOk, ReturnErr
<1>2. ASSUME NEW r \in Runs, Control(r) PROVE UNCHANGED clean
  BY <1>2 DEF Control, Receive, SendFinished, ScheduleNothing, ScheduleError,
     ScheduleSkip, ScheduleRun, SendSkipped, SendScheduleErr
<1>3. ASSUME NEW r \in Runs, NEW n \in Nodes, Goroutine(r, n) PROVE UNCHANGED clean
  BY <1>3 DEF Goroutine, Execute, FnOk, FnFail, CondOk, SetBranch, SendBranch,
     SendDone, SendErr
<1> QED
  BY <1>1, <1>2, <1>3 DEF Next

(* The initial state satisfies the invariant.                              *)
LEMMA InductiveInit == Init => Inductive
<1> SUFFICES ASSUME Init PROVE Inductive
  OBVIOUS
<1>1. TypeOK /\ Positions
  BY TypeInit DEF TypeInv
<1>2. gs = 0 /\ \A n \in Nodes : state[n] = "pending"
  BY DEF Init
<1>3. \A r \in Runs :
         /\ \A n \in Nodes : go[r][n] = "none"
         /\ ctl[r] = "none" /\ done[r] = <<>> /\ finished[r] = 0 /\ err[r] = 0
         /\ result[r] = "none"
  BY DEF Init, PerRun, PerNode
<1>4. \A r \in Runs : ~(r < gs)
  BY <1>2, SchedulerAssumption DEF Runs
<1>5. Undisturbed
  BY <1>2, <1>3, <1>4 DEF Undisturbed
<1>6. GoroutineSound /\ BranchSound /\ QueueSound /\ OutcomeSound
  BY <1>2 DEF GoroutineSound, BranchSound, QueueSound, OutcomeSound
<1>7. Precedence /\ SkipSound /\ VirtualSkip
  BY <1>2 DEF Precedence, SkipSound, VirtualSkip
<1> QED
  BY <1>1, <1>5, <1>6, <1>7 DEF Inductive

(* Every step keeps the invariant.                                         *)
LEMMA InductiveNext == Inductive /\ [Next]_vars => Inductive'
<1> SUFFICES ASSUME Inductive, [Next]_vars PROVE Inductive'
  OBVIOUS
<1>1. CASE Run
  BY <1>1, InductiveRun
<1>2. CASE Next /\ ~Run /\ clean
  BY <1>2, InductiveStep
<1>3. CASE Next /\ ~Run /\ ~clean
  <2>1. TypeInv'
    BY <1>3, TypeNext DEF Inductive, TypeInv
  <2>2. ~clean'
    BY <1>3, CleanKept
  <2> QED
    BY <2>1, <2>2 DEF Inductive, TypeInv, Undisturbed, GoroutineSound, BranchSound,
       QueueSound, Precedence, SkipSound, VirtualSkip, OutcomeSound
<1>4. CASE UNCHANGED vars
  <2> USE <1>4 DEF vars, chanVars, goVars, ctlVars
  <2>1. TypeOK' /\ Positions'
    BY DEF Inductive, TypeOK, Positions
  <2>2. Undisturbed'
    BY DEF Inductive, Undisturbed, Quiet
  <2>3. GoroutineSound' /\ BranchSound'
    BY DEF Inductive, GoroutineSound, BranchSound
  <2>4. QueueSound' /\ OutcomeSound'
    BY DEF Inductive, QueueSound, OutcomeSound, Delivered, Successor
  <2>5. Precedence' /\ SkipSound' /\ VirtualSkip'
    BY DEF Inductive, Precedence, SkipSound, VirtualSkip
  <2> QED
    BY <2>1, <2>2, <2>3, <2>4, <2>5 DEF Inductive
<1> QED
  BY <1>1, <1>2, <1>3, <1>4

(* The inductive invariant holds in every reachable state.                 *)
THEOREM InductiveInvariant == Spec => []Inductive
BY InductiveInit, InductiveNext, PTL DEF Spec

(* scheduleNode respects the dependencies of the graph: in a Run that no   *)
(* earlier one disturbs, a node starts, settles or is skipped only after   *)
(* all its predecessors settled.                                           *)
THEOREM PrecedenceHolds == Spec => []Precedence
<1>1. Inductive => Precedence
  BY DEF Inductive
<1> QED
  BY <1>1, InductiveInvariant, PTL

(* The skip branch of scheduleNode is sound and complete for the nodes     *)
(* with predecessors: skipped iff all predecessors are, started only with  *)
(* a predecessor that finished.                                            *)
THEOREM SkipSoundHolds == Spec => []SkipSound
<1>1. Inductive => SkipSound
  BY DEF Inductive
<1> QED
  BY <1>1, InductiveInvariant, PTL

(* A nil error from Run means that the end node and all it depends on have *)
(* settled and none of them failed or is executing.                        *)
THEOREM SuccessSoundHolds == Spec => []SuccessSound
<1>1. Inductive => SuccessSound
  <2> SUFFICES ASSUME Inductive, clean, gs > 0, result[gs] = "ok" PROVE SuccessSound
    BY DEF SuccessSound
  <2> DEFINE S == {n \in Nodes : /\ state[n] \in Settled
                                 /\ go[gs][n] \notin {"spawned", "fn"}}
  <2>1. TypeOK /\ gs \in Runs
    <3>1. TypeOK /\ gs \in 0..MaxRuns /\ MaxRuns \in Nat
      BY SchedulerAssumption DEF Inductive, TypeOK
    <3> QED
      BY <3>1 DEF Runs
  <2>2. \A n \in Nodes : state[n] \in Settled => n \in S
    BY <2>1 DEF Inductive, GoroutineSound, Settled
  <2>3. End \in S
    BY <2>1, <2>2, StartShape DEF Inductive, OutcomeSound
  <2>4. ASSUME NEW n \in S PROVE Members(Prev_(n)) \subseteq S
    <3> SUFFICES ASSUME NEW p \in Members(Prev_(n)) PROVE p \in S
      OBVIOUS
    <3>1. p \in Nodes /\ n \in Nodes
      BY <2>1, GraphShape, MembersOf
    <3>2. state[p] \in Settled
      BY <3>1 DEF Inductive, Precedence, Settled
    <3> QED
      BY <2>2, <3>1, <3>2
  <2> QED
    BY <2>3, <2>4 DEF SuccessSound
<1> QED
  BY <1>1, InductiveInvariant, PTL

(* An error from Run is the error of a node of this Run.                   *)
THEOREM ErrorSoundHolds == Spec => []ErrorSound
<1>1. Inductive => ErrorSound
  BY DEF Inductive, OutcomeSound, ErrorSound
<1> QED
  BY <1>1, InductiveInvariant, PTL

(* Within a Run an outcome is final, although scheduleNode stores          *)
(* NodeSkipped without a compare-and-swap and node goroutines store their  *)
(* results without looking.                                                *)
THEOREM TerminalStableHolds == Spec => TerminalStable
<1> DEFINE Stable == (clean /\ gs' = gs) =>
              \A n \in Nodes : state[n] \in Terminal => state'[n] = state[n]
<1>1. Inductive /\ [Next]_vars => [Stable]_vars
  <2> SUFFICES ASSUME Inductive, Next, clean, gs' = gs PROVE Stable
    OBVIOUS
  <2>1. ~Run
    BY DEF Run, Inductive, TypeOK
  <2>2. Evolves
    BY <2>1, InductiveStep
  <2> QED
    BY <2>2, EvolvesStable DEF Inductive
<1> QED
  BY <1>1, InductiveInvariant, PTL DEF Spec, TerminalStable

-----------------------------------------------------------------------------
(* No wake-up is lost.  A node that waits although its predecessors have   *)
(* settled has a predecessor that is still on its way to scheduleNode.     *)

Waiting(n) ==
    /\ state[n] = "pending" /\ Prev_(n) # <<>>
    /\ \A p \in Members(Prev_(n)) : state[p] \in Settled

(* The control goroutine has still to receive p ...                        *)
Sending(p)   == go[gs][p] = "send"
Branching(p) == \E c \in Nodes : go[gs][c] = "sendBranch" /\ Next_(c)[pos[gs][c]] = p
Queued(p)    == p \in Members(done[gs])
Skipping(p)  == ctl[gs] = "sendSkip" /\ Successor(gs) = p

(* ... or is in the loop over the successors of p and not past n, or the   *)
(* goroutine of the conditional node p is.                                 *)
Scheduling(p, n) ==
    /\ ctl[gs] \in {"sched", "sendSkip"} /\ cnode[gs] = p
    /\ \E i \in DOMAIN Next_(p) :
          Next_(p)[i] = n /\ (i > cpos[gs] \/ (i = cpos[gs] /\ ctl[gs] = "sched"))

Selecting(p, n) ==
    /\ go[gs][p] \in {"set", "sendBranch"}
    /\ \E i \in DOMAIN Next_(p) :
          Next_(p)[i] = n /\ (i > pos[gs][p] \/ (i = pos[gs][p] /\ go[gs][p] = "set"))

Attends(p, n) ==
    \/ Sending(p) \/ Branching(p) \/ Queued(p) \/ Skipping(p)
    \/ Scheduling(p, n) \/ Selecting(p, n)

Working == {"recv", "sched", "sendSkip"}

Awake == (clean /\ gs > 0 /\ ctl[gs] \in Working) =>
    \A n \in Nodes : Waiting(n) => \E p \in Members(Prev_(n)) : Attends(p, n)

(* A step within a Run: who attends to a waiting node goes on to, and who  *)
(* settles in the step attends.                                            *)
LEMMA AwakeStep ==
    ASSUME Inductive, Awake, clean, gs > 0, UNCHANGED <<graph, gs>>, Evolves,
           ctl'[gs] \in Working => ctl[gs] \in Working,
           \A p, n \in Nodes : p \in Members(Prev_(n)) /\ Waiting(n)' /\ ctl'[gs] \in Working =>
              /\ Attends(p, n) => Attends(p, n)'
              /\ state[p] \notin Settled /\ state'[p] \in Settled => Attends(p, n)'
    PROVE  Awake'
<1> SUFFICES ASSUME NEW n \in Nodes, Waiting(n)', ctl'[gs] \in Working
             PROVE  \E p \in Members(Prev_(n)) : Attends(p, n)'
  BY DEF Awake
<1>1. TypeOK /\ state \in [Nodes -> States]
  BY DEF Inductive, TypeOK
<1>2. Prev_(n) \in Seq(Nodes) /\ Members(Prev_(n)) \subseteq Nodes
  BY <1>1, GraphShape, MembersOf
<1>3. state[n] = "pending" /\ Prev_(n) # <<>> /\ \A p \in Members(Prev_(n)) : state'[p] \in Settled
  <2>1. state'[n] = "pending" /\ Prev_(n) # <<>> /\ \A p \in Members(Prev_(n)) : state'[p] \in Settled
    BY DEF Waiting
  <2>2. state[n] = "pending"
    BY <1>1, <2>1 DEF Evolves, EndsFn, SettlesBranch, Skips, Starts, Becomes
  <2> QED
    BY <2>1, <2>2
<1>4. CASE \A p \in Members(Prev_(n)) : state[p] \in Settled
  <2>1. Waiting(n)
    BY <1>3, <1>4 DEF Waiting
  <2>2. PICK p \in Members(Prev_(n)) : Attends(p, n)
    BY <2>1 DEF Awake
  <2> QED
    BY <1>2, <2>2
<1>5. CASE \E p \in Members(Prev_(n)) : state[p] \notin Settled
  BY <1>2, <1>3, <1>5
<1> QED
  BY <1>4, <1>5

(* Steps of node goroutines that do not send to the done channel.          *)
LEMMA AttendsKept ==
    ASSUME UNCHANGED <<graph, gs, done, cnode, cpos>>, ctl'[gs] = ctl[gs],
           \A m \in Nodes : go[gs][m] \in {"send", "set", "sendBranch"} =>
              go'[gs][m] = go[gs][m] /\ pos'[gs][m] = pos[gs][m],
           NEW p \in Nodes, NEW n \in Nodes, Attends(p, n)
    PROVE  Attends(p, n)'
<1>1. Sending(p) => Sending(p)'
  BY DEF Sending
<1>2. Branching(p) => Branching(p)'
  BY DEF Branching
<1>3. Queued(p) => Queued(p)'
  BY DEF Queued
<1>4. Skipping(p) => Skipping(p)'
  BY DEF Skipping, Successor
<1>5. Scheduling(p, n) => Scheduling(p, n)'
  BY DEF Scheduling
<1>6. Selecting(p, n) => Selecting(p, n)'
  BY DEF Selecting
<1> QED
  BY <1>1, <1>2, <1>3, <1>4, <1>5, <1>6 DEF Attends

LEMMA AwakeFn ==
    ASSUME Inductive, Awake, clean, NEW r \in Runs, NEW n \in Nodes,
           Execute(r, n) \/ FnOk(r, n) \/ FnFail(r, n)
    PROVE  Awake'
<1>1. r = gs /\ gs > 0 /\ gs \in Runs /\ go[gs][n] \in {"spawned", "fn"}
  BY Current DEF Execute, FnOk, FnFail
<1>2. PICK pc \in GoPC : SetPC(gs, n, pc) /\ (FnOk(r, n) => pc = "send")
  BY <1>1 DEF Execute, FnOk, FnFail, GoPC
<1>3. go'[gs][n] = pc /\ \A m \in Nodes : m # n => go'[gs][m] = go[gs][m]
  BY <1>1, <1>2, SetPCEffect DEF Inductive, TypeOK
<1>4. UNCHANGED <<graph, gs, done, pos, ctl, cnode, cpos>>
  BY DEF Execute, FnOk, FnFail, chanVars, ctlVars
<1>5. Evolves
  BY InductiveExecute, InductiveFn
<1>6. \A m \in Nodes : state[m] \notin Settled /\ state'[m] \in Settled => m = n /\ FnOk(r, n)
  BY DEF Execute, FnOk, FnFail, Settled, Inductive, TypeOK
<1>7. FnOk(r, n) => Sending(n)'
  BY <1>2, <1>3, <1>4 DEF Sending
<1>8. \A p, m \in Nodes : Attends(p, m) => Attends(p, m)'
  BY <1>1, <1>3, <1>4, AttendsKept
<1> QED
  BY <1>1, <1>4, <1>5, <1>6, <1>7, <1>8, AwakeStep DEF Attends

LEMMA AwakeCondOk ==
    ASSUME Inductive, Awake, clean, NEW r \in Runs, NEW n \in Nodes, CondOk(r, n)
    PROVE  Awake'
<1>1. r = gs /\ gs > 0 /\ gs \in Runs /\ go[gs][n] = "fn" /\ TypeOK
  BY Current DEF CondOk, Inductive
<1>2. PICK pc \in GoPC : SetPC(gs, n, pc) /\ (Next_(n) # <<>> => pc = "set")
  BY <1>1 DEF CondOk, GoPC
<1>3. go'[gs][n] = pc /\ \A m \in Nodes : m # n => go'[gs][m] = go[gs][m]
  BY <1>1, <1>2, SetPCEffect DEF TypeOK
<1>4. UNCHANGED <<graph, gs, done, ctl, cnode, cpos>>
  BY DEF CondOk, chanVars, ctlVars
<1>5. pos'[gs][n] = 1 /\ \A m \in Nodes : m # n => pos'[gs][m] = pos[gs][m]
  BY <1>1 DEF CondOk, TypeOK
<1>6. Evolves
  BY InductiveCondOk
<1>7. \A m \in Nodes : state[m] \notin Settled /\ state'[m] \in Settled => m = n
  BY <1>1 DEF CondOk, TypeOK
<1>8. ASSUME NEW m \in Nodes, n \in Members(Prev_(m))
      PROVE  Selecting(n, m)'
  <2>1. Next_(n) \in Seq(Nodes) /\ m \in Members(Next_(n))
    BY <1>1, <1>8, GraphShape, BackShape
  <2>2. PICK i \in DOMAIN Next_(n) : Next_(n)[i] = m
    BY <2>1, MembersOf
  <2>3. i >= 1 /\ i \in Nat /\ Next_(n) # <<>>
    BY <2>1, <2>2
  <2>4. i > pos'[gs][n] \/ (i = pos'[gs][n] /\ go'[gs][n] = "set")
    BY <1>2, <1>3, <1>5, <2>3
  <2> QED
    BY <1>2, <1>3, <1>4, <2>2, <2>3, <2>4 DEF Selecting
<1>9. \A p, m \in Nodes : Attends(p, m) => Attends(p, m)'
  BY <1>1, <1>3, <1>4, <1>5, AttendsKept
<1> QED
  BY <1>1, <1>4, <1>6, <1>7, <1>8, <1>9, AwakeStep DEF Attends

LEMMA AwakeSetBranch ==
    ASSUME Inductive, Awake, clean, NEW r \in Runs, NEW n \in Nodes, SetBranch(r, n)
    PROVE  Awake'
<1>1. r = gs /\ gs > 0 /\ gs \in Runs /\ go[gs][n] = "set" /\ TypeOK
  BY Current DEF SetBranch, Inductive
<1>2. go'[gs][n] = "sendBranch" /\ \A m \in Nodes : m # n => go'[gs][m] = go[gs][m]
  BY <1>1, SetPCEffect DEF SetBranch, TypeOK, GoPC
<1>3. UNCHANGED <<graph, gs, done, pos, ctl, cnode, cpos>>
  BY DEF SetBranch, chanVars, ctlVars
<1>4. Evolves
  BY InductiveSetBranch
<1>5. PICK v \in Nodes : v = Next_(n)[pos[gs][n]]
  <2>1. pos[gs][n] \in DOMAIN Next_(n)
    BY <1>1 DEF Inductive, Positions
  <2> QED
    BY <1>1, <2>1, GraphShape, MembersOf
<1>6. state'[v] \in Settled /\ \A m \in Nodes : m # v => state'[m] = state[m]
  BY <1>1, <1>5 DEF SetBranch, TypeOK, Settled
<1>7. Branching(v)'
  BY <1>2, <1>3, <1>5 DEF Branching
<1>8. ASSUME NEW p \in Nodes, NEW m \in Nodes, Waiting(m)', Attends(p, m)
      PROVE  Attends(p, m)'
  <2>1. m # v
    BY <1>6, <1>8 DEF Waiting, Settled
  <2>2. Selecting(p, m) => Selecting(p, m)'
    BY <1>1, <1>2, <1>3, <1>5, <2>1 DEF Selecting
  <2>3. Sending(p) => Sending(p)'
    BY <1>1, <1>2, <1>3 DEF Sending
  <2>4. Branching(p) => Branching(p)'
    BY <1>1, <1>2, <1>3 DEF Branching
  <2>5. Queued(p) => Queued(p)'
    BY <1>3 DEF Queued
  <2>6. Skipping(p) => Skipping(p)'
    BY <1>3 DEF Skipping, Successor
  <2>7. Scheduling(p, m) => Scheduling(p, m)'
    BY <1>3 DEF Scheduling
  <2> QED
    BY <1>8, <2>2, <2>3, <2>4, <2>5, <2>6, <2>7 DEF Attends
<1>9. \A p \in Nodes : state[p] \notin Settled /\ state'[p] \in Settled => p = v
  BY <1>6
<1> QED
  BY <1>1, <1>3, <1>4, <1>7, <1>8, <1>9, AwakeStep DEF Attends

(* What is sent to the done channel is in it.                              *)
LEMMA QueuedAppend ==
    ASSUME Inductive, gs \in Runs, UNCHANGED gs, NEW x \in Nodes,
           done' = [done EXCEPT ![gs] = Append(@, x)]
    PROVE  Queued(x)' /\ \A p : Queued(p) => Queued(p)'
<1>1. done[gs] \in Seq(Nodes) /\ done'[gs] = Append(done[gs], x)
  BY DEF Inductive, TypeOK
<1>2. /\ \A i \in DOMAIN done[gs] : i \in DOMAIN done'[gs] /\ done'[gs][i] = done[gs][i]
      /\ Len(done[gs]) + 1 \in DOMAIN done'[gs] /\ done'[gs][Len(done[gs]) + 1] = x
  BY <1>1
<1> QED
  BY <1>2 DEF Queued, Members

LEMMA AwakeSendBranch ==
    ASSUME Inductive, Awake, clean, NEW r \in Runs, NEW n \in Nodes, SendBranch(r, n)
    PROVE  Awake'
<1>1. r = gs /\ gs > 0 /\ gs \in Runs /\ go[gs][n] = "sendBranch" /\ TypeOK
  BY Current DEF SendBranch, Inductive
<1>2. PICK pc \in GoPC : SetPC(gs, n, pc) /\ (pos[gs][n] < Len(Next_(n)) => pc = "set")
  BY <1>1 DEF SendBranch, GoPC
<1>3. go'[gs][n] = pc /\ \A m \in Nodes : m # n => go'[gs][m] = go[gs][m]
  BY <1>1, <1>2, SetPCEffect DEF TypeOK
<1>4. UNCHANGED <<graph, state, gs, ctl, cnode, cpos>>
  BY DEF SendBranch, ctlVars
<1>5. pos'[gs][n] = pos[gs][n] + 1 /\ \A m \in Nodes : m # n => pos'[gs][m] = pos[gs][m]
  <2>1. pos' = [pos EXCEPT ![gs] = [@ EXCEPT ![n] = pos[gs][n] + 1]]
    BY <1>1 DEF SendBranch
  <2>2. pos \in [Runs -> [Nodes -> Nat]]
    BY <1>1 DEF TypeOK
  <2> QED
    BY <1>1, <2>1, <2>2
<1>6. Evolves
  BY InductiveSendBranch, Zenon
<1>7. pos[gs][n] \in DOMAIN Next_(n) /\ pos[gs][n] \in Nat /\ Next_(n) \in Seq(Nodes)
  BY <1>1, GraphShape DEF Inductive, Positions, TypeOK
<1>8. PICK v \in Nodes : v = Next_(n)[pos[gs][n]]
  BY <1>7, MembersOf
<1>9. done' = [done EXCEPT ![gs] = Append(@, v)]
  <2>1. bound[gs][n] = gs
    BY <1>1, CurrentBound
  <2> QED
    BY <1>1, <1>8, <2>1 DEF SendBranch
<1>10. Queued(v)' /\ \A p : Queued(p) => Queued(p)'
  BY <1>1, <1>4, <1>8, <1>9, QueuedAppend
<1>11. ASSUME NEW p \in Nodes, NEW m \in Nodes, Attends(p, m)
       PROVE  Attends(p, m)'
  <2>1. CASE Selecting(p, m)
    <3>1. CASE p = n
      <4>1. PICK i \in DOMAIN Next_(n) : Next_(n)[i] = m /\ i > pos[gs][n]
        BY <1>1, <2>1, <3>1 DEF Selecting
      <4>2. pos[gs][n] < Len(Next_(n))
        BY <1>7, <4>1
      <4>3. i > pos[gs][n] + 1 \/ i = pos[gs][n] + 1
        BY <1>7, <4>1
      <4>4. go'[gs][n] = "set"
        BY <1>2, <1>3, <4>2
      <4>5. Selecting(n, m)'
        BY <1>4, <1>5, <4>1, <4>3, <4>4 DEF Selecting
      <4> QED
        BY <3>1, <4>5 DEF Attends
    <3>2. CASE p # n
      BY <1>3, <1>4, <1>5, <2>1, <3>2 DEF Selecting, Attends
    <3> QED
      BY <3>1, <3>2
  <2>2. Sending(p) => Sending(p)'
    BY <1>1, <1>3, <1>4 DEF Sending
  <2>3. CASE Branching(p)
    <3>1. CASE p = v
      BY <1>10, <3>1 DEF Attends
    <3>2. CASE p # v
      <4>1. PICK c \in Nodes : go[gs][c] = "sendBranch" /\ Next_(c)[pos[gs][c]] = p
        BY <2>3 DEF Branching
      <4>2. c # n
        BY <1>8, <3>2, <4>1
      <4> QED
        BY <1>3, <1>4, <1>5, <4>1, <4>2 DEF Branching, Attends
    <3> QED
      BY <3>1, <3>2
  <2>4. Skipping(p) => Skipping(p)'
    BY <1>4 DEF Skipping, Successor
  <2>5. Scheduling(p, m) => Scheduling(p, m)'
    BY <1>4 DEF Scheduling
  <2> QED
    BY <1>10, <1>11, <2>1, <2>2, <2>3, <2>4, <2>5 DEF Attends
<1> QED
  BY <1>1, <1>4, <1>6, <1>11, AwakeStep

LEMMA AwakeSendDone ==
    ASSUME Inductive, Awake, clean, NEW r \in Runs, NEW n \in Nodes, SendDone(r, n)
    PROVE  Awake'
<1>1. r = gs /\ gs > 0 /\ gs \in Runs /\ go[gs][n] = "send"
  BY Current DEF SendDone
<1>2. \A m \in Nodes : m # n => go'[gs][m] = go[gs][m]
  BY <1>1, SetPCEffect DEF SendDone, Inductive, TypeOK, GoPC
<1>3. UNCHANGED <<graph, state, gs, pos, ctl, cnode, cpos>>
  BY DEF SendDone, ctlVars
<1>4. Evolves
  BY InductiveSendDone
<1>5. done' = [done EXCEPT ![gs] = Append(@, n)]
  <2>1. bound[gs][n] = gs
    BY <1>1, CurrentBound
  <2> QED
    BY <1>1, <2>1 DEF SendDone
<1>6. Queued(n)' /\ \A p : Queued(p) => Queued(p)'
  BY <1>1, <1>3, <1>5, QueuedAppend
<1>7. ASSUME NEW p \in Nodes, NEW m \in Nodes, Attends(p, m)
      PROVE  Attends(p, m)'
  <2>1. Sending(p) => Sending(p)' \/ Queued(p)'
    BY <1>2, <1>3, <1>6 DEF Sending
  <2>2. Branching(p) => Branching(p)'
    BY <1>1, <1>2, <1>3 DEF Branching
  <2>3. Skipping(p) => Skipping(p)'
    BY <1>3 DEF Skipping, Successor
  <2>4. Scheduling(p, m) => Scheduling(p, m)'
    BY <1>3 DEF Scheduling
  <2>5. Selecting(p, m) => Selecting(p, m)'
    BY <1>1, <1>2, <1>3 DEF Selecting
  <2> QED
    BY <1>6, <1>7, <2>1, <2>2, <2>3, <2>4, <2>5 DEF Attends
<1> QED
  BY <1>1, <1>3, <1>4, <1>7, AwakeStep

(* Signals to Run, of any Run that has not ended, and the end of Run.      *)
LEMMA AwakeSignal ==
    ASSUME Inductive, Awake, clean, NEW r \in Runs,
           \/ SendFinished(r) \/ SendScheduleErr(r) \/ ReturnOk \/ ReturnErr
           \/ \E n \in Nodes : SendErr(r, n)
    PROVE  Awake'
<1>1. UNCHANGED <<graph, state, gs, done, pos, cnode, cpos, clean>>
  BY DEF SendFinished, SendScheduleErr, ReturnOk, ReturnErr, SendErr, goVars, ctlVars
<1>2. CASE gs = 0
  BY <1>1, <1>2 DEF Awake
<1>3. CASE gs > 0
  <2>1. gs \in Runs /\ TypeOK /\ Evolves
    <3>1. TypeOK /\ gs \in 0..MaxRuns /\ MaxRuns \in Nat
      BY SchedulerAssumption DEF Inductive, TypeOK
    <3>2. Evolves
      BY <1>1 DEF Evolves
    <3> QED
      BY <1>3, <3>1, <3>2 DEF Runs
  <2>2. ctl'[gs] \in Working => ctl'[gs] = ctl[gs]
    BY <2>1 DEF SendFinished, SendScheduleErr, ReturnOk, ReturnErr, SendErr, ctlVars, Working,
       TypeOK
  <2>3. \A m \in Nodes : go[gs][m] \in {"send", "set", "sendBranch"} => go'[gs][m] = go[gs][m]
    <3>1. ASSUME NEW n \in Nodes, SendErr(r, n), NEW m \in Nodes, go[gs][m] # "sendErr"
          PROVE  go'[gs][m] = go[gs][m]
      <4>1. go \in [Runs -> [Nodes -> GoPC]] /\ "exited" \in GoPC
        BY <2>1 DEF TypeOK, GoPC
      <4>2. SetPC(r, n, "exited") /\ go[r][n] = "sendErr"
        BY <3>1 DEF SendErr
      <4>3. \A q \in Runs, k \in Nodes : q # r \/ k # n => go'[q][k] = go[q][k]
        BY <4>1, <4>2, SetPCEffect
      <4> QED
        BY <2>1, <3>1, <4>2, <4>3
    <3> QED
      BY <3>1 DEF SendFinished, SendScheduleErr, ReturnOk, ReturnErr, goVars
  <2>4. ASSUME ctl'[gs] \in Working, NEW p \in Nodes, NEW m \in Nodes, Attends(p, m)
        PROVE  Attends(p, m)'
    BY <1>1, <2>2, <2>3, <2>4, AttendsKept
  <2> QED
    BY <1>1, <1>3, <2>1, <2>2, <2>4, AwakeStep
<1> QED
  BY <1>2, <1>3, SchedulerAssumption DEF Inductive, TypeOK

(* for node := range s.GraphState.done                                     *)
LEMMA AwakeReceive ==
    ASSUME Inductive, Awake, clean, NEW r \in Runs, Receive(r)
    PROVE  Awake'
<1>1. r = gs /\ gs > 0 /\ gs \in Runs /\ ctl[gs] = "recv" /\ done[gs] # <<>> /\ TypeOK
  BY Current DEF Receive, Inductive
<1>2. UNCHANGED <<graph, state, gs, go, pos>> /\ Evolves
  BY DEF Receive, goVars, Evolves
<1>3. done[gs] \in Seq(Nodes) /\ done'[gs] = Tail(done[gs])
  BY <1>1 DEF Receive, TypeOK
<1>4. PICK x \in Nodes : x = Head(done[gs])
  BY <1>1, <1>3
<1>5. /\ cnode'[gs] = x /\ cpos'[gs] = 1
      /\ ctl'[gs] = IF x = End THEN "sendFinished"
                    ELSE IF Next_(x) = <<>> THEN "recv" ELSE "sched"
  BY <1>1, <1>4 DEF Receive, TypeOK
<1>6. ASSUME NEW p, Queued(p), p # x
      PROVE  Queued(p)'
  <2>1. PICK i \in DOMAIN done[gs] : done[gs][i] = p
    BY <1>6 DEF Queued, Members
  <2>2. i # 1
    BY <1>1, <1>3, <1>4, <1>6, <2>1
  <2>3. i - 1 \in DOMAIN Tail(done[gs]) /\ Tail(done[gs])[i - 1] = p
    BY <1>1, <1>3, <2>1, <2>2
  <2> QED
    BY <1>2, <1>3, <2>3 DEF Queued, Members
<1>7. ASSUME NEW p \in Nodes, NEW m \in Nodes, p \in Members(Prev_(m)), ctl'[gs] \in Working,
             Attends(p, m)
      PROVE  Attends(p, m)'
  <2>1. Sending(p) => Sending(p)'
    BY <1>2 DEF Sending
  <2>2. Branching(p) => Branching(p)'
    BY <1>2 DEF Branching
  <2>3. Selecting(p, m) => Selecting(p, m)'
    BY <1>2 DEF Selecting
  <2>4. ~Skipping(p) /\ ~Scheduling(p, m)
    BY <1>1 DEF Skipping, Scheduling
  <2>5. p = x => Scheduling(p, m)'
    <3> SUFFICES ASSUME p = x PROVE Scheduling(x, m)'
      OBVIOUS
    <3>1. Next_(x) \in Seq(Nodes) /\ m \in Members(Next_(x))
      BY <1>1, <1>7, GraphShape, BackShape
    <3>2. PICK i \in DOMAIN Next_(x) : Next_(x)[i] = m
      BY <3>1, MembersOf
    <3>3. i \in Nat /\ i >= 1 /\ Next_(x) # <<>>
      BY <3>1, <3>2
    <3>4. ctl'[gs] = "sched"
      BY <1>5, <1>7, <3>3 DEF Working
    <3>5. i > cpos'[gs] \/ i = cpos'[gs]
      BY <1>5, <3>3
    <3> QED
      BY <1>2, <1>5, <3>2, <3>4, <3>5 DEF Scheduling
  <2> QED
    BY <1>6, <1>7, <2>1, <2>2, <2>3, <2>4, <2>5 DEF Attends
<1> QED
  BY <1>1, <1>2, <1>7, AwakeStep DEF Working

(* The loop over node.Next goes on, past a node that does not wait.        *)
LEMMA AttendsAdvance ==
    ASSUME Inductive, clean, gs > 0, gs \in Runs, ctl[gs] \in {"sched", "sendSkip"},
           UNCHANGED <<graph, gs, pos, cnode>>, Advance(gs),
           \A m \in Nodes : go[gs][m] \in {"send", "set", "sendBranch"} => go'[gs][m] = go[gs][m],
           NEW p \in Nodes, NEW n \in Nodes, Attends(p, n),
           Queued(p) \/ Skipping(p) => Queued(p)',
           ctl[gs] = "sched" => n # Successor(gs)
    PROVE  Attends(p, n)'
<1>1. /\ cnode[gs] \in Nodes /\ cpos[gs] \in Nat /\ cpos[gs] \in DOMAIN Next_(cnode[gs])
      /\ Next_(cnode[gs]) \in Seq(Nodes) /\ ctl \in [Runs -> CtlPC] /\ cpos \in [Runs -> Nat]
  BY GraphShape DEF Inductive, TypeOK, Positions
<1>2. /\ cpos'[gs] = cpos[gs] + 1
      /\ cpos[gs] < Len(Next_(cnode[gs])) => ctl'[gs] = "sched"
  BY <1>1 DEF Advance
<1>3. Sending(p) => Sending(p)'
  BY DEF Sending
<1>4. Branching(p) => Branching(p)'
  BY DEF Branching
<1>5. Selecting(p, n) => Selecting(p, n)'
  BY DEF Selecting
<1>6. CASE Scheduling(p, n)
  <2>1. p = cnode[gs]
    BY <1>6 DEF Scheduling
  <2>2. PICK i \in DOMAIN Next_(p) : Next_(p)[i] = n /\ i > cpos[gs]
    BY <1>6 DEF Scheduling, Successor
  <2>3. cpos[gs] < Len(Next_(p)) /\ (i > cpos[gs] + 1 \/ i = cpos[gs] + 1)
    BY <1>1, <2>1, <2>2
  <2>4. Scheduling(p, n)'
    BY <1>2, <2>1, <2>2, <2>3 DEF Scheduling
  <2> QED
    BY <2>4 DEF Attends
<1> QED
  BY <1>3, <1>4, <1>5, <1>6 DEF Attends

LEMMA AwakeScheduleNothing ==
    ASSUME Inductive, Awake, clean, NEW r \in Runs, ScheduleNothing(r)
    PROVE  Awake'
<1>1. r = gs /\ gs > 0 /\ gs \in Runs /\ ctl[gs] = "sched" /\ TypeOK
  BY Current DEF ScheduleNothing, Inductive
<1>2. UNCHANGED <<graph, state, gs, done, go, pos, cnode>> /\ Advance(gs) /\ Evolves
  BY <1>1 DEF ScheduleNothing, goVars, chanVars, Evolves
<1>3. PICK x \in Nodes : x = Successor(gs)
  BY <1>1, SuccessorShape
<1>4. ~Waiting(x)
  <2>1. PrevOpen(x) \/ state[x] # "pending"
    BY <1>1, <1>3 DEF ScheduleNothing
  <2> QED
    BY <2>1 DEF PrevOpen, Waiting, Settled, Members
<1>5. ASSUME NEW p \in Nodes, NEW m \in Nodes, Waiting(m)', Attends(p, m)
      PROVE  Attends(p, m)'
  <2>1. m # Successor(gs)
    BY <1>2, <1>3, <1>4, <1>5 DEF Waiting
  <2>2. Queued(p) \/ Skipping(p) => Queued(p)'
    BY <1>1, <1>2 DEF Queued, Skipping
  <2> QED
    BY <1>1, <1>2, <1>5, <2>1, <2>2, AttendsAdvance
<1> QED
  BY <1>1, <1>2, <1>5, AwakeStep DEF Working

LEMMA AwakeScheduleRun ==
    ASSUME Inductive, Awake, clean, NEW r \in Runs, ScheduleRun(r)
    PROVE  Awake'
<1>1. r = gs /\ gs > 0 /\ gs \in Runs /\ ctl[gs] = "sched" /\ TypeOK
  BY Current DEF ScheduleRun, Inductive
<1>2. UNCHANGED <<graph, gs, done, pos, cnode>> /\ Advance(gs)
  BY <1>1 DEF ScheduleRun, chanVars
<1>3. PICK x \in Nodes : x = Successor(gs)
  BY <1>1, SuccessorShape
<1>4. /\ state[x] = "pending" /\ state' = [state EXCEPT ![x] = "running"]
      /\ SetPC(gs, x, "spawned")
  BY <1>1, <1>3 DEF ScheduleRun
<1>5. \A m \in Nodes : m # x => go'[gs][m] = go[gs][m]
  BY <1>1, <1>4, SetPCEffect DEF TypeOK, GoPC
<1>6. go[gs][x] \notin {"send", "set", "sendBranch"}
  BY <1>1, <1>4 DEF Inductive, GoroutineSound
<1>7. Evolves
  BY InductiveScheduleRun
<1>8. ASSUME NEW p \in Nodes, NEW m \in Nodes, Waiting(m)', Attends(p, m)
      PROVE  Attends(p, m)'
  <2>1. m # Successor(gs)
    BY <1>1, <1>3, <1>4, <1>8 DEF Waiting, TypeOK
  <2>2. Queued(p) \/ Skipping(p) => Queued(p)'
    BY <1>1, <1>2 DEF Queued, Skipping
  <2> QED
    BY <1>1, <1>2, <1>5, <1>6, <1>8, <2>1, <2>2, AttendsAdvance
<1>9. \A p \in Nodes : state'[p] \in Settled => state[p] \in Settled
  BY <1>1, <1>4 DEF TypeOK, Settled
<1> QED
  BY <1>1, <1>2, <1>7, <1>8, <1>9, AwakeStep DEF Working

LEMMA AwakeSendSkipped ==
    ASSUME Inductive, Awake, clean, NEW r \in Runs, SendSkipped(r)
    PROVE  Awake'
<1>1. r = gs /\ gs > 0 /\ gs \in Runs /\ ctl[gs] = "sendSkip"
  BY Current DEF SendSkipped
<1>2. UNCHANGED <<graph, state, gs, go, pos, cnode>> /\ Advance(gs) /\ Evolves
  BY <1>1 DEF SendSkipped, goVars, Evolves
<1>3. PICK x \in Nodes : x = Successor(gs)
  BY <1>1, SuccessorShape
<1>4. done' = [done EXCEPT ![gs] = Append(@, x)]
  <2>1. cchan[gs] = gs
    BY <1>1, CurrentBound
  <2> QED
    BY <1>1, <1>3, <2>1 DEF SendSkipped
<1>5. Queued(x)' /\ \A p : Queued(p) => Queued(p)'
  BY <1>1, <1>2, <1>4, QueuedAppend
<1>6. ASSUME NEW p \in Nodes, NEW m \in Nodes, Attends(p, m)
      PROVE  Attends(p, m)'
  <2>1. Queued(p) \/ Skipping(p) => Queued(p)'
    BY <1>3, <1>5 DEF Skipping
  <2> QED
    BY <1>1, <1>2, <1>6, <2>1, AttendsAdvance
<1> QED
  BY <1>1, <1>2, <1>6, AwakeStep DEF Working

LEMMA AwakeScheduleSkip ==
    ASSUME Inductive, Awake, clean, NEW r \in Runs, ScheduleSkip(r)
    PROVE  Awake'
<1>1. r = gs /\ gs > 0 /\ gs \in Runs /\ ctl[gs] = "sched" /\ TypeOK
  BY Current DEF ScheduleSkip, Inductive
<1>2. UNCHANGED <<graph, gs, done, go, pos, cnode, cpos>>
  BY DEF ScheduleSkip, chanVars, goVars
<1>3. PICK x \in Nodes : x = Successor(gs)
  BY <1>1, SuccessorShape
<1>4. state' = [state EXCEPT ![x] = "skipped"] /\ ctl'[gs] = "sendSkip"
  BY <1>1, <1>3 DEF ScheduleSkip, TypeOK
<1>5. Evolves
  BY InductiveScheduleSkip
<1>6. Skipping(x)'
  BY <1>2, <1>3, <1>4 DEF Skipping, Successor
<1>7. ASSUME NEW p \in Nodes, NEW m \in Nodes, Waiting(m)', Attends(p, m)
      PROVE  Attends(p, m)'
  <2>1. m # x
    BY <1>1, <1>4, <1>7 DEF Waiting, TypeOK
  <2>2. Sending(p) => Sending(p)'
    BY <1>2 DEF Sending
  <2>3. Branching(p) => Branching(p)'
    BY <1>2 DEF Branching
  <2>4. Queued(p) => Queued(p)'
    BY <1>2 DEF Queued
  <2>5. ~Skipping(p)
    BY <1>1 DEF Skipping
  <2>6. Scheduling(p, m) => Scheduling(p, m)'
    BY <1>1, <1>2, <1>3, <1>4, <2>1 DEF Scheduling, Successor
  <2>7. Selecting(p, m) => Selecting(p, m)'
    BY <1>2 DEF Selecting
  <2> QED
    BY <1>7, <2>2, <2>3, <2>4, <2>5, <2>6, <2>7 DEF Attends
<1>8. \A p \in Nodes : state[p] \notin Settled /\ state'[p] \in Settled => p = x
  BY <1>1, <1>4 DEF TypeOK
<1> QED
  BY <1>1, <1>2, <1>5, <1>6, <1>7, <1>8, AwakeStep DEF Attends, Working

LEMMA AwakeScheduleError ==
    ASSUME Inductive, clean, NEW r \in Runs, ScheduleError(r)
    PROVE  Awake'
<1>1. r = gs /\ gs \in Runs
  BY Current DEF ScheduleError
<1>2. gs' = gs /\ ctl'[gs] = "sendErr"
  BY <1>1 DEF ScheduleError, Inductive, TypeOK
<1> QED
  BY <1>2 DEF Awake, Working

(* At the beginning of a Run nothing has settled.                          *)
LEMMA AwakeRun ==
    ASSUME Inductive, Run
    PROVE  Awake'
<1> SUFFICES ASSUME clean', NEW n \in Nodes, Waiting(n)' PROVE FALSE
  BY DEF Awake
<1>1. clean /\ (gs > 0 => Reusable) /\ gs \in 0..MaxRuns /\ graph' = graph /\ TypeOK
  BY DEF Run, Inductive, TypeOK
<1>2. \A m \in Nodes : state'[m] = "pending"
  <2>1. CASE gs = 0
    BY <1>1, <2>1 DEF Run, ResetStates, Inductive, Undisturbed
  <2>2. CASE gs > 0
    BY <1>1, <2>2 DEF Run, ResetStates, Reusable
  <2> QED
    BY <1>1, <2>1, <2>2, SchedulerAssumption
<1>3. Prev_(n) \in Seq(Nodes) /\ Prev_(n) # <<>>
  BY <1>1, GraphShape DEF Waiting
<1>4. Prev_(n)[1] \in Members(Prev_(n)) /\ Prev_(n)[1] \in Nodes
  <2>1. 1 \in DOMAIN Prev_(n)
    BY <1>3
  <2> QED
    BY <1>3, <2>1, MembersOf
<1> QED
  BY <1>1, <1>2, <1>4 DEF Waiting, Settled

LEMMA AwakeNext == Inductive /\ Awake /\ [Next]_vars => Awake'
<1> SUFFICES ASSUME Inductive, Awake, [Next]_vars PROVE Awake'
  OBVIOUS
<1>1. CASE Run
  BY <1>1, AwakeRun
<1>2. CASE Next /\ ~Run /\ clean
  <2>1. CASE ReturnOk \/ ReturnErr
    <3>1. 1 \in Runs
      BY SchedulerAssumption DEF Runs
    <3> QED
      BY <1>2, <2>1, <3>1, AwakeSignal
  <2>2. ASSUME NEW r \in Runs, Control(r) PROVE Awake'
    BY <1>2, <2>2, AwakeReceive, AwakeSignal, AwakeScheduleNothing, AwakeScheduleError,
       AwakeScheduleSkip, AwakeScheduleRun, AwakeSendSkipped DEF Control
  <2>3. ASSUME NEW r \in Runs, NEW n \in Nodes, Goroutine(r, n) PROVE Awake'
    BY <1>2, <2>3, AwakeFn, AwakeCondOk, AwakeSetBranch, AwakeSendBranch, AwakeSendDone,
       AwakeSignal DEF Goroutine
  <2> QED
    BY <1>2, <2>1, <2>2, <2>3 DEF Next
<1>3. CASE Next /\ ~Run /\ ~clean
  BY <1>3, CleanKept DEF Awake
<1>4. CASE UNCHANGED vars
  BY <1>4 DEF Awake, Waiting, Attends, Sending, Branching, Queued, Skipping, Scheduling,
     Selecting, Successor, vars, chanVars, goVars, ctlVars
<1> QED
  BY <1>1, <1>2, <1>3, <1>4

(* No wake-up is lost: when the control goroutine waits on an empty done   *)
(* channel and no goroutine of the Run is left, no node is still pending   *)
(* behind settled predecessors, although scheduleNode looks at a node only *)
(* when one of them is received and returns early if another is not ready. *)
THEOREM NoLostNodeHolds == Spec => []NoLostNode
<1>1. Init => Awake
  BY DEF Init, Awake
<1>2. Inductive /\ Awake => NoLostNode
  <2> SUFFICES ASSUME Inductive, Awake, clean, gs > 0, ctl[gs] = "recv", done[gs] = <<>>,
                      \A n \in Nodes : go[gs][n] \in {"none", "exited"},
                      NEW n \in Nodes, Waiting(n)
               PROVE  FALSE
    BY DEF NoLostNode, Waiting
  <2>1. PICK p \in Members(Prev_(n)) : Attends(p, n)
    BY DEF Awake, Working
  <2>2. ~Queued(p) /\ ~Skipping(p) /\ ~Scheduling(p, n) /\ ~Branching(p)
    BY DEF Queued, Members, Skipping, Scheduling, Branching
  <2>3. go[gs][p] \in {"send", "set", "sendBranch"}
    BY <2>1, <2>2 DEF Attends, Sending, Selecting
  <2>4. p \in Nodes
    BY GraphShape, MembersOf DEF Inductive
  <2> QED
    BY <2>3, <2>4
<1> QED
  BY <1>1, <1>2, AwakeNext, InductiveInvariant, PTL DEF Spec
=============================================================================
