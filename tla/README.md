# A TLA+ verification of xgc-agent

xgc-agent is a Go framework for agents: a DAG scheduler with a message bus,
sessions, layered memory, tools, model clients and agent loops. This directory
holds TLA+ models of its stateful parts, TLC configurations that check them on
small instances, and TLAPS proofs of the main results for every instance.
`PROJECT.json` links every modelling definition to the source lines it stands for.

Contents: [inventory](#inventory) · [plan](#plan) · [modules](#modules-and-the-code)
· [runs](#what-tlc-checks) · [proofs](#what-is-proved) ·
[disagreements](#where-the-code-and-its-comments-disagree) · [limits](#what-is-not-covered)

## Inventory

For each component: its state; its operations; what is hard about it; what makes
it correct.

**Graph scheduler** (`schedule/graph.go`, `node.go`, `conditional.go`, `start.go`, `end.go`).
State: the nodes with `Next`, `Prev` and an atomic `State`; the map `Graph` of
registered nodes; the current `GraphState` with channels `done` (100), `finished` (1)
and `err` (1). Operations: the construction API; `Run`, which resets the nodes,
allocates a `GraphState`, starts a control goroutine and the start node, and waits
for `finished` or `err`; `scheduleNode`; `Node.Execute` and `executeConditional` in a
goroutine per node. Hard: node states are shared by successive Runs while channels are
not; goroutines outlive a failed Run; the control goroutine sends to the channel it
drains; a node is looked at only when a predecessor arrives. Correct when nodes start
after their predecessors, skipping follows the branches, results are justified, no node
is forgotten and Run returns.

**Message bus of a graph context** (`schedule/context.go`). State: per key a producer
channel, `history`, `Consumers`, a RWMutex. Operations: `Register` (starts the broadcasting
goroutine), `Subscribe` (adds a channel, replays history), consumers. Hard: history and
the closing loop are not under the lock; channels are bounded. Correct when a consumer
misses nothing, sees messages in order, and gets everything before the channel closes.

**Sub-graph node** (`schedule/subgraph.go`). Runs a child scheduler in a loop until a
condition is false. Rests on repeated Runs of one scheduler.

**Id ring** (`memory/type_/util.go`). State: a circular buffer, `head`, `size`, an index
from ids to positions. Operations: `PushBack` with growth, `PopFront`, `Remove`, `Values`,
`Reset`. Hard: wrap-around, growth while wrapped, rebuilding on removal. Correct when it
is a queue of different ids.

**Short-term memory** (`memory/type_/short_term.go`). State: the ring (insertion order) and
a store reached through `StoreManager`. Operations: `Add` (expire, push, store, trim),
`Update`, `Get`, `List`, `Delete`, `Clear`. Hard: the store may fail at every call; errors
of `Get` count as expiry, errors of `Delete` are ignored. Correct when ring and store
agree, the capacity holds and nothing expired is returned.

**Long-term and episodic memory, memory manager** (`long_term.go`, `episodic.go`,
`manager/`). State: an episodic memory over a store, a semantic memory, a short-term
memory. Operations: `Add` and `Update` route a batch item by item, `Delete` and `Clear` call
both memories; `AddMessage` and `Promote` (summarise short-term memory into the long-term
memory). Hard: no lock spans the two memories, either of them can fail, items name a user of
their own. Correct when what was deleted is in neither memory and nobody's items disappear.

**In-memory and pgvector stores** (`memory/store/inmem`, `pgvector`). State: items per user,
with a limit. Operations: `Add` (an upsert), `Update`, `Delete`, `Clear`, `Get`, `List`. Hard:
in PostgreSQL the condition of a statement and its write are not one step, rows may be only
marked as deleted, a lost connection hides a success. Correct when both are a bounded map
per user.

**Neo4j graph store** (`memory/store/neo4jgraph`). State: entity nodes and relationships of all
users in one database. Operations: `AddEntity`, `AddRelationship`, `DeleteEntity`, `ClearAll`,
`GetStats`, `FindRelatedEntities`, `GetEntityRelationships`. Hard: MERGE without a uniqueness
constraint, queries that restrict the ends of a path only, counts made in four transactions.
Correct when duplicates stay bounded and reads show a user only what is theirs.

**Session** (`session/`). State: id, a history bounded by tokens, the scheduler's state, a store
(files or SQLite). Operations: `AddMessage`, `NewConversation`, `Save`, `LoadFromStorage`. Hard:
a file is truncated and written in place; `Save` takes its lock twice; `Load` may fail
half-way. Correct when what is loaded is what was saved and the history is the longest end
of the conversation that fits.

**Tools** (`tools/registry.go`, `stream.go`, `nonstream.go`, `mcp.go`, `mcp_client.go`). State:
a map of tools with a limit; streams with two ends; the session of an MCP client. Hard: the
limit is checked outside the lock of the insertion; either end of a stream may close first;
the server may restart. Correct when the limit is exceeded in a bounded way, a stream loses
nothing and leaves no goroutine behind, and a request meets a server that knows it.

**Agents** (`agent/`). State: the conversation of a Run. Operations: `Run` of the ReAct and the
plan-and-execute agent, `executeTool` with hooks. Hard: tools are listed once and looked up
at each call, calls fail one by one. Correct when every tool call is answered and Run ends.

**OpenAI client and tool-calling program** (`model/openai/openai.go`,
`example/model/openai/toolcall`). State: the accumulated stream, the index mapping of tool
calls, the channels of responses and errors. Hard: deltas of several calls interleave, the
deadline races with a response being sent, streams end without a choice. Correct when calls
are assembled as announced, there is one outcome, and nobody is left waiting.

**Chunker** (`rag/chunker.go`). A pure algorithm with overlap.

Other packages (`embedding`, `prompt`, `message`, `schema`, `utils`, `cmd`, `example`, the
mock model) hold data conversions, formatting and I/O. The sandbox that the repository's
README names has no source at this commit.

How components interact: a node function reads and writes a `graphContext` and may register
producers or subscribe on its bus; a sub-graph node runs a scheduler inside a node of
another; short-term memory keeps its order in an id ring and its items in a store; the
manager moves summaries from short-term to long-term memory, which routes items to an
episodic memory over a store; a session keeps the messages an agent produces and the state of
its scheduler; agents call a model client and the tools of a registry, among them MCP tools;
the tool-calling program drives the model's stream and the streams of tools.

## Plan

The scheduler came first because everything the framework orchestrates runs on it and
because it is the most concurrent part; the bus is the channel between its nodes.

1. *Done.* `Scheduler` with `MCScheduler`, `SchedulerProofs`.
2. *Done.* `MessageBus` with `MCMessageBus` and `MessageBusProofs`.
3. *Done.* `IdRing` implementing `IdQueue`, with `MCIdRing` and, for the proofs,
   `RingAndLongTermProofs`, which holds those about long-term memory as well.
4. *Done.* `ShortTermMemory` over `IdQueue` and a store whose calls may fail, with
   `MCShortTermMemory` and `ShortTermMemoryProofs`.
5. *Done.* `Session` with its buffer and both stores under crashes, with `MCSession`
   and `SessionProofs`.
6. *Done.* `MemoryStore`, the promise of a store; `InMemoryStore` and `PgvectorStore`, both
   shown to implement it; `LongTermMemory`, which composes the manager, the long-term and the
   episodic memory with `InMemoryStore`; `PgvectorStoreProofs`, `RingAndLongTermProofs`.
7. *Done.* `GraphStore` with `MCGraphStore` and `GraphStoreProofs`.
8. *Done.* `Agent`, which composes the agents with `ToolRegistry` and `MCPClient`;
   `ToolCalling`, which composes the program with `ChatStream` and `ToolStream`; `ToolUseProofs`
   for both.

Every safety property and every refinement that a passing run checks is proved. What is
left to model is listed under [limits](#what-is-not-covered).

## Modules and the code

### Scheduler

One behaviour is a sequence of `Run` calls, one after the other, on one Scheduler. A graph
is a record of `next`, `prev`, `kind` and `registered` that satisfies `IsGraph`, which
states what the construction API guarantees: `SetEntry` adds a successor of the start node
without a predecessor entry, `AddConditionalEdge` inserts a virtual node with exactly one
predecessor, conditional and sub-graph nodes never get into `s.Graph` and are therefore
not in `registered`. Node functions are not modelled beyond the choice to return nil or an
error; a condition selects any set of branches.

GraphStates are numbered. `go[r][n]` is the goroutine executing node `n` that was started
when GraphState `r` was current, `bound[r][n]` the GraphState it was given when it began
to run (the closure reads `s.GraphState` late), `ctl[r]` the control goroutine of the
`r`-th Run. So goroutines of an old Run stay in the model and can write to shared node
states and even to the channels of a later Run, as in the code.

| code | actions |
|---|---|
| `Run`, `resetForRun`, the final `select` | `Run`, `ReturnOk`, `ReturnErr` |
| `Node.Execute` | `Execute`, `FnOk`, `FnFail`, `SendDone`, `SendErr` |
| `executeConditional` | `CondOk`, `FnFail`, `SetBranch`, `SendBranch` |
| the control goroutine | `Receive`, `SendFinished`, `SendScheduleErr` |
| `scheduleNode` | `ScheduleNothing`, `ScheduleError`, `ScheduleSkip`, `SendSkipped`, `ScheduleRun` |

Atomicity: a step has at most one access to a shared state or channel, with three
exceptions. `resetForRun` is one step. The scan of `node.Prev` is one step: within a Run
that nobody disturbs settled states do not change, so the scan takes effect at its last
read. The channel operand of a send is evaluated when the send is reached, which is where
Go evaluates it.

`clean` is a history variable: it is true until a Run starts while a goroutine of an
earlier Run can still write something the new one reads (`Quiet`), or on a graph with nodes
`resetForRun` does not reach (`Reusable`). Properties of the form "clean => ..." say what a
Run guarantees when the caller waits for the previous one to leave nothing behind; the
first Run on a Scheduler is always clean. The disagreements below are what happens otherwise.

### MessageBus

One key of the bus. The goroutine of `Register` is `Receive`, `Appended`, `RLock`,
`Broadcast`, `StartClosing`, `CloseConsumer`; a Subscribe call is `Subscribe`, `Lock`,
`RangeHistory`, `Replay`, `SubscribeReturns`; producer and consumers are external.
The lock `queue.mu` is a function of the program counters (`ReadLocked`, `WriteLocked`).
Where the code reads a slice without the lock while another goroutine appends to it, `Racy`
chooses between the old slice, the new one, and the new length with an element not yet
stored. `Subscribe` reads the map of queues without its lock: while `Register` assigns to
it, the read sees either version or the runtime stops the process. A panic ends the
behaviour. The model keeps messages apart by number and abstracts their content.

### IdRing and IdQueue

`IdQueue` states what the ring is for: a sequence of different ids with the result of every
operation. `IdRing` has the buffer, head, size and index of the code, positions from 0.
`PushBack` is three actions (`PushGrow` when `ensureCapacity` moves the elements,
`PushFits`, `PushAgain`), `Remove` is the rebuild the code performs: all values but one are
pushed into the emptied ring. The refinement mapping is the window from head on (`Content`).
The calls are made under the lock of the memory that owns the ring, so an operation is one
step. The buffer's minimal size, 16 in the code, is the constant `MinCap`.

### ShortTermMemory

The memory on top of the ring, which it uses through the operators of `IdQueue`, and of a
store. The repository has an interface for the store (`StoreManager`) and no implementation
that fits it (`inmem` and `pgvector` have another `Add`), so the store is external: a map from
ids to expiry times, each of whose calls succeeds or fails, and a call that fails may have
taken effect. A call of the memory holds its lock throughout; its steps are its calls of the
store: `CleanupScan`, `CleanupDelete` (`cleanupExpiredLocked`), `AddItem`, `Trim`
(`trimLocked`), `GetItem`, `ListItems`; `Update`, `Delete` and `Clear` are one step.
Time is a counter that a call reads once. `doubtful` is a history variable, the ids whose last
change in the store failed, and so is `late`, the ids that calls of Add pushed since one last came
to trimming. `pre` holds the order that an Add should lead to, computed from
the state before it in one go (`WindowAfter`), the reference for the loop of the code.
Content, topics and metadata are abstracted: an Update changes neither expiry nor order.

### Session

One `Session` shared by the callers of a process. `Save` is `SaveDump` (fields copied under the
read lock), `SaveSnapshot` (the scheduler's state, without it), `SaveKey` (the id, under the
lock again) and the store: `SQLiteSave`, one upsert, or `FileOpen` and `FileWrite`, since
`os.WriteFile` truncates and then writes. `LoadFromStorage` reads, then `LoadRefuses` or
`Load`, which replaces the fields and may then fail in `Scheduler.Restore`.
`Scheduler.Snapshot`, `Scheduler.Restore` and `SchedulerState`, on which `session.go` is built,
do not exist in `src/schedule` at this commit; `Snapshot` and `Restore` are therefore external,
modelled from how `session.go` and its test use them: one returns the scheduler's state, the
other replaces it or fails, with or without effect. `UserID` says whom a session is made for;
`NewSession` and `Save` accept a blank user and `Load` refuses its payload (`Loadable`). A
blank id does not occur, since `generateSessionKey` never returns one. `Crash` ends the process
at any step; files stay as they are. `Payloads` is what a session saves, `Trim` and `Refilled`
are the loops of `Buffer.trim` and of `Load`. `log`, `tainted` and `spoiled` are history
variables: the whole conversation, whether a payload mixes sessions, and which files were cut
into.

### MemoryStore, InMemoryStore, PgvectorStore

`MemoryStore` is what a store promises: a map from ids to contents per user, of bounded size;
an error answer may hide a change that was made. `InMemoryStore` has one action per operation,
under the store's lock. In `PgvectorStore` an Add is `AddStart`, which decides the `WHERE` of the
statement on its snapshot, and `AddEnd`, which applies the conflict clause to the row as it
is then (read committed, the default of a transaction); a statement may fail after it took
effect. `Live` is what queries see, `Visible` the refinement mapping.

### LongTermMemory

The manager over the long-term memory over the episodic memory over `InMemoryStore`. Operations
are sequences of calls of two memories; clients interleave between them. The semantic and the
short-term memory are interfaces in the repository and hence external: a set and a counter
whose operations may fail with or without effect. The store behind the episodic memory needs an
adapter the repository does not have (`InMemoryStore.Add` lacks the signature of
`StoreManager.Add`); the model takes the obvious one. `call` holds the operation of each client
(`Operation`): the items of a batch still to do (`BeginItems`; a call without items returns at
once), the ids of a removal, and `err1`, the error that `Delete` keeps while it calls the
second memory. `gone` (every id for which `Delete` or `Clear` returned nil and which nobody has
added since), `hidden` (those of them for which `Delete` returned nil although the semantic
memory had failed) and `fresh` are history variables.

### GraphStore

Nodes and relationships of all users in one database. `AddEntity` matches, and `MergeCreate`
creates when nothing matched: `createIndexes` makes indexes and no uniqueness constraint, so
another client's creation can come between. `AddRelationship`, `DeleteEntity` and `ClearAll` are
one transaction each. `GetStats` is `GetStats`, `StatsQuery` per counter in any order (a range
over a map), `StatsReturn`. `FindRelatedEntities` and `GetEntityRelationships` are operators, the
sets of paths and relationships their queries return. `dirty` is a history variable: a write
for the user came between two counts.

### Agent, ToolRegistry, MCPClient

`ToolRegistry`: `Register` is `RegisterCheck` (`Count` under the read lock) and
`RegisterStore`. `MCPClient`: `ensureInitialized` and the request of a call, with a server that
may restart in between. `Initialize` succeeds or fails with an error whose text has "already"
in it, which the code takes for success whatever it is about; so the second outcome is possible
whether the server knows the session or not. `restarted` and `misled` are history variables:
the callers whose server restarted, or answered with such an error and no session, during their
call. `Agent` composes them with one `Run`: `ListTools`, `NextRequest`, `Answer` or
`ToolCalls`, and per call `BeforeCall`, `GetTool`, `Execute`, `AfterCall`. The loops of the two
agents differ in prompt and name of the limit only, which are not modelled. Model, tools and
hooks are external: any result, any error. `run.toolMap` is the set of tools that were offered,
`removed` a history variable: the names unregistered since.

### ToolCalling, ChatStream, ToolStream

`ChatStream` is the goroutine of `OpenAIChatModel.Stream`: `Chunk` (accumulate, record the
index mapping, a partial response), `Deliver` and `GiveUp` (the two cases of the select),
`StreamEnd`, `StreamFails`; the server's deltas (up to `MaxDeltas` in a chunk), the accumulator
of openai-go and the deadline are external. `generateToolCalls` is the loop of the code over
the places of the accumulator, as a recursive function. `ToolStream` has both ends of
`NewStream`: `SendCheck` and `SendSelect`, the two looks of `send` at the closed channel,
`Recv`, `RecvEOF`, `Close`. `ToolCalling` is the program around them, in both modes: `Turn`,
`Generated`, `RangeNext`, `RangeEnd`, `ExecuteTool`, `StreamExecute`, `Receive`, `CloseReader`
and the error returns. `ConvertToOpenAIMessages` is modelled by what it makes of the roles and
ids that the API checks.

## What TLC checks

| run | instance | shows |
|---|---|---|
| `graphs` | each healthy graph over three normal nodes, alone or behind a conditional node with two branches, and eight named shapes (fork, join, doubled edge, dangling branch, branch, merge, skipped fork, nested condition); on the four plain ones a second Run at any moment after the first returned | `TypeOK`, `Precedence`, `SkipSound`, `SuccessSound`, `ErrorSound`, `NoLostNode`, `TerminalStable`, `RunReturns` |
| `rerun_branch` | two Runs on a graph with a branch | a violation, see below |
| `bus` | two subscribers, three messages | `NothingMissed`, `InOrder`, `OneDuplicate`, `RealtimeOnce`, `EofComplete`, `Delivery` |
| `bus_panic` | one subscriber, one message | a violation, see below |
| `ring` | five ids, three slots | `RingSound`, `Implements` |
| `shortterm` | four ids, capacity two, batches of up to two items, two failing store calls | `Agreement`, `CapacityKept`, `Window`, `FreshResults` |
| `session` | two callers, two processes, three Saves or Loads, three messages, budget of two tokens, a user and a blank one | `HistoryIsWindow`, `StoredCoherently`, `UnloadableOnlyBy` |
| `pgvector` | two clients, three contents, limit one, with and without soft deletion | `LimitExceededByClients`, `Implements` |
| `memory` | two clients, two users, two contents, limit one, batches that fail in the middle | `GoneStaysGone`, `ImplementsStore`, `OthersOnlyGrow` |
| `graphstore` | two clients, two users, three entities, three nodes, three relationships, paths of two | `DuplicatesByClients`, `ReadsRight`, `StatsCoherent` |
| `agent` | two rounds of up to two calls; two goroutines, four tools, two of them of one name, a registry for one | `LimitExceededByCallers`, `SessionFresh`, `Answered`, `OfferedOrRemoved`, `RunReturns` |
| `toolcall` | both modes, two turns, three tool names, indices up to two, three chunks, up to three deltas in each, streams of up to three numbers through a channel of one | `ResultsComplete`, `CallsAssembled`, `OneOutcome`, `EverythingEnds` |

What the properties say:

- `Precedence`: a node leaves `pending` only when all its predecessors have settled.
- `SkipSound`: skipping is exactly the propagation of unselected branches.
- `SuccessSound`: when Run returns nil the end node has settled and nothing it depends on
  failed or still executes. `ErrorSound`: an error comes from a failed node of this Run.
- `TerminalStable`: within a Run an outcome is final, although skipping is a plain store.
- `NoLostNode`: when the control goroutine waits and nobody executes, no node is left
  pending with all predecessors settled.
- `RunReturns`: a clean Run returns, with or without a failing node.
- `NothingMissed`, `InOrder`, `EofComplete`, `Delivery`: whenever a consumer subscribes, it
  gets every message, in order, before the end of its channel. `OneDuplicate` and
  `RealtimeOnce` bound what goes wrong: one surplus message over a consumer's life, and
  none that was sent after Subscribe returned.
- `RingSound`, `Implements`: window, free slots and index agree; the ring is a queue.
- `Agreement`: ring and store have the same ids but for those whose last change in the store
  failed. `CapacityKept`: between calls the capacity holds for all ids but those that Adds have
  pushed and, having failed, not come to trim; the next Add that does come to it makes up for them.
  `Window`: an Add that meets no failure leaves the last `Capacity` of what was alive followed
  by what is new. `FreshResults`: nothing expired is returned, except by a Get of an item whose
  deletion failed earlier.
- `HistoryIsWindow`: across appends, saves, loads and restarts the history is the longest end
  of the conversation within the budget. `StoredCoherently`: a payload is stored under its own
  id with its own scheduler state, unless another session was loaded between the two critical
  sections of `Save` or a `Load` failed half-way. `UnloadableOnlyBy`: `Load` refuses
  what is stored under an id only if the session was made for a blank user, if another session was
  stored there as above, or, in a file store, while it is written or after a crash, failed write or
  second writer.
- `LimitExceededByClients`, `LimitExceededByCallers`: check and insertion are not one step, so the
  limit is exceeded, but by less than the number of concurrent callers.
- `Implements` of `pgvector` and `ImplementsStore`: the store is a `MemoryStore`.
- `GoneStaysGone`: an id for which `Delete` or `Clear` returned nil and which nobody has added
  since is in neither memory, with one exception that the code makes: a `Delete` whose semantic
  half failed returns nil when the episodic half did not, and the item may stay in the semantic
  memory. `OthersOnlyGrow`: an episodic memory never removes items of another user.
- `DuplicatesByClients`: an entity has at most as many nodes as clients add it at once.
  `ReadsRight`: paths and directions are right although the queries restrict only the ends of
  a path and compare ids that duplicates share. `StatsCoherent`: the counts are those of one
  graph unless a write came between them.
- `SessionFresh`: an MCP request meets a server that has forgotten the session only if the
  server restarted during that call, or answered its Initialize with an error about something
  else that says "already"; the next call of every user initializes again. `Answered`: a
  request never holds a tool call without its answer. `OfferedOrRemoved`: an offered tool is
  "not found", or a tool of the same name is run in its place, only if somebody unregistered
  the name.
- `ResultsComplete`: every call has its result, in order, and a streaming tool's result has every
  chunk. `CallsAssembled`: the final response lists the announced calls once, in the order of
  the server. `OneOutcome`: a final response or an error, never both or none. `EverythingEnds`:
  the program returns and no goroutine is left.

Bounds, and why they are enough. Three normal nodes give every way in which two predecessors or
two successors interleave, and a conditional node with two branches every way in which a
skipped and a finished branch meet; `DoneCap` is the code's 100, which these graphs never
reach. "Healthy" excludes graphs whose end node depends on a node that is never entered: there
Run waits for ever, as it must. Two Runs are enough for the first to disturb the second. Three
messages let one be in history, one in flight and one in the producer's channel; `Buffer` is 3,
so that broadcasts meet full channels, and not smaller than `MaxMsgs`, because a longer history
blocks Subscribe. A ring of three slots and five ids wraps, grows to six slots and wraps again.
Four ids at capacity two, in batches of two, give repeated ids in a batch, ids added again, an
Add that trims an item of its own batch, and, after failed Adds have left four ids in the ring,
a trimming of two; batches of three with four ids take longer than five minutes; two failures
are the least with which a read fails and the deletion that follows fails too. Two callers of a
session are the least that overlap in a file; three Saves or Loads allow save, load by another
process, and save again; messages are of one token or exceed the budget of two alone. With a
limit of one, two clients and three contents (or tools) there is one more than the bound
allows, so the bound can be missed. Three entities give paths with a node in the middle; three
nodes allow a duplicate next to another entity; a single counting client (`MaxReaders`) is
enough, as counting disturbs nobody. Two calls per answer and two rounds give a second call
after a failed one and a request after an answered one; two tools of one name let one replace
the other between `List` and `Get`. Three deltas in a chunk are one per index. A channel of one
for streams of three fills while the reader is away. Ids, callers, clients and users are
symmetric where only safety is checked. Deadlock is not checked for scheduler, bus, agent and
tool calling, whose behaviours end by design; it is for the others.

Fairness. `Scheduler!Fairness`: every goroutine that can take a step takes one, node functions
return, and a `select` with a ready case proceeds: the Go scheduler is preemptive and channel
waiters are queued. No fairness on `Run`: nobody need call it. `MessageBus!Fairness`: the same
for the goroutine, for Subscribe calls and consumers, and strong fairness for taking the
write lock, since a waiting writer of `sync.RWMutex` blocks later readers. The producer need
not send and nobody need subscribe. `Agent`: Run takes its steps, that is, model, hooks and
tools return. `ToolCalling!Fairness`: the program and the goroutine of a stream are scheduled,
the deadline of the context passes, and the transport reports a cancelled context; the
server need not answer. The other modules state safety only.

Each property of a passing run has a mutant, a plausible error in the modelled code, which
makes TLC refute it.

## What is proved

`SchedulerProofs`, for every set of nodes, every set of graphs that satisfy `IsGraph`, every
capacity of `done` and every number of Runs, from `SchedulerAssumption`:

- `TypeCorrect`: `Spec => []TypeOK`. `TypeOK` alone is not inductive: the loops index
  `node.Next`, so it is proved with `Positions` (loops stay within the slice).
- `InductiveInvariant`: `Spec => []Inductive`. The parts: `Undisturbed` (while clean, earlier
  Runs are quiet, later ones have not begun, and goroutines send on the channels of their
  own Run), `GoroutineSound` and `BranchSound` (program counters agree with node states; the
  branches a conditional loop has not reached are pending), `QueueSound` (what is in `done`
  has settled), `Precedence`, `SkipSound`, `VirtualSkip` (the branches of a skipped
  conditional node are pending or skipped) and `OutcomeSound` (what is in `finished` and `err`
  is justified).
- `PrecedenceHolds`, `SkipSoundHolds`, `SuccessSoundHolds`, `ErrorSoundHolds`,
  `TerminalStableHolds` follow from it.
- `NoLostNodeHolds`: `Spec => []NoLostNode`, with one more invariant, `Awake`: for every pending
  node whose predecessors have settled there is a predecessor that attends to it, that is,
  its goroutine has still to send on `done`, or it is in `done`, or the control goroutine is at
  work on it and has not passed the node. `AwakeStep` reduces each action to two questions: who
  attends goes on to attend, and who settles in the step attends.

The argument: in a clean Run every step that changes states moves nodes from pending or
running to an outcome or from pending to running (`Evolves` in the proof module), one
at a time, and only when the predecessors have settled. Such steps keep `Precedence`,
`SkipSound` and `VirtualSkip` (lemmas `EvolvesPrecedence`, `EvolvesSkipSound`,
`EvolvesVirtualSkip`), so that each action only has to be shown to be one of them. The
delicate case is `ScheduleSkip`, a plain store: a node whose predecessors are all skipped
cannot have started, because a started node has a finished predecessor (`SkipSound`).

`RingAndLongTermProofs`, first part, for every set of ids and all capacities, from
`RingAssumption`:

- `RingSoundHolds` and `RingTypeCorrect`: the conjunction of `TypeOK` and `RingSound` is
  inductive; the arithmetic of the wrap is in `PosBijective` and `PosFacts`, and growth and
  removal are both instances of one lemma about a ring rebuilt from a list of ids
  (`InvRebuilt`).
- `RingImplementsQueue`: `Spec => Implements`; every operation of the ring is the same
  operation of the queue (`RefineNext`).

`RingAndLongTermProofs`, second part, for any clients, users, contents, batches and limit, from
`InMemoryAssumption` and `LongTermAssumption`:

- `LongTermInvHolds`: `LongTermSpec => []LongTermInv`. `GoneStaysGone` is not inductive: between its
  two removals an operation has emptied one memory only and nothing is recorded as gone. The
  invariant adds `OperationsGood` (once the semantic memory has removed the ids of an operation,
  those that nobody has added since are not in it) and `MapsGood` (what a user has in the store is
  a map over contents). `MapsStep` says of every step which ids it may add to the store.
- `GoneHolds`: `LongTermSpec => []GoneStaysGone`, a conjunct of it.
- `OthersHold`: `LongTermSpec => OthersOnlyGrow`, an action property, from `MapsStep`.
- `StoreImplemented`: `LongTermSpec => ImplementsStore`. `StoreEffect` lists the five effects and
  answers an episodic step can have; each is a step of `MemoryStore`, and the bound is kept
  because the lock makes the comparison with the limit and the insertion one step.

`ShortTermMemoryProofs`, from `MemoryAssumption`:

- `MemoryTypeCorrect` and `AgreementHolds`: `TypeOK` and `Agreement` are inductive together
  with `CallOK`, which says what a call has left to do at each of its steps (without it a
  call could end with an expired id still to be deleted). The lemmas `RemovedEffect`,
  `PushedEffect` and `TailEffect` say what the operations of the queue do to the set of its
  ids, and `AgreementStep` that a step about one id keeps the agreement on all the others.
- `CapacityHolds`, `ResultsAreFresh`, `WindowHolds`: from `Strong`, which adds to the former
  `CallKind` (which call a phase belongs to), `Size` (outside the trimming loop, what is not
  `late` fits the capacity: `SizeStep` for the steps, `MembersBound` for the end of the loop),
  `DoubtCounted`, `Cleaned` (what the cleanup has not listed has not expired) and `Due` (at
  each step of an Add, the window it should lead to is what the rest of the loop makes of the
  order at hand). `WindowHolds` rests on lemmas about the loops (`SelectedDrop`, `KeptRemoved`,
  `GrownStep`, `LastNTail`): removing the expired ids one by one, appending one by one and
  trimming one by one come to the same as selecting, appending and cutting at once.

`MessageBusProofs`, for any subscribers, capacities and number of messages, from `BusAssumption`:

- `NoMessageMissed`, `DeliveredInOrder`, `OneDuplicateOnly`, `RealtimeDeliveredOnce`,
  `EofMeansComplete`, from one inductive invariant. `Log`: history and producer channel hold what
  was sent, in order. `Roster`: who is in `consumers` and who is left in the loop of the
  broadcast. `Deliveries`: what a consumer has received, has in its channel and is still to be
  replayed has a `Shape` given by two numbers, how much history its Subscribe found and whether
  the last message of that is broadcast to it as well; the five properties are read off it. A
  step that panics (`bus_panic`) is the last and leaves the deliveries as they are.

`SessionProofs`, for any callers, messages, tokenizer and budget, from `SessionAssumption` and
`StoreAssumption` (the marks for an absent or unreadable file are not payloads):

- `HistoryHolds`: `Spec => []HistoryIsWindow`. Every session in memory, in a call or in the store is
  `Good`: its history is the window of its conversation. `WindowAppend` says that appending to
  a window and trimming gives the window of the longer conversation; `RefilledFitting` that `Load`,
  which trims once per message, gives back what was saved, since every prefix of a fitting history
  fits (`PrefixFits`).
- `StoredHolds`: `Spec => []StoredCoherently`, because a copy that no Load has overtaken is of the
  session at hand (`CallGood`), so that the scheduler's state and the id read later belong to it.
- `UnloadableHolds`: `Spec => []UnloadableOnlyBy`, with `Files` (a file that is open is as its
  one writer truncated it, or it is spoiled) and `CutOnly` (what cannot be read is in a file
  that is open or spoiled); that a readable payload has the user of its id, or is tainted, is
  `StoredHolds`.

`PgvectorStoreProofs`, for any clients, users, contents and limit, from `PgvectorAssumption`:

- `TableTypeCorrect`: `Spec => []TypeOK`.
- `LimitHolds`: `LimitExceededByClients` is inductive given the type, because it counts what
  admitted statements are about to write together with what is visible: writing then adds
  nothing, and an admission happens only below the limit, when at most one content per client
  is on its way (`PendingBound`).
- `PgvectorIsMemoryStore`: `Spec => Implements`. `VisibleUpserted`, `VisibleUpdated` and
  `VisibleErased` say what each statement does to what is visible; `RoomForPending` derives from
  `LimitHolds` that the abstract store has room for an admitted content.

`ToolUseProofs`, first part, for any callers, tools and limit, from `RegistryAssumption` and
`AgentAssumption`:

- `RegistryLimit`: `Spec => []LimitExceededByCallers`, by the same argument with `RegistryTypeOK`.
- `SessionStaysFresh`: `Spec => []SessionFresh`, which is inductive: every call initializes for
  itself, so a caller that is ready and neither `misled` nor `restarted` has a server that
  knows the session.
- `EveryCallAnswered`: `Spec => []Answered`. `InConversation` says that between two requests the
  messages are an answer of the model followed by one tool message per call that is done, in
  order, and that the others are still to do.
- `OfferedIsFound`: `Spec => []OfferedOrRemoved`, with `ListedOrRemoved`: what `List` returned
  is in the registry under the trimmed name or was unregistered since, and so `Get` returns
  that tool, not another of its name.

`ToolUseProofs`, second part, for any turns, tool names, indices, chunks, lengths of streams and
capacities of channels, from `ChatStreamAssumption` (the mark for no response is not a response),
`StreamAssumption` (the error chunk is not a number) and `ToolCallingAssumption`:

- `CallingInvHolds`: `CallingSpec => []CallingInv`. The parts: `GenGood` (the final response
  lists what the accumulator holds; the index mapping, where it is defined, is the identity;
  errs is filled only on the way out), `Phases` (where program and goroutine of `Stream` are
  relative to each other), `OutGood` (one result so far per call, each complete), and `Reading`
  with `StreamGood` (what the reader has, what is in the channel and what the writer has still
  to send are the numbers in order; io.EOF comes after the last).
- `AssemblyHolds`: `CallingSpec => []CallsAssembled`. `GenerateLists` says what the loop of
  `generateToolCalls` returns: the calls that exist, in the order of their places.
- `ResultsHold`: `CallingSpec => []ResultsComplete`. `ConversationIs`, `ConvertedIs` and
  `ResultsFollow` compute the messages of the next request from calls and results.
- `OutcomeHolds`: `CallingSpec => []OneOutcome`, from `Phases`.

`GraphStoreProofs`, for any clients, users, entities and nodes, from `GraphStoreAssumption`:

- `DuplicatesBounded`: `Spec => []DuplicatesByClients`, which is inductive given the type,
  because it counts the creations under way: a client creates only what it found missing, and
  at that moment at most the other clients are about to create it.
- `ReadsOfOneUser`: `Spec => []ReadsRight`, with `JoinsOneUser`: a relationship joins nodes of one
  user. That paths of any length then stay with the user is an induction over their length.
- `StatsOfOneGraph`: `Spec => []StatsCoherent`; every write for a user marks the counts under way.

What a recursive definition computes (`TokenCount`, `Trim`, `Refilled`, `Paths`, `Selected`,
`Grown`, `generateToolCalls`) is proved in two steps, since the induction theorems of the
library cannot be instantiated here: that the recursive function exists, and then the fact
itself, both by considering a least counterexample (`LeastNumber`, `NumbersUpTo`, from the
well-foundedness of the natural numbers).

Only model-checked: the liveness properties `RunReturns` (of the scheduler and of the agent),
`Delivery` and `EverythingEnds`, since the prover supports neither fairness nor ENABLED.

## Where the code and its comments disagree

Shown by runs that expect a violation:

- `rerun_branch`: conditional nodes are not in `s.Graph`, so `resetForRun` leaves them
  finished, and a second Run on a graph with a branch never returns.
- `bus_panic`: the closing loop closes a channel to which Subscribe is still replaying.

Met while modelling, without a run of their own.

Scheduler and bus. A node left executing by a failed Run stores its state into the next Run,
which can then report success while its own execution of that node is in progress, or wait for
ever (shared states, `graph.go:219`): `SuccessSound` and `RunReturns` are therefore stated for
clean Runs. A node with two skipped predecessors is sent to `done` twice, so that seven skipped
forks in a row multiply to more than 100 messages and block the control goroutine on the
channel only it drains (`graph.go:258`). A message appended to history before the broadcast
takes the lock is replayed and broadcast to a consumer that subscribes in between
(`context.go:81`); `OneDuplicate` says it happens once at most. The comment at `graph.go:191`
says that only the main goroutine sets states, but node goroutines do (`node.go:53`, `58`); the
comment at `graph.go:242` says that a node with a failed predecessor is marked failed, but
`scheduleNode` leaves its state alone; a channel subscribed after the producer closed is never
closed (`context.go:111`); after a failed deletion `ShortTermMemory.Get` can return an expired
item, although the type promises "TTL auto-expiry" (`short_term.go:11`), and `IncludeExpired`
of `List` has no effect, since expired items are deleted first; Subscribe blocks with the lock
held when history is longer than `DefaultChanMaxBuffer` (`context.go:115`); it also reads
`c.queues` without the lock of `Set` and `Register` (`context.go:97`).

Stores. `pgvector.go:146` speaks of "an upsert with a CTE to ensure atomicity"; the limit can
be exceeded all the same (`LimitExceededByClients`). `base.go:11` asks `Add` for an error when
the limit is exceeded; the in-memory store also refuses to overwrite an item it has when it is
full. `base.go:21` promises `List` in the order "oldest -> newest"; both stores return the
newest first, and the in-memory store with a limit takes any entries and sorts those. Deleting
an id that does not exist is an error in memory and a success in PostgreSQL. Neither store has
the signature of `StoreManager.Add`. `NewPgvectorStore` does not use its parameter `dimension`.
`Get` and `List` of the in-memory store hand out pointers to what it holds. `graph.go:213`
speaks of a "unique combination" that nothing enforces: duplicates make every later `AddEntity`
and `AddRelationship` of that entity fail until it is deleted. `SearchEntitiesByName` passes a
blank entity id to `checkEntity` and so refuses every call, while
`graph_integration_test.go:69` expects results. `AddEntity` resets `created_at` on every
upsert.

Memory, session, tools. `Delete` of long-term memory returns nil when the semantic memory
failed and the episodic one did not, and the item can then still be found (`long_term.go:68`);
`GoneStaysGone` states the exception. `AddMessage` of the manager sets no user, so in a store
that keys items by user the message is not where short-term memory looks for it. `session.go`
uses `Scheduler.Snapshot`, `Scheduler.Restore` and `schedule.SchedulerState`, which the package
does not have. A session of a blank user can be saved and not loaded (`session.go:126`). An MCP
client takes every error of Initialize with "already" in its text for success
(`mcp_client.go:116`): a server that knows no session may then get the request. Agents offer
streaming and MCP tools to the model and then refuse to call them. The error response of
`Stream` is reported by the tool-calling program as a missing response. A stream that ends
without a choice makes the goroutine of `Stream` panic, a case `Generater` handles
(`openai.go:704`).

## What is not covered

Not modelled, with the reason:

- sub-graph node: a loop over `Run`, which is modelled, with a condition that is user code; where
  it breaks is the second Run of a graph with a branch (`rerun_branch`);
- key-value stores: one Redis command per method, used by nothing else;
- built-in file tools (`builtin_file.go` is commented out as a whole) and tool schemas (reflection
  over Go types, no state);
- mock model, document chunker, embedding, prompt, message, utilities, entry points and the other
  examples: test doubles, pure functions and formatting, HTTP I/O and wiring without state;
- of the OpenAI client, the conversion of content parts and options; of the MCP client,
  connection set-up, `Close` and the decoding of results; `HealthCheck`, `Close` and the
  methods of the graph store that panic with "implement me".

In the modelled components: cancellation of the scheduler's context is not modelled because
`Run` does not look at it; concurrent calls of `Run` on one Scheduler are outside the model
(the code replaces `s.GraphState` without synchronisation); the graph does not change during a
Run; `Get` and `Set` of the graph context are single accesses under a lock; a second `Register`
of a key returns without effect and is left out. `Promote` repeated stores the same
conversation again: how a semantic memory identifies a summary is up to an implementation the
repository does not have. Isolation levels other than read committed, and failures inside Neo4j
other than a rolled back transaction, are outside the models.
