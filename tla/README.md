# A TLA+ development of eino and its chat example

The repository is **eino**, a Go framework that composes language models, tools
and agents into graphs which run concurrently, stream, can be interrupted and
are resumed from checkpoints; with an example on top of it, a chat server
(`examples/simple-chatbot`) and its web page (`examples/chatbot-ui`). The
modules here model the parts whose behaviour depends on the order in which
goroutines, callers, interrupts and lost connections come, and the parts that
decide what may be built, merged, stored and found again. TLC checks them on
small instances, and TLAPS proves the most important results for all instances.

Contents: 1 inventory, 2 modules and how they correspond to the code, 3 runs,
4 bounds, 5 fairness, 6 proofs, 7 only model-checked, 8 where the code and its
documentation disagree, 9 what is not modelled, 10 what could come next.

## 1. Inventory

About 30 900 lines of Go without tests, of which `schema`, `internal`,
`compose`, `adk` and `flow` hold the logic; `components` are interfaces,
`internal/mock` is generated.

| component (source) | state | operations | interacts with | hard | correct means |
|---|---|---|---|---|---|
| graph run loop (`compose/graph_run.go`, `graph_manager.go`, `graph_call_options.go`) | channels, next tasks, running tasks, received tasks, cancel channel, checkpoint | start, resume, submit, wait, resolve, drain, save | channels, tasks (goroutines), the caller's cancel, the checkpoint store | eager execution, an interrupt while others run, a cancel deadline that races the tasks, retry from an old checkpoint | every task handed out is passed on once or is in the checkpoint; nodes run in the order the edges say; every call returns |
| graph channels (`compose/dag.go`, `pregel.go`, `branch.go`) | per node: values, control and data predecessors, skipped | report values, dependencies, skips; hand out | the run loop | skips over several hops | a node starts exactly when its predecessors have completed or are skipped |
| nested graphs and checkpoints (`compose/checkpoint.go`) | checkpoint in the context and in the store | forward, load, save | run loop of the outer and of the inner graph | which visit a checkpoint belongs to | an inner graph goes on where it was, once |
| serialisation (`internal/serialization`) | registered types | marshal, unmarshal | the checkpoint store, processes of different versions | zero values, pointers, what an interface holds | what could be saved comes back |
| interrupt addressing (`internal/core/*.go`) | the resume information all components of a run share | enter a component, load a checkpoint, save an interrupt | graphs, agents, agent tools, the runner | siblings that load checkpoints, loops that come by again | each interrupted component gets its own state once; exactly the named ones are targets |
| builders (`compose/graph.go`, `chain*.go`, `workflow.go`) | nodes, edges, branches, edges to be validated, the first error | add, append, declare inputs, compile (again) | the run loop | any order of calls, types that come late, compiling after a failure | what compiles is connected, typed and, as a DAG, without cycles |
| field mappings (`compose/field_mapping.go`, `values_merge.go`) | the input that is being made | take, check, merge, assign | workflow edges | the order of a Go map, values held by value | every mapping assigns its own part |
| messages and streams of values (`schema/message.go`, `internal/concat.go`, `compose/stream_concat.go`) | none | concatenate | every streaming component | interleaved tool calls, ends of sources | nothing that a chunk says is lost |
| tools node (`compose/tool_node.go`) | tasks of one message, executed results | run in parallel or in sequence, collect | the graph that runs it, tools | panics, errors and interrupts side by side | results are kept, no saved tool runs again, answers are complete |
| unbounded channel (`internal/channel.go`) | buffer, closed, condition variable | Send, Receive, Close | iterators of agents, message futures | lost wake-ups, close while others wait | an atomic queue |
| streams (`schema/stream.go`, `select.go`) | pipes, the list behind a copy, open sources of a merge | send, recv, close, copy, merge, convert | every streaming component | children that race for the tail, the last to close, blocked writers, panics | order, completeness, independence, release |
| workflow agents (`adk/workflow.go`, `runctx.go`) | position, pending action, lanes | run sub-agents, pass on, break, exit, interrupt, resume, fork, join | sub-agents, session history | several interrupts at once, resuming in the middle of a round | order of events and agents, a whole history, no interrupt lost |
| agent flow, transfer, runner (`adk/flow.go`, `deterministic_transfer.go`, `runner.go`) | run path, session events, checkpoint | run, record, transfer, save, resume | agents | resuming below a transfer, a checkpoint saved while the run goes on | an agent is given the whole conversation; what the user sees can be resumed |
| chat model agent and react agent (`adk/chatmodel.go`, `react.go`, `flow/agent/react`) | messages, iterations left, call to return directly, tool actions | ask the model, run tools, convert | graph, tools node, callbacks | interrupts between two calls of a message | one event and action per call, direct answers, limited turns |
| agent as tool (`adk/agent_tool.go`) | a nested checkpoint | run, resume | tools node, resume information | siblings | as addressing |
| prebuilt agents (`adk/prebuilt`) | values of the session | plan, execute, replan | workflow agents | an error or interrupt between execution and replanning | a step is recorded with its own result |
| middlewares (`adk/middlewares`) | files, messages | write, edit, read, offload, clear | tools of one message at once | a write that fails, results cleared early | every result stays in reach |
| retrievers and indexers (`flow/retriever`, `flow/indexer`) | tasks, stored parts | split, store, rewrite, route, retrieve, fuse | goroutines, document store | one that fails or panics, identifiers | every original found is answered, once |
| chat server (`examples/simple-chatbot`) | sessions, histories, joined sockets | REST and socket handlers | page, eino chain | unlocked reads, handlers of one session at once | whole turns, context kept |
| chat page (`examples/chatbot-ui/app.js`) | session, connection, bubbles, flags | user actions, socket events | server | connection lost in the middle of an answer | one answer per bubble, input comes back |
| callbacks, graph state, runnables, multi-agent host, component interfaces, mocks, server glue, page layout | see section 9 | | | | |

Components interact in three ways: calls in one goroutine (a graph and its
channels), channels (tasks to the run loop, events to an agent's caller,
streams), and shared records (the resume information, a session's history).

What is hard to test in each, at which line, and which property is for it, is
listed under `hazards` in `PROJECT.json`.

## 2. Modules and code

### The graph engine: GraphChannels, GraphRun, Dataflow, Superstep

`GraphChannels` is the pure part. A graph is given by `WriteTo` (data edges),
`Controls` (control edges) and `Branches`; the channels of all nodes are one
record of sets of pairs: `vals` (source, node) for the values that arrived,
`deps` and `data` for what a DAG channel has been told, `skipped`. An operator is one method of the channel manager or of a
channel: `ReportValues`, `ReportDependencies`, `ReportBranch` (with the work
list that carries a skip over several hops as a closure), `ReadyChannels`,
`TakeReady`. `Dag` chooses between `dagChannel` and `pregelChannel`. A value is the set
of sources it was merged from, which is all the properties distinguish.

`GraphRun` is `runner.run` with `taskManager`. `pc` names where the goroutine of
`run` is; an action is what happens between two points at which another
goroutine can be noticed:

| action | code |
|---|---|
| `Start`, `Resume` | the part of `run` before the loop, without and with a checkpoint (`restoreFromCheckPoint`, `restoreTasks`) |
| `LoopAborts`, `Aborted`, `ExceedMaxSteps`, `Submit` | the head of the loop: context done, step limit, `tm.submit` |
| `Finish(n)` | `taskManager.execute`: the node returns, fails, interrupts |
| `Receive(n)`, `SeeCancel`, `Expire` | `wait`, `waitOne`, `waitAll`, `receiveWithListening`, `receiveWithDeadline` |
| `ResolveError`, `ResolveInterrupted`, `NoTaskLeft`, `ResolveCompleted` | after `wait`: `resolveInterruptCompletedTasks`, `calculateNextTasks` and the tests for hits |
| `SaveRerun`, `SaveHit` | after the drain: `handleInterruptWithSubGraphAndRerunNodes`, `handleInterrupt` |
| `CallInterrupt`, `CancelContext` | the caller: `WithGraphInterrupt`, a cancelled context |

The variable `hist` belongs to no code: it records for the logical run (which
goes on over interrupts, and starts again from a checkpoint) what was handed
out, from which sources, and what was passed on; properties and refinements
are about it. `Dataflow` says what the AllPredecessor mode promises with no
channels, batches or checkpoints (a node fires once, when each predecessor has
finished or is skipped, skipped being defined as the least set rather than by
messages); `Superstep` says it for AnyPredecessor (a super step begins when the
one before is complete). `GraphRun` is shown to implement both.

`GraphRunInv` has the inductive invariant `IInv` and `GraphRunProofs` the proofs;
`MCGraphRun` has the three graphs of the runs.

### Building: GraphBuild, ChainBuild, WorkflowBuild, Builders

`GraphBuild` is the builder all three front ends share: one record with nodes,
edges, branches, the edges that wait for a type (`pending`, the code's
`toValidateMap`), the remembered error, and one operator per method that
changes it (`AddNode`, `AddEdgeWithMappings`, `AddBranch`, `Compile`). `Validate`
is one turn of `updateToValidateMap`; where the code ranges over a Go map and the
order cannot matter the model picks one. `Predecessors` and `Strip` are
`validateDAG`, against which `Acyclic` is the definition of a cycle by closure.
A type is one of two concrete ones, `any` or `map`.

`ChainBuild` is `Chain` with its branches and parallels, `addEndIfNeeded`, and the
error that is reported at the end. `WorkflowBuild` is `Workflow`: inputs,
dependencies, static values and branches are declared, and turned into edges
by every compilation in any order of the nodes (`CompileWorkflow`). `AddStep` gives
the key a new `WorkflowNode` (`InitNode`) whatever the graph says of the node. The loops of
the three are `Repeat`, a recursive function of the number of the turn, and not
`RECURSIVE` operators, so that they can be proved about.

`Builders` composes them: one graph, built by the calls of the front end that `cmp`
names, and `BuilderSpec`, which is what the theorems are about. `MCBuild` puts it side by
side with `FieldMapping` and `Messages`.

### Data: FieldMapping, Messages, Serialization

These three are state machines only where order matters. `FieldMapping` takes
fields from what the predecessors returned, checks and merges them, and assigns
them one by one in any order; `assignOne` says for every step down a path whether
reflection can set what is there, sets a copy, or cannot set it. `Messages` reads
a stream to its end and concatenates; nodes upstream that cannot stream may
have concatenated parts of it before. A text is the sequence of its pieces, so
that the property can ask for all of them in order. `Serialization` registers types in two
processes, marshals in one and unmarshals in the other; `Back` says what may be
lost on the way (section 8).

### Resumption: NestedResume, ResumeInfo

`NestedResume` is the path of a nested graph's checkpoint through the context:
the loops of `createTasks` and `restoreTasks` call `forwardCheckPoint` for one
node after the other, and each turn leaves the context for the next. It keeps
of the inner graph how many of its nodes have completed.

`ResumeInfo` is the shared `globalResumeInfo` over a tree of components.
`Enter` is `AppendAddressSegment` (with `Taken`, what it takes from the
information), `Load` a component that loads a checkpoint of its own and calls
`PopulateInterruptState` (graphs, agent tools, the runner), `Finish`, `Return`
and `Fail` are the results on the way up, `Again` is a loop that visits
what is inside it again, `Resume` is the user with any choice of named
interrupts. `MCResume` puts it side by side with `NestedResume` and
`Serialization`, the three things a resumption rests on.

### ToolsNode

`Start` is `genToolCallTasks` plus the launching of goroutines; `Begin` the
next call of `sequentialRunToolCall`; `Succeed`, `GiveUp` and `Panic` are what
a tool does; `CollectError`, `CollectInterrupt` and `CollectAnswers` the three
ends of `Invoke` and `Stream`. A result is the number of the invocation it came
from. `abandoned` counts invocations that outlive the attempt they belong to,
because a panic of the call that runs in the caller's goroutine skips `wg.Wait`.

### UnboundedChan, Mailbox

The mutex makes each method atomic up to `cond.Wait`; `waiting` and `woken` are
the wait list of the condition variable and those signalled who have not got
the mutex yet. `Mailbox` is the atomic queue.

### Stream, StreamMerge, StreamCopy

`Stream` is one pipe as a record and the operators on it. `send` looks at
`closed` first and selects afterwards, so the two are separate actions
(`Send`/`Select`, `PumpSend`/`PumpSelect`). `StreamMerge` holds the sources, the
goroutines of `toStream` (`Pump...`) and the merged reader; `StreamCopy`
composes it with the children of a copy: `Peek` and `Once` (the `sync.Once` of
the element at the tail: one child is inside, others wait), `Fill...`, `Read`
of an element already set, `CloseChild`, and `Panic` of the convert function
inside the once. The hidden linked list is a sequence; a child's pointer is a
position in it.

### Agents: Workflow, SequenceAgent, ParallelAgent, ReactAgent, AgentFlow, PlanExecute, ToolFiles, Retrieval

`Workflow` has what all agents share: the mode that says what kind of agent it
is and stays for good, where its run is, and the resumptions. `Agents` composes
the kinds; each has its own variables.

- `SequenceAgent` is `runSequential` and `runLoop`, whose heart is
  `lastActionEvent` (`pending`), the event held back until it is known whether it
  is the last.
- `ParallelAgent` is `runParallel` with `forkRunCtx`, `addEvent` and
  `joinRunCtxs`: the lanes are joined by time stamps, of which two events may have the
  same, and which an interrupt takes from the events it keeps (`WithoutStamp`:
  `ts` is not exported, and gob leaves it out).
- `ReactAgent` is the loop of a model and its tools of `ChatModelAgent` and of
  `flow/agent/react`: the limits (`left`), the call to return directly (`direct`),
  the action of a tool (`actions`, by the tool's name), the event that the
  callback handler holds back (`held`), and the state that an interrupt saves.
  The tools node is taken with what `ToolsNode` establishes of it.
- `AgentFlow` is `flowAgent` over a tree of agents with the transfers that
  `deterministic_transfer.go` appends, and the `Runner`: `RunAgent` makes the input
  from the session (`genAgentInput`), `Pass` records an event and sends it,
  `TransferTo` runs the next agent, `ReceiveInterrupt` saves the checkpoint while
  the agents go on, `PassOnInterrupt` tells the user. What is saved has lost the roles
  of its messages (`WithoutRole`: the gob form of a `MessageVariant` has none).
- `PlanExecute` is the plan-execute-replan agent as a loop over the values its
  three agents share in the session.
- `ToolFiles` is the two middlewares for results of tools: the calls of a message
  read, write and edit files at once, a large result is offloaded between its
  end and its message (`Offload`), and `Reduced` clears old results before the model
  is asked again.
- `Retrieval` is the multi-query and the router retriever between the parent
  indexer and the parent retriever: tasks at once, one fusion.

### ChatServer, ChatApp

`ChatServer` has the session store and each handler cut where it gives up a lock
or emits: `handleJoin` up to `Get`, `StoreSession` and `EmitJoined`; `handleClear` up to
the look for the session of the socket, `ClearSession` and `EmitCleared`; `handleChat`
up to that look, `GetSession`, the unlocked read of `session.History` as two
loads (`LoadArray`, `LoadLength`; a slice header is several words and the race
detector would report it), the stream, `AppendHistory`, `EmitDone`. `ChatApp`
composes it with the page: the user's actions, the handlers of the socket
events, and connections that are lost and opened again.

## 3. Runs

| run | distinct states | what it shows |
|---|---|---|
| `flow_eager` | 4 474 | a workflow graph with data edges that do not order and a branch that only orders, eager, with failures, interrupts, cancels with and without deadline, an aborted context and retries from old checkpoints: the inductive invariant `IInv` holds, "no tasks to execute" happens only if END is skipped, the run implements `Dataflow`, each call returns |
| `loop_pregel` | 13 877 | a cyclic AnyPredecessor graph with a node to interrupt before, one to interrupt after, a nested graph, interrupting nodes and cancels: no task is lost, both kinds of hit are honoured, the run implements `Superstep` |
| `fork_eager_mixed` | violation | the disagreement of section 8, a task lost between two kinds of interrupt |
| `build` | 388 055 | graphs, chains and workflows built by any sequence of calls, inputs made by field mappings, and streams made one value: the loop check is exact, edges are typed or checked, a chain has no loose ends, every mapping assigns its part whatever the order, no chunk is lost |
| `resume` | 49 907 | a runner, an agent, its graph, a node with two tool calls of which one is an agent tool with two leaves, resumed twice with any named subset, with loops: states come home once, exactly the named leaves go on, nothing interrupted is forgotten; nested graphs of which one interrupts at a time go on where they were; checkpoints come back from the store |
| `resume_pair` | violation | two agent tools that load a checkpoint at once |
| `nested_resume_both` | violation | two nested graphs that were interrupted |
| `tools` | 75 352 | three calls, streamed, parallel or in sequence, three attempts: saved results are kept and their tools are not started again; without failures each tool ran once; answers are complete; only a panic leaves invocations behind |
| `unbounded_chan` | 3 353 | two senders with two items, three receivers: the queue implements `Mailbox`, wakes who it has to, and delivers everything |
| `streams` | 346 250 | two children of a copy of a merge of a plain and a converted source: agreement, order, ends after the last item, a source closed once and last, an eager child not stopped by a lazy one, writers and pumps released |
| `agents` | 359 035 | ten kinds of agent (below), interrupted and resumed |
| `chat` | 332 587 | a page with two connections and two messages, a session that others clear and delete: whole turns, context kept, one answer per bubble, the input comes back |

The properties of `agents`: `EventsInOrder` and `TurnsInOrder` for sequences and
loops; `NoLaneLost` for parallel agents; `ActionsKept` and `DirectReturns` for the
agents of a model and tools (`ChatModelAgent`, `react.Agent`); `CheckpointServes` and
`InputWhole` for agents that hand over under a runner; `StepsOwnResult` for plans;
`ResultsInReach` for the middlewares; `FoundIsAnswered` for the retrievers; `RunsEnd`
for all.

Some properties are conjunctions of parts that are stated and commented one by one:
`CopiesAgree` (`ChildrenAgree`, `NilMeansClosed`, `NotClosedEarly`), `MergedWhole`
(`InOrder`, `EndsAfterAll`), `HitsHonoured` (`BeforeHonoured`, `AfterHonoured`),
`NothingStranded` (`NoLostWakeup`, `NothingLeftBehind`), `EachRunCounts` (`EachRanOnce`,
`OnlyAPanicAbandons`), `StatesComeHome` (`LostOnlyToSibling`, `LaterVisitsStartFresh`),
`NamedGoOn` (`TargetsReached`, `NothingLeftInterrupted`), `NoLaneLost` (`HistoryWhole`,
`InterruptIsLast`), `TurnsInOrder` (`InOrder`, `LastWordCounts`), `ConversationKept`
(`WholeTurns`, `ContextKept`), `InputsAssignedOnce` (`TargetsDisjoint`, `EachTargetAssigned`).

Each property of a passing run has a mutant in `PROJECT.json`: a change to one
definition, as a plausible slip in the code would make it, that the run finds.

## 4. Bounds

- Graph runs: four nodes suffice for a branch, a skip of two hops, a join and
  data that does not order (`FlowControls`, `FlowWriteTo`), and for a loop with
  a second entry (`LoopEdges`). `MaxFaults` = 2 lets one fault happen during the
  drain another caused, which is where the two kinds of interrupt meet;
  `MaxRuns` = 4 leaves a retry after each of two faults and a completed run.
  `MaxSteps` = 4 lets a call go round the loop and end, or exceed the limit.
  `step` restarts with each call.
- Builders: two nodes besides START and END and three edges or branches make a cycle
  through a branch, a passthrough between two typed ends and one typed from
  behind (`MaxEdges`); a graph starts with equal types at both ends, or gives out `any`,
  so that a passthrough can be typed from END and then retyped by a branch. Three steps of a chain allow a parallel, something between and
  a branch. A workflow has one node and END, three declarations (`MaxInputs`), of
  which two mappings may overlap and a branch be compiled twice.
- `FieldMapping`: three mappings of two predecessors into every pair of targets of
  a struct that has a pointer, a map of pointers, an interface, and structs held
  by value in a field and in a map (`MCTypes`, `MCTargets`).
- `Messages`: two or three chunks with tool calls of two indexes, with and without
  identifiers, and breaks between them where a source ends.
- `Serialization`: a struct with fields of each kind, what an interface may hold up
  to two pointers, and registrations in two processes that may clash.
- `NestedResume`: two nested graphs of two nodes, two rounds, three interrupts:
  a graph can be interrupted again after its resumption and visited again after
  it completed.
- `ResumeInfo`: two levels of checkpoints with concurrency on each, three runs:
  what is interrupted again after a resumption is resumed again.
- `ToolsNode`: three calls, the inline one and two others (so that one of the
  others can be still running when the third has ended), three attempts.
- `UnboundedChan`: with three receivers one can take an item that another was
  woken for while a third waits.
- Streams: one place per pipe, so that a second item blocks its writer; at most
  two items per source (`MaxItems`) and three in all (`MaxTotal`), so that each
  source may block, and one be ahead of the other. `PumpCap` is 1 where the code has 5;
  nothing depends on the number but how soon the pump blocks.
- Agents: a sequence has three sub-agents (first, last, between) with three events each,
  two rounds, three runs. `MaxRounds` matters only for a loop without limit. A
  parallel agent has two lanes of two events. A model has two turns and two calls per
  message, of one tool twice or of two. The team is a supervisor with one agent
  that always hands back and one that does not; a conversation is handed over
  at most twice (`MaxPath`). A plan has three rounds. Two or three calls of a message work on
  two paths, in three rounds, so that a result is cleared after it was
  offloaded. Three parts of two documents are stored, two queries or names find up
  to two each.
- `ChatApp`: two connections (one lost), two messages, one chunk each, one
  session; a client takes its events before it lets more than `MaxOut` pile up, which is
  one: more in line only delay what the page sees. `HastyBound` stops behaviours in which a
  clear has overtaken the join (section 8) at the first message and connection, because
  `OneAnswerPerBubble` says nothing of what follows.

Bounds that are not the code's are named `Max...` and marked `bound:` where
they are declared. Unbounded counters of the proofs (`step`, `runs`, `faults`)
have none: the theorems hold for any value of the `Max...` constants.

## 5. Fairness

Only what the scheduler and the libraries give: a goroutine that can take a step
takes one eventually (weak fairness per goroutine). For `GraphRun` also that
nodes return (`Finish`) and timers fire (`Expire`): `run` waits for its nodes
without limit, which is the documented contract. For streams the writers and the
pumps, children inside a call, and eager consumers; nobody has to close, and no
other consumer has to receive. For the agents the agent's own goroutine and, in a
parallel agent, those of each lane; that models, tools, sub-agents and retrievers
end is part of it, because their agents wait for them without limit. For the
queue, receivers inside `Receive` go on (Go mutexes do not starve). For the chat
the server's handlers and the page's event loop; nobody has to send, and the
connection may be lost at any time. No run assumes that a client resumes or
retries.

`RunsEnd` says `[]<>` of a run that is over: it excepts a conversation that was handed
over `MaxPath` times, because nothing in the code limits how often agents hand over
to each other.

`CHECK_DEADLOCK FALSE` is set where a system that has finished has no step:
agents, tools, streams, chat, resume, build.

## 6. Proofs

TLAPS checks the theorems for every value of the constants: any set of nodes, any
edges and branches, any capacity, number of children, calls or attempts.
They rest on the named assumptions where the constants are declared
(`GraphAssumption`, `RunAssumption`, `ChanAssumption`, `MergeAssumption`,
`CopyAssumption`, `ToolsAssumption`, `SequenceAssumption`, `ParallelAssumption`,
`ReactAssumption`, `FilesAssumption`, `RetrievalAssumption`, `ResumeAssumption`, `TreeAssumption`, `NestedAssumption`,
`ChatAssumption`, `AppAssumption`, `BuildersAssumed` and `Literals`),
which TLC evaluates in the runs, on the hypotheses that a theorem names, and on nothing else.
`Literals` says that the names START, END and the types the builder writes down are strings, which
the provers do not know. Each property below is also checked by TLC in a run.

**The run loop** (`GraphRunInv`, `GraphRunProofs`).

- `TypeCorrect`: `TypeOK` is inductive. Most of the work is in the lemmas on
  `GraphChannels`: each method of the channel manager yields channels.
- `HitsCorrect`: `HitsHonoured` follows from `TypeOK` and `HitsAccounted`.
- `InvariantCorrect` and `TasksCorrect`: `NoTaskLost` is not inductive, because a hit is
  *seen* when tasks are made, *acted on* after the drain, and only then
  saved: between the three the tasks are in `nextTasks`, running,
  received, or in one of the lists of what interrupted. `IInv` adds to the type
  where a task handed out is at each `pc` (`TasksAccounted`: the places do not
  overlap and together hold every such task, and a stored checkpoint is
  complete) and what a hit seen earlier promises (`HitsAccounted`). The proof needs
  `Unmixed`: the graph waits for all tasks, or has no before- and after-nodes.
  Without it the theorem is false; that is the first finding of section 8.
- `SuperstepsCorrect`: a step of `GraphRun` is a step of `Superstep` or a stutter, one lemma
  per action (`NextSteps`). `StepsAccounted` is what a step has to know (what branches selected is one of
  their selections, a run saved because of a task to run again is in the middle of a
  super step, one saved after a super step has an empty inbox, an interrupted run is as
  it was saved). The hypotheses: the graph waits for all tasks, because compile
  sets `eager` only for workflows and DAGs (`graph.go:657`); and no retry after a failed call,
  because that goes back to the checkpoint, and a super step never does.
- `StuckCorrect`: an AllPredecessor run that gives up has skipped END. The question is
  whether a channel can wait for something that will never be reported. `ChannelsSettled` says
  exactly what every channel knows: one that has handed out nothing has been told of
  each predecessor that is settled, finished or skipped, and of no other (`Informed`); one
  that has handed out its task does not do so again (`Spent`). From that a closure argument
  over `SkipClosure` (every skip reaches everybody it concerns before the step is over), and at the end
  a minimal-element argument: if nothing is owed, a node that is neither handed out nor
  skipped has a predecessor that is neither (`AllHandedOutOrSkipped`). The hypotheses: `Unmixed`, and
  `Orderly`: everything has a predecessor, and control and data edges together have no cycle.
  Compile sees to the second for control edges (`validateDAG`, `graph.go:1029`); of a data edge
  that does not order, `WithNoDirectDependency` (`workflow.go:192`) says that another path of
  dependencies must exist, and nothing checks it.

- `DataflowCorrect`: a step of `GraphRun` is a step of `Dataflow` or a stutter, one case per
  action (`FlowSteps`). `FlowAccounted` compares what the channels hold with what `Dataflow`
  computes from what has finished and what branches selected (`FlowSettled`): the skipped
  channels are its least set, a channel that has handed out nothing knows of each predecessor whether it
  led elsewhere and holds what was delivered, one that has handed out its task was led
  to. `UpdateFlows` proves that one update of the channels keeps this, and that the skips it reports are all: the
  channels it skips are in every set closed under Dataflow's rule. A step of the loop that makes tasks is an
  `Advance`, one that saves a `Keep`, a resumption, also one after a failed call, a `Back`. The hypotheses,
  besides `Unmixed`: `Ordered`, what takes data depends on something
  (what `WithNoDirectDependency` asks for); and `Separate`, no edge leads where a branch of the
  same node leads. Nothing in compile refuses such a graph, and there the theorem is
  false, as TLC shows on three nodes: a node that leads to d by an edge, and to c and d by a branch that selects c,
  reports to d that it is skipped and that it has completed, in this order; `calculateBranch` (`graph_run.go:839`)
  forgives only nodes that another branch selects. If all else that leads to d is skipped, the skip
  wins and d never runs, though an edge leads to it.

TLC checked `StepsAccounted`, `SettlesAccounted`, `FlowAccounted`, `Orderly`, `Ordered` and `Separate` as invariants
on the graphs of the runs before they were used.

**The unbounded channel** (`UnboundedChanProofs`).

- `FifoCorrect`: sent = received followed by the buffer, so order, no loss, no duplicate.
- `StrandedCorrect`: no wake-up is lost. `Signal` wakes one receiver, which may find the buffer
  empty because another took the item; the invariant counts: while receivers
  sleep there are at least as many woken ones as items, and a receiver that
  takes an item leaves at most one fewer of either. That one who was told of the end left
  nothing behind also needs `FifoCorrect`.
- `Implementation`: every step is a step of `Mailbox` or a stutter, under the refinement
  mapping of `UnboundedChan`; its lemmas are one per action.

**Copies of a stream** (`StreamCopyProofs`). `CopiesCorrect` for any number of
children, sources and places. The invariant has five parts: types; the elements of
the list are what was delivered, and an end or a hole comes only last
(`Elements`); what a child got is the part of the list before its pointer
(`Place`); one child at most is inside the once, and it is at the tail (`Turn`);
the count of closed children never exceeds the closed children, and the source
is closed at most once, by the last (`Counted`). The step that matters is that a child inside the once
came past every element, so that no element before it ended the list.

**Merged streams** (`StreamCopyProofs` too, because a merge is proved as the source of a
copy). `MergeCorrect` for any sources, writers, capacities and convert functions. An item
sent is at every moment in one of four places: delivered, in the stream the
reader selects from, in the hands of the pump of `toStream`, or still in the writer's stream. `Written`
says that the last is the tail of what was sent, `PumpAt` for each point of the
pump's loop exactly which items have passed it, `Queued` that the
stream the reader selects from has what is due next, in order; and `NoMore`
that a source leaves `nonClosed` only when its writer has ended or its convert function
panicked. "Due" excludes what `ErrNoValue` drops and what comes after a panic.

**The tools node** (`ToolsNodeProofs`). `SavedCorrect` (an action property) and
`SettledCorrect` from an invariant that says that, while the node runs, the calls an
earlier attempt completed are marked executed with the saved result. `RunsCorrect`
relates three records: while no attempt failed, a call is executed exactly
if it completed, with the result of its last invocation; and unless
the inline call panicked, tools run only while the node does.

**Workflow agents** (`AgentsProofs`), for any number of sub-agents, events, rounds, lanes
and resumptions, over the composition `Agents`.

- `EventsCorrect` and `TurnsCorrect`: `SequenceInv` says that while a sub-agent sends, what
  was passed on is all its events but the one held back (`Held`), and where the
  loops are relative to the sub-agent last started (`Position`): behind it, at the
  beginning of the next round, or at it because it interrupted and will be resumed.
- `LanesCorrect`: `Lanes` says that what was recorded is in the lanes while the agent
  runs and in the checkpoint while it is interrupted, there without time stamps; `Readers` that a goroutine of
  the workflow that has ended left nothing in its inbox and noted an interrupt. The join is any ordering of a
  finite set that respects the time stamps, of which those of kept events are before all others; that such an ordering is whole is the pigeonhole
  principle (`OrderingWhole`).

**The other agents** (`AgentsProofs` too: `KindKept` says that an
agent of one kind leaves the state of the others alone).

- `StepsCorrect`: `TurnOf` says which result is in the session at the turn of each of the
  three agents, and whose it is; `FirstSteps` that a checkpoint is from before the
  first step (because of the type that is not registered, section 8). A resumption
  restores such a checkpoint, and what was planned since is behind it (`made`).
- `DirectCorrect`: `Chosen` says at every point of the loop where the call to return directly
  comes from: a message is given to the model only if it chose none, and the choice
  survives the state that an interrupt saves. `TurnsCounted` adds the turns of all runs.
- `ActionsCorrect`: each call that ended has one event (`EventsSent`), which the
  handler holds if it is the one to return directly (`EventHeld`); an action waits under
  the name of its tool until that call ends (`ActionsWait`). `cut` has the calls that
  ended before an interrupt: what the handler held for one of them is gone.
- `CheckpointCorrect`: events are numbered as they are recorded, and at every moment those the user has
  got, the one in the hand of the Runner and those on the way up come in that order
  (`Numbered`), and all that were passed on are in the session (`SessionWhole`); so when the
  Runner saves the session it has what comes before the interrupt, although the agents
  below go on.

- `InputCorrect`: the events of a session are in the order of their numbers, and each
  transfer comes directly after the message that called for it (`Ordered`), in the session, in
  the checkpoint, and in what an agent has yet to say (`InputInv`). From that what `genAgentInput`
  does is a fold that appends an event, or takes back exactly what the event before appended;
  so everything else stays. A transfer from before the last resumption has no role, and takes
  back nothing. The hypothesis, `TurnsWhole`, is that no agent calls for two transfers
  with one message: of two the second would take back the first's neighbour, which is the
  divergence of section 8.
- `ResultsCorrect`: `FilesInv` says of each result how it can still be had (`ResultOk`): it is
  there; or its notice names a file that has it, unless the path was written again (`Stored`); or it
  was cleared, and then it is of no excluded tool, and it is of a round the model has
  been given, or what comes after it exceeds `KeepRecent`. Results are numbered in the order of the
  calls (`CallOk`), and calls run in any order. What has to be shown of `reduceByTokens` is that
  its walk from the last message to the first clears only what is behind the budget
  (`ReducedIs`), and for later rounds that the sum after a message only grows (`AfterGrows`).
- `FoundCorrect`: `FoundInv` says what is stored of which parts (`Stores`), that each task has found
  documents of the store, each once, or has an error if it failed or panicked (`Finding`), and
  of a finished answer what it has (`Answer`). The order is shown for each way of fusing.
  Without a router, a document's first place in all results one after the other is in some
  result, so all before it there are before it in the whole (`Gathered`, `FirstOf`). With a
  router, ranks are whole numbers here: every 1 / (60 + place) times the product of all the
  divisors (`Scale`), so that what is before another in every result that has it has a greater
  term in each sum, and a greater rank (`ScaleEnough`, `DividesMore`, `RankedHigher`). In the
  store, two parts have one identifier only if parts of another original are between them
  (`PartsDiffer`).

Recursion over numbers, which these and the builders need, is within reach although the
induction theorems of the library take an operator as parameter: `AllNumbers` derives
induction for *sets* of numbers from the pigeonhole principle, `Within` that what holds
before a loop and is kept by each turn holds after every turn, `Counted` the same for a property
written as a function of the turn, and `Repeated` that a recursive function of the turn is what its definition
says. Each is stated once in the module that needs it.

**Resumption** (`ResumeInfoProofs`), for any tree of components, any loaders, graphs,
loops and order of execution. `StatesCorrect` is about one run: `got` relates what a component found
to what is left in the shared information, whose states are those of the component that
loaded last. `NamedCorrect` is about two: an interrupt is raised at every component on
the way up, so that what a run saves is closed under parents (`SavedUp`); a component
is done only when what it has to run is done (`RunOver`), so that one that is done has
brought home all that was saved inside it (`CameHome`), the root too. `TreeAssumption`
says that everything is below the root and that a graph or the root is not a
leaf: a graph without nodes does not compile, and a root without anything inside would be
an interrupt of its own that no address names. The attempt
showed that an earlier form of `LostOnlyToSibling`, which asked for a sibling that *is running*
a checkpoint, was too strong: a loop may have reset that sibling in between. `loaded` now
records who loaded one in this run.

`NestedCorrect` is about the checkpoint of a nested graph on its way through the context
(`NestedResume`), for any number of nodes, nested graphs and rounds. `CheckpointPlaced` says that it is in one
place: with the node that interrupted, in the store, or taken from it for the one node that
is restored, and that the loop that makes tasks leaves nothing of it for the next;
`VisitCounted` that a step of a visit that is not done was not run in it. The hypothesis is
`OneInterrupts`: no two nodes interrupt before the outer graph saves. It is needed because
`restoreTasks` hands the context of one turn of its loop to the next, and run `nested_resume_both`
shows what happens with two.

**Building** (`GraphBuildProofs`), for graphs, chains and workflows of any size, any types and
any order of calls, failed and repeated compilations among them. The inductive invariant is `BuilderInv`.

- `EdgesCorrect`: `Sound` says that every pair of nodes that carries data, by an edge or by a branch, is
  `Settled`: it waits in `pending`, or its types fit, or one of the two is a passthrough that a branch
  has retyped; that holds unless there is an error, and a graph with an error is never
  compiled. The step that matters is one turn of `updateToValidateMap`: it gives a type to
  a passthrough at one end of a pair, and all pairs settled before stay settled, because
  they were settled with both ends typed, and only what has no type is given one. The first attempt
  failed at a pair whose *source* was retyped by a branch, and TLC found it on
  a graph that gives out `any`; `EdgesFit` now excepts a retyped node at either end.
- `ChainCorrect`: `Linked` says, of sets closed under "leads to" and under "is led to by", that one
  which has START, or the ends the chain goes on from, has every node. Appending keeps this with
  the new ends; `addEndIfNeeded` makes END the end. It is silent about chains that
  were appended to after a compilation that drew the edges to END and failed (`stale`, section 8).
- `DagCorrect`: `Stripped` says of `validateDAG` between two turns that the count of a node is the number of
  control predecessors that are left, and that a set of nodes that wait for each other is never
  touched. A turn removes one node, so that after as many turns as there were nodes nothing
  is free; and what is left then is such a set. Controls from one node by several branches count
  several times, and are taken away as many times.

**The conversation** (`ChatProofs`). `ConversationCorrect` over the server and
the page. A turn is in no history before it was appended, so that appended turns are new
(`Begun`); what was told is in the history while the session exists (`Told`); and the key, `Due`: between the
two loads of an unlocked read a history only grows at its end, or is cleared, after
which nothing is due; so that the array that was read is a prefix of the history and
the length that was read covers all that is due, and if the two fit together
so does the prompt. The page is needed for one fact (`Page`): what it sends is a turn
the user typed. `BubblesCorrect` is about what comes back. Nothing in the events names the
answer they belong to, so that the page depends on the order of what is sent
to it, and on its input being disabled. `PageInv` says why that is enough: at most one answer
is under way on a connection, and while its session exists, or has yet to be joined,
the input is enabled only when there is none; after an event that ends an
answer only "cleared" comes; once the session is gone an error enables
the input earlier, but no chat is answered any more, because a session never comes back.
A `handleJoin` and a `handleClear` of one socket may be at any of their steps. Where a clear overtook
the join (`hasty`) the theorem claims nothing.
A bubble that is streaming has chunks of the active answer only, and a socket is
never used again.

## 7. Only model-checked

- Liveness (`Returns`, `Delivered`, `Independent`, `WriterReleased`, `RunsEnd`, `InputComesBack`):
  it rests on fairness, and the prover does not reason about `ENABLED`.
- `SavedComesBack`, `InputsAssignedOnce`, `NothingLostInChunks`: serialisation, field mappings
  and the concatenation of messages follow Go's recursion over values, types and paths, with
  `RECURSIVE` operators on trees. That needs induction over such trees, and modules with such operators
  are out of the prover's reach.


## 8. Where the code and its documentation disagree

Three have a run that finds them (`findings` in `PROJECT.json`):

1. **A task is lost between two kinds of interrupt** (`fork_eager_mixed`,
   `compose/graph_run.go:345`). In an eager graph a before- or after-hit is found
   after the new tasks were taken from their channels; if one of the tasks
   drained then interrupts or is given up, the completed tasks are resolved a
   second time and `nextTasks` is dropped.
2. **Two interrupted nested graphs** (`nested_resume_both`,
   `compose/graph_run.go:781`). `restoreTasks` overwrites `ctx` in its loop, so the
   second does not find its checkpoint and starts from its beginning.
3. **Two agent tools resumed at once** (`resume_pair`,
   `internal/core/address.go:270`). Loading a nested checkpoint replaces the states
   of the shared resume information; the second tool finds its address with no
   state and fails.

The following were met while modelling. The model behaves like the code and the
properties are stated so that they hold of it, with the exception named where there
is one.

*Graphs and streams*

- A convert function that panics inside the once of a copied stream
  (`schema/stream.go:739`) leaves the element done and without a successor; the
  other children then find nil, which line 691 says means closed. `NilMeansClosed`,
  `Independent` and `WriterReleased` except this case (`CutOff`).
- A nested graph shares the cancel channel of the outer one, which holds one
  message (`compose/graph_call_options.go:58-68`). Whichever loop receives it stops
  within the time limit; the other finds the channel closed, at the line marked
  "unreachable" (`graph_manager.go:467`), and waits for its own tasks without limit,
  where line 46 says "After the max waiting time, the graph will force an interrupt".
- A panic of the call that the tools node runs in its own goroutine leaves
  the other calls running (`compose/tool_node.go:541-545`, `OnlyAPanicAbandons`).
  Two calls with one id share a saved result (line 390; the model assumes unique
  ids, as the comment on line 77 says). A stream that cannot be read to its end when an
  interrupt saves it fails the node (699-702, in `CollectError`).
- A graph that loads its checkpoint marks itself as a resume target whether or
  not any resume data names it (`internal/core/address.go:293`;
  `compose/resume.go:50` says "explicitly targeted"). `Load` does the same; `TargetsReached` is therefore about leaves.

*Builders and field mappings*

- `Chain.addEndIfNeeded` (`chain.go:98`) returns early once the edges to END are there:
  parts appended after a compilation that failed later lead nowhere. `ChainWhole`
  excepts such chains (`stale`).
- `addBranch` (`graph.go:461`) gives a passthrough the type of the condition even if it
  had one, by which edges to it have been validated. `EdgesFit` excepts these (`retyped`).
  A handler of the branch is also added again by a compilation that is retried (`graph.go:691`).
- `checkAndAddMappedPath` (`workflow.go:338`) replaces the map below the first element of a
  path by an empty one, so that of two overlapping deeper paths only some are refused,
  depending on the order (`field_mapping.go:62` says "exclusive mapping");
  the graph's own comparison of targets at compile time finds equal ones (`TargetsDisjoint`).
- A node that is added again to a compiled workflow is refused by the graph, but `initNode`
  (`workflow.go:480`) has replaced its `WorkflowNode` by then: what was mapped is forgotten, and a
  static value for part of a mapped field, or besides a whole input, compiles. Only equal targets are refused, by
  `graph.compile` (`graph.go:680-686`). `TargetsDisjoint` excepts such nodes (`again`).
- `Workflow.compile` adds its branches again at every compilation (`workflow.go:411`), and a
  workflow with static values cannot be compiled twice.
- `assignOne` loses a value whose target goes through a struct or interface inside
  a struct that a map holds by value, and panics at the second target inside the same such
  struct; `workflow_test.go:318-329` has only the case of one level. `EachTargetAssigned` excepts
  them (`Fragile`).

*Messages and checkpoints*

- `concatMaps` panics when a key is nil in one of several maps; `ConcatMessageStream` takes
  the end of one source of a merged stream for an error; a single chunk is passed on as
  it is. All three are in the reasons for failure of `NothingLostInChunks`.
- What serialisation loses (`Back`): a pointer to a map or slice held in an
  interface is gone; arrays in interfaces come back as slices, nil maps and slices
  there as empty ones, and named map and slice types without their name; nil below a
  second pointer comes back as nil or as a zero value; nil in an interface that holds
  a `**T` comes back as a nil `*T`. An unregistered type in an interface is an error, as documented.
- The value `[]ExecutedStep` in the session is not registered for the encoding of
  checkpoints (`plan_execute.go:37-39`): after the first completed step an interrupt
  of the executor cannot be saved. `Checkpoint` in `PlanExecute` keeps the old one then.

*Agents*

- The loop agent looks for BreakLoop only in the last event of a sub-agent
  (`adk/workflow.go:345-397`); `LastWordCounts` says last word.
- `runSequential` drops an action event that comes directly before an error
  (`adk/workflow.go:200-206`, `PassedOn`), and a loop goes on after an error.
- A resumed parallel agent leaves out sub-agents that failed before the
  interrupt, with the comment "This means it finished successfully"
  (`adk/workflow.go:476`).
- `joinRunCtxs` sorts by time stamp with a sort that is not stable
  (`adk/runctx.go:260`): events with equal time stamps, of one agent too, may change places.
  `HistoryWhole` asks for the order of the time stamps only. And it sorts, says the comment
  at line 262, "by their creation timestamp for chronological order", but an interrupt keeps
  the events of lanes without `ts`, which is not exported (line 48): of what is older than the last
  interrupt the order between the lanes, and even in one of them, is left to the sort. `HistoryWhole` puts it first, in any order.
- `chatmodel.go:85` says of tools that return directly "only the first one triggers the return";
  the code takes the last one listed in the message (`react.go:186-192`), `flow/agent/react` the first.
- The actions of tools are kept by name (`react.go:52`): two calls of one tool in a message may
  swap or lose them, and those of tools that stream are never taken out
  (`chatmodel.go:459-482`). The event held back for a direct return (line 451) is lost when
  another call interrupts the run after it. `ActionsKept` excepts these cases.
- A transfer that `deterministic_transfer.go` appends comes after an exit and after an error
  as well; of several `ToAgentNames` only the last is followed.
- With the option to skip transfers, `genAgentInput` (`flow.go:220-229`) drops whatever entry
  comes before a transfer's result, the result of another tool if a message has
  several calls. `InputWhole` excepts what comes directly before. It tells a
  transfer's result by its role (`flow.go:224`), which a checkpoint does not keep
  (`adk/interface.go:59-107`): after a resumption what called for an earlier transfer is no longer dropped, and an agent that is
  to skip transfers is given it. `InputWhole` excepts only transfers of the current run.
- A second interrupt of one run is a panic in the Runner (`runner.go:191-196`, `SecondInterrupt`).
- A loop of plan, execute and replan goes on after an error of the executor, with the result of
  the step before or, if there is none, a panic that says "impossible"
  (`plan_execute.go:644-647`); after an error of the replanner the step is executed again. `StepsOwnResult` excepts both.

*Middlewares and retrieval*

- `reduceByTokens` protects the message in which the budget ends, one more than its
  comment says (`clear_tool_result.go:128`; the tests agree with the code), and may clear results of the
  current round before the model has seen them; `ResultsInReach` excepts these.
- `read_file` of a missing file fails the run although its prompt says "It is okay to read
  a file that does not exist"; it reads 200 lines by default, where the prompt says 500.
  Repeated call ids overwrite an offloaded file (`rewritten`). The files of `InMemoryBackend` are in no checkpoint.
- `router.NewRetriever` computes a default router and stores `config.Router`, which may be
  nil; a retriever named twice keeps its last result only (`Counts`); multi-query drops the options
  of the call (`multi_query.go:174`); the parent indexer numbers per run of adjacent parts
  (`parent.go:128`), so that parts of one document that are not adjacent get the same
  identifier. `FoundIsAnswered` asks for parts that are together. The ranks of `rrf` are exact here;
  the floating-point numbers of the code may round two different ones to the same.

*Chat*

- The page can be enabled while an answer is under way. The clear button is never disabled
  (`app.js:203`), and each event is handled in a goroutine: a clear that is handled before
  `handleJoin` has stored the session is answered NOT_JOINED, and "joined" or that answer, whichever comes
  later, enables the input again (`app.js:121-127`, `177-186`) when the user may have sent a message after the first of them.
  The next message then shares its bubble with the answer that is still coming. `OneAnswerPerBubble` excepts
  this (`hasty`); without the exception TLC finds two answers in one bubble.
- `handleJoin` stores the session of a socket that was disconnected meanwhile (`handler/socketio.go:98`):
  nothing takes it out of `socketSessions` again.
- `ChatStream` reads `session.History` without the store's lock
  (`service/chat.go:62`). A read torn by a clear and an append may see a
  prompt that is no history; `ContextKept` excepts it (`Torn`).
- A clear that lands before a running chat appends does not stop the append
  (`handler/socketio.go:187`): the turn is in the cleared history, although the
  UI's README (line 61) has the tester check that clearing deletes the conversation.
- The page does not reset `isStreaming` when the connection is lost
  (`app.js:129`): after an automatic reconnection (README line 50) in the middle of
  an answer it refuses every message.

## 9. Not modelled

The list with a reason for each component is under `components` in `PROJECT.json`. In groups:

- Wrappers of a call that add no state: the four call styles of `compose/runnable.go`,
  edge and node handlers, options, component interfaces (`components`). They wrap a task, whose outcome is a choice
  in the models.
- Callbacks: handlers of the user are called in a fixed order in the goroutine
  of the component. What runs beside them, a copy of the stream for each handler, is `StreamCopy`.
- Graph state (`compose/state.go`): a value of the user behind one mutex. The states of the
  two react agents, which live in it and are saved with it, are in `ReactAgent`.
- The multi-agent host is a graph like others: a model, a branch to the specialists
  it names, a collector. It adds no rule to `GraphChannels`.
- The map of session values that parallel lanes share (`runctx.go:313`), each with a mutex of its own, and the maps
  of the resume information that are only partly accessed under the lock
  (`address.go:151`): an unlocked Go map access may stop the program, and the
  models take such an access as one step, which is what remains when it does not.
- A task that was given up goes on while the resumed run starts its node
  again (`graph_manager.go:395`): what both do to the outside is not in the model.
- `SetAutomaticClose` (a finalizer), array readers, unbuffered pipes; introspection, templates, prompts,
  parsers, multimodal parts of messages beyond their concatenation; start-up and
  configuration of the chat server; page layout; generated mocks.

## 10. What could come next

A nested graph with a run loop of its own beside that of the outer one, which would show the
shared cancel channel (the one hazard of `compose` without a property), and a page
that recovers from a lost connection, once the code does. Proofs: induction over trees of values and types, for serialisation and
field mappings, once the provers can do it.
