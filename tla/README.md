# Specifications of mneme-substrate

TLA+ modules beside the Rust sources of `hypermemetic/mneme-substrate`: what its
graph engine, its dispatcher, its agent sessions and conversations, its approvals
and its forecasts promise, checked with TLC on small instances and, for the parts
that matter most, proved with TLAPS for every instance. Paths below are relative to
`src/src/` of the repository tree unless they start with `docs/` or `plans/`;
`lattice/`, `orcha/` and so on stand for `activations/lattice/` and so on.

## 1. The system

The substrate is one process that hosts *activations* (services behind one RPC
hub), each with its own SQLite database. Everything is asynchronous: calls of
clients, tasks spawned by the activations and agent processes run concurrently, and
nearly nothing is done under a lock or in a transaction.

```
 client --run_graph / run_tickets / cancel_graph--> orcha --chat--> claudecode --> agent process
    |                                                |  ^               |              |
    |         start_graph, node_complete, node_failed|  |events         |nodes         |permit
    |                                                v  |               v              v
    |                                               lattice           arbor   claudecode_loopback
    |                                        (nodes, tokens, log)       ^       (approvals) <-- person
    |                                                                   |nodes
    +--cone.chat--------------------------------> cone -----------------+
    +--forecast.update / resolve, programs.wait--> forecast --> mneme runtimes --chat--> claudecode
                                                                 (program directories, history)
```

| Component | State it keeps | Operations | Hard behaviours | What makes it correct |
|---|---|---|---|---|
| lattice engine (`lattice/`) | graphs, nodes, edges, edge tokens and the event log in SQLite; one `Notify` per graph | `start_graph`, `node_complete`, `node_failed`, `cancel`, `add_node`, `add_edge`, recovery helpers | no lock, no transaction: calls interleave between any two SQL statements | a node is announced only after its predecessors; nothing enabled is forgotten; no token is lost; a graph reports |
| lattice streams (`execute_stream`) | a cursor per stream | `execute`, `subscribe` | read, then wait, while others append; one `notify_one` shared by all streams | no event is slept through |
| orcha graph runner (`orcha/graph_runner.rs`, `graph_runtime.rs`) | the dispatched set, spawned tasks, receivers of the cancel signal | dispatch of tasks, syntheses, validations, reviews, plans, subgraphs; retries | tasks outlive their dispatcher; the log is replayed; retries against cancel; reruns behind the engine's back | each ready node is run, by one task at a time, and the graph reports |
| orcha graph methods and recovery (`orcha/activation.rs`) | the cancel registry | `build_*`, `run_*`, `cancel_graph`, `subscribe_graph`, `recover_running_graphs` | restart between any two statements, clients that leave, graphs that plan graphs | a cancel reaches everything below a graph; finished nodes are not run again |
| orcha sessions and agents (`orcha/orchestrator.rs`, `storage.rs`) | sessions as rows and as copies in memory, agents | `run_task`, `spawn_agent`, `check_session_completion`, `delete_session`, ... | the last two agents end together; row and copy are written in two steps | copy and row agree; the verdict counts every agent |
| ticket compiler (`orcha/ticket_compiler.rs`) and pm (`orcha/pm/`) | the ticket map | tickets to nodes and edges; `graph_status`, `what_next`, `why_blocked` | forward references, name collisions, validations between tickets | a ticket starts after its blockers and their validations; pm tells what the graph does |
| loopback (`claudecode_loopback/`) | approvals in SQLite; notifiers and the session tree in memory | `permit`, `respond`, `pending`, `wait_for_approval`, the automatic approver | several readers of one notifier that list, act, time out and leave | an announced approval is not slept through |
| claudecode (`claudecode/`) | sessions with a canonical head, buffers of background chats | `create`, `chat`, `chat_async`, `poll`, `fork`, `delete`, `render` | chats that overlap, fail, are dropped; polls while a chat ends | the conversation is made of whole exchanges; a stream ends for whoever polls it |
| arbor (`arbor/`) | trees with reference counts and states, nodes, child lists | create, claim, release, cleanup, `node_create_*`, paths, collapsed views | claim against release and cleanup; insertion in three statements | the count is the sum of its owners' counts; a tree in use stays; siblings keep their order |
| cone (`cone/`) | cones with a head in arbor | `create`, `chat`, `set_head`, `delete` | the head moves while the model answers | what the model saw is the branch its answer is put on |
| mneme and forecast (`mneme/`, `activations/forecast`, `activations/programs`) | program directories (manifest, artifact, error, trace), an index, the calibration history and its fit | `forecast.create`, `update`, `resolve`, `programs.wait` | fan-out of trials that fail or time out; files written one by one; pollers; stops | who is told a program is over finds its result; the fit is that of the history as far as it can be fitted |
| mcp sessions, bridge, hub, planning, utilities | little, or kept by libraries | | | |

`PROJECT.json` lists every component with its status, and under `hazards` the places
of this code that are hardest to test, each with the properties that cover it or the
reason why none does.

## 2. Modules

| Module | What it models |
|---|---|
| `Lattice` | `lattice/storage.rs`: `start_graph`, `advance_graph`, `check_and_ready` and their queries; `node_complete`, `node_failed`, `cancel` |
| `LatticeGrowth` | `add_node` and `add_edge` on a graph that may be running; extends `Lattice` |
| `Dataflow` | the promise of a graph execution, with no statement of how; `Lattice` implements it |
| `OrchaRunner` | `execute_stream`, the dispatcher and its tasks, cancel, restart and recovery; extends `Lattice`, so that engine, log, streams and tasks are one system |
| `Gates` | the nodes that judge the work of others: validations with the reruns they cause, reviews, syntheses, subgraphs |
| `GraphTree` | the methods that build, run, cancel and recover graphs, the cancel registry, and plan nodes that build graphs in turn |
| `OrchaSessions` | sessions, tasks and agents of the orchestrator, row and copy |
| `Tickets` | the ticket compiler, the builder, and pm's view of the graph as it runs |
| `Loopback` | approvals, their notifiers and readers |
| `Maps` | writing to a table or a map, and removing from it; used wherever one is kept |
| `Trees` | reading a forest of conversation nodes (paths); used by the next three |
| `Arbor` | owners of trees, cleanup, and the insertion of nodes statement by statement |
| `Cone` | cones, their heads and turns |
| `ClaudeCode` | agent sessions, chats with every event of the agent, forks, buffers and polls |
| `TreeViews` | collapsed views: detection of runs, copying |
| `Rendering` | `render_messages`, from the root or from any start |
| `Forecasts` | programs, trials, closing, polling, the history and its fit |
| `LatticeProofs`, `TokenProofs` | theorems about `Lattice` and `LatticeGrowth` (section 4) |
| `OrchaProofs` | theorems about `OrchaRunner` |
| `MethodsProofs` | theorems about `GraphTree`, `OrchaSessions` and `Gates` |
| `ConversationProofs` | theorems about `Arbor`, `Cone` and `ClaudeCode` |
| `ServicesProofs` | theorems about `Loopback` and `Forecasts` |
| `ComputationProofs` | theorems about `Tickets`, `Rendering` and `TreeViews` |
| `Induction` | what these proofs need of numbers: induction, largest elements, sums, iterated functions, chains of sets |
| `MCLattice`, `MCOrcha` | small graphs for TLC |
| `MCOrchaMethods`, `MCConversations`, `MCServices` | instances of components that share no state; `part` says which of them a behaviour is of, and the others stay in their initial state |

Definitions named `X_...` next to a definition `X` are faulty variants of it: a
dropped guard, an off-by-one, a swapped order. With one of them in the place of X the
property listed for it in `PROJECT.json` fails.

### Lattice

*State.* `nodes`, `edges`, `nodeStatus`, `output`, `graphStatus`, `tokens` and
`log` are the tables of one graph. `frame[w]` holds the local variables of the
API call that *worker* `w` is executing; there are as many workers as calls may
be in progress. `reported` counts the answers callers have given for each node.

*Steps.* The pool has several connections and no call opens a transaction, so the
unit of atomicity is the SQL statement. An action is one statement that reads or
writes shared rows together with the local computation around it:

| Code | Actions |
|---|---|
| `start_graph` | `Start` (the compare-and-set), `ReadRoots`, `Seed`, `LogReady`, `Seeded` |
| `advance_graph`, one work item | `Pop` (read the node, drop if terminal), `Mark`, `LogNode` (event and outbound edges), `Route` (count), `Deliver` (insert), `Routed` |
| its ends | `FailGraph`, `LogGraphFailed`; `Finish` (completion test), `CompleteGraph`, `LogGraphDone` |
| `check_and_ready` | `Check` (status), `NotEnabled` / `EnableTask` / `EnableGather` (counts and update), `LogReady` |
| `node_complete`, `node_failed` | `Report`: a caller answers a NodeReady it has read, and may repeat the call |
| `lattice.cancel` | `Cancel` |

Reads that commute with every statement of other calls are joined to the next
one (the node's spec and edges, which a graph without growth never changes). The
read of all inbound tokens and the update that follows it are one action:
between them only tokens can be added, which can make a gather emit more inputs
but cannot disable the node.

*Data.* A token is a colour with a position; payloads and arbor handles are left
out, because the engine never looks at them. `JoinType::Any` is left out because
it cannot occur: no query writes or selects that column.

### OrchaRunner

*State.* `stream[s]` is a reader of the log (`off`, `fetch`, `batch`, `wait`, ...)
with its cursor and the end of the batch in hand; `waiters` and `permit` are the
graph's `tokio::sync::Notify`; `dispatched` the set of `run_graph_execution`;
`task[<<n, k>>]` the k-th live copy of a spawned task of node `n`; `token` the
graph's entry in the cancel registry, a watch channel whose receivers are in
`task[t].rx`; `left` the nodes recovery has yet to look at.

*Steps.* `Engine(w)` is a statement of `Lattice`; the call of a task is the worker
with the task's name. `Launch`, `StartGraph`, `Open`, `Fetch`, `Dispatch`, `Wait`
are the dispatcher; `StartNode`, `LogStarted`, `Succeed`, `Fail`, `Abort` a task
with its retries (`AttemptFails`); `CancelGraph`; `Restart`, `ResetRunning`,
`FindReady`, `ReemitReady`, `Reattach` a restart and `recover_running_graphs`.
`ObservedSpec` adds `subscribe_graph` streams, `ReconnectSpec` a client that drops
its stream and calls `run_graph` again. `Tracked` says whether pm knows the graph: recovery
looks at no other (`orcha/activation.rs:102-124`), and such a graph rests for ever after a
restart (`Forgotten`).

What an agent does is external: an attempt succeeds, fails (`MayFail`) or never
answers (`Hang`). `Patient` nodes ignore the cancel token, as `dispatch_validate`
does. Events of a batch on which its reader does not act are skipped in one step.

### Gates

*State.* One graph (`shape`, chosen in the initial state) with `at[n]`, where each node
is. `work[w]` counts the texts a worker has produced, the last of which is its work;
`outs[v]` says which text of each worker upstream validation `v` holds; `todo` and
`redone` are the workers it has still to run again and has run again since its command
failed; `sender` is the sender of the cancel signal.

*Steps.* `Begin` reads the inputs; `Work` is a chat of a worker with its retries,
`Child` a SubGraph, `Command` the command of a validation, `Rerun` one of the reruns
that `find_upstream_tasks` asks for, `Review` a poll of the approval that `Answer`
decides. `Hang` makes a chat endless, `Cancel` and `End` are the signal and the end of
the graph. Commands have no timeout and hear no cancel, and a failed rerun keeps the
older text, as in the code.

### GraphTree

*State.* `graph` are the rows of all graphs, each with one node (a plan or an agent);
`tokens` is the cancel registry and `fired` the signals sent; `caller[g]` is the method
that builds `g`, `run[g]` an execution: `run_graph_execution` with the task of its node;
`recovering` and `spawned` are what a restart has still to see to.

*Steps.* `Build` with `CallerStep` are `build_tickets`, `run_plan`,
`run_graph_definition`, `run_tickets`, `run_tickets_files` and `run_tickets_async`, which
differ in what they save in pm, whom they register and what a client that leaves
stops; `RunGraph`, `CancelGraph`, `Disconnect`; `StartGraph` ... `Finish` an execution, with
`BuildChild`, `SaveChild`, `RunChild` of `dispatch_plan`; `Restart`, `Recover`, `Attach`.

### OrchaSessions

*State.* `table` and `cache` are the rows of `orcha_sessions` and their copies, `crew` the
agents, `job` the control points of tasks, agents and callers, `late` the updates that
have written the row and not yet the copy.

*Steps.* `TaskStep` is `run_task` with its attempts and validation; `AgentStep` an agent
from creation to `check_session_completion` (`CountAgents`, `Judge`, `WriteVerdict`);
`RequestHelper` a helper that an agent asks for; `UpdateCache` the second half of any
update; `CountRetry`, `SetSessionState`, `DeleteSession` other callers; `SessionsRestart`.

### Tickets

`Tickets(lines)` is the compiler as operators over lines (a tag and its arguments),
`Nodes` and `Edges` its result, `BuildTickets` the builder with its errors; then the graph
runs in any order its edges allow. A query of pm is a sequence of steps in the midst of that:
`AskPm` reads the ticket map, each `ReadNode` the node of one ticket, in any order (the map
is a HashMap), and `Answer` derives `GraphStatus` or `WhatNext` from what was read, which may
be old by then. `WhyBlocked` is the same for the sources of one node. `query.began` is a
history variable: the statuses when the question was asked. `MaxAsked` bounds
the number of nodes of a graph that pm is asked about.

### Loopback

One row per request; `asker` is the control point of `permit` or of the review node
that made it. `notifiers`, `permit` and `waiters` are the per-session `Notify`s, and a
reader (automatic approver, `wait_for_approval`, `subscribe_approvals`) alternates between
listing and waiting. `Wake` is the moment at which the task of a woken reader runs again and
consumes the notification. `Leave` is a reader that stops at its wait; `Forward` is what tokio
does when a notified future is dropped: it wakes the next waiter or stores the permit.
`Drop` is a client that drops its stream while `list_pending` is awaited: a notification that
was consumed before is then lost. For the properties only, `unseen` records which approvals
a session was told of and nobody has listed, and `dropped` the sessions of such clients.

### Arbor, Cone, ClaudeCode

`Arbor` has the two tables of references (`trees`, `refs`; each operation is a
transaction) and those of nodes (`nodes`, `listed`), into which `NodeCreate`,
`ReadPosition`, `AddChild` write in three statements that a crash may separate. A claim or
release is of a positive number of references; the code takes any i64 from its client
(`arbor/activation.rs:179-207`), and what is said of counts holds for positive ones only.

`Cone` and `ClaudeCode` keep their own rows of nodes and heads. A turn or chat is a
record with its control point and what it has read: `BeginBy...` or `ChatBy...` reads the
head; the question, each event of the agent and the answer become nodes; the head
moves last. The agent process is external: `Script` is the set of event sequences it may
produce, failure, permission requests and silence among them. `Disconnect` drops a
direct chat between any two steps; `Poll` reads the buffer of a background chat. The
child lists are left to `Arbor`: paths are read through `parent_id`, as `node_get_path`
does.

### TreeViews, Rendering

Computations, each checked for all inputs within a bound: the tree (or the sequence
of events) grows node by node, and the properties compare the result with a
definition that does not follow the code. `TreeViews` leaves the order open in which a
HashMap lists children, separately for each of the two readings; `known` records how much of
the tree the first one saw. `RenderMessages(start)` leaves out what stands before its start,
which may be any node of the path, the middle of a turn too.

### Forecasts

`files[p]` is the directory of a program, where a file that is being written is `Torn`;
`index` its row; `task[p]` the owner that opens it, asks the trials, aggregates and closes
it (`WriteFile` once per file, in the order of `close_ok` or `close_err`); `trial[p][t]` is a
fork that answers, takes steps, is repaired or times out; `poller` is `programs.wait`.
`AppendObservation`, `ReadHistory`, `WriteBias` are `record`, which any number of calls may
be in. A fit fails while all outcomes are alike, and on the histories in `Divergent`, on which
the iteration of `fit_platt` does not converge (`platt.rs:127-141`); the parameters then stay.
`Raw` are the probabilities that were forecast. `ProgramsCrash` stops the process between any two of these; nothing is resumed.

## 3. What is checked

A passing run holds for every interleaving within its bounds; a violation run shows a
behaviour of the code that contradicts a sentence of the repository.

| Run | Instance | Question and result |
|---|---|---|
| `lattice_live` | `(a, b) -> g`, `a -> d`; g a gather, d may fail; 2 calls at once | Do concurrent calls lose anything? No: `DependencyOrder`, `NoTokenLost`; every step implements `Dataflow` (`KeepsPromise`) and a started graph reports (`EventuallyReports`) |
| `lattice_serial` | coloured branches of a into g or c, g a First{1}, `g -> d`; a, b, d may fail; outputs ok, another colour, or two tokens; each report may be repeated; calls do not overlap | Is a repeated report harmless? Yes: `AnsweredOnce` |
| `growth_concurrent` | `a -> b`; node c and edge `a -> c` added at any time; 2 calls | Does growth race `advance_graph` safely? Yes: `LateEdgeFed`, `NothingForgotten` |
| `orcha_recovery` | chain `a -> b -> c`, two attempts each, a and c may hang, c may fail, b is a validation that ignores the cancel; edges unconditioned; 1 restart, 1 cancel | Does recovery repeat or lose work, does a cancel end the graph? `OneTaskPerNode`, `NothingAbandoned`, `FinishedNotRerun`, `GraphReports`, `CancelReports` hold. Behind a cancelled a the validation b succeeds, and c, which is cancelled as well, fails the graph; were c a validation too, nothing would be reported (`Swallowed`, section 5) |
| `orcha_parallel` | fork `a -> (b, c)`, single attempts, cancel | Does the dispatcher sleep through two tasks that report at once? No: `NoStall`, `NoDeadEnd` |
| `orcha_methods` | a task with its session; a team of two agents; a client that counts retries; up to 3 graphs, 1 root, by four methods, 1 restart; five graphs with gates, 1 endless chat | Do row and copy agree (`CacheAgrees`) and verdicts count everybody (`VerdictOnAll`)? Does a cancel find what runs and end it (`TokensFollowRuns`, `CancelReachesTree`, `CancelledEnds`)? Are reruns complete and their texts passed on (`AskedAll`, `TokenIsLatest`), and do tasks come to rest (`TasksRest`)? Yes |
| `conversations` | 1 tree, 2 owners, 2 nodes; 2 cones, 2 turns; 2 agent sessions, a background chat and a direct one | Are counts, sibling orders, branches and exchanges kept, and do streams end? Yes: `CountIsSumOfOwners`, `ActiveIsHeld`, `ChildrenInCallOrder`, `ContextMatchesBranch`, `WholeExchanges`, `Continuity`, `NothingAfterTheEnd`, `EveryStreamEnds` |
| `services` | a session with an approver and its parent with two waiters, two requests; one program with two trials of up to two steps and a poller, or with three resolves, on some histories of which the fit diverges; trees of 5 nodes; 8 events and every start; files of 2 tickets, with a query of pm | Is an approval slept through (`NoLostWakeup`, `ApproverResolves`), is one of the readers of a parent told (`SomeReaderIsTold`)? Does a final status have its result (`OverIsWritten`), the fit its history (`BiasIsCurrent`), each update an end (`EveryUpdateCloses`)? Do views, renderings and compiled tickets keep what they were given (`ChainIsMerged`, `PlainTurnsRendered`, `StartsAfterValidation`), and is what pm has read node by node true of the graph that ran on meanwhile (`PmTellsGraph`)? Yes |
| `v_join_hangs` | join `(a, b) -> c` | `NoDeadEnd` fails: a graph that hangs (finding 1) |
| `v_watcher_starves` | chain with one `subscribe_graph` stream | `NoStall` fails (finding 2) |
| `v_double_dispatch` | chain with a client that reconnects | `OneTaskPerNode` fails (finding 3) |
| `v_fork_history` | two agent sessions, no chat needed | `HistoryReadable` fails (finding 4) |

`CHECK_DEADLOCK FALSE` everywhere: a graph that has reported, chats that have ended and
approvals that are answered end the behaviour. The states where something unfinished
stops are what `NothingForgotten`, `NoStall`, `NoDeadEnd` and the liveness properties are
about.

**Bounds.** `Worker` is the number of engine calls in progress (two: the races of the
statements are pairwise); `MaxRetry` the repeated reports of a node; `MaxLog` the length
of the log after which no new report is made, longer than the log of an execution that
announces and answers every node once, so that repeated announcements fit. `Copy` is
the number of live tasks of one node, since two is what `OneTaskPerNode` is about.
`MaxRestart` is 1: after a restart nothing in memory is left, and recovery begins from
tables of the same shape (the theorems of section 4 hold for any number). The graphs
are the smallest with each shape that matters: a join, a fork, a gather beside a task, a
branch on the colour, a chain; for `Gates` a validated join, a chain judged twice, two
validations of one task, a task judged across a graph, a validation with nothing before
it. Three graphs let a plan's child plan again. Two agents, two turns and two chats
are the least that can overlap, and a third would repeat their relation to the head.
Trees of 5 nodes with `min_run` 2 hold two runs with something between them; 8 events
hold two turns with a tool call; two tickets with validations hold every reference,
forwards, backwards, to itself, missing, and to a made-up name. Two waiters are the least
of which `notify_one` can leave one asleep; three resolves let a history be fitted, then not,
then fitted again. The parts `programs` and `calibration` of `MCServices` split the state of
`Forecasts`: `record` shares with the rest of it only whether a program has a result, and
`poller` reads nothing that `record` writes, so the first has no resolves and the second no
polls. pm is asked about graphs of two nodes (`MaxAsked`), the least that it can read
at two times; the theorem holds for any number.

**Fairness.** A spawned tokio task goes on: `WF` of the next statement of a call (`Step`,
`Engine`), of a task's own steps (`Run`, `AgentStep`, `RunStep`, `NodeStep`, `TaskNext`,
`TrialNext`), of a background chat (`ChatStep`) and of a stream that has something to
read or was woken; recovery runs to its end. A caller that has read NodeReady answers
it (`Answer`): every path of a dispatched task ends in `complete_node` or `fail_node`. In
`Gates` one weak fairness for all nodes together suffices, since every step brings the
whole nearer to its end. Nobody is obliged to cancel, restart, respond, ask, come,
leave, poll, or keep a direct chat open, and no agent is obliged to answer: `Hang`,
`MaxHangs` and the chats of `GraphTree` have no fairness, and `GraphReports`,
`CancelledEnds` and `TasksRest` say what then holds. Trials time out
(`claudecode_swarm_runtime.rs`), so they are owed an end. Weak fairness is enough: each of
these steps stays enabled until it is taken, or is disabled by others only finitely
often.

**Restarts.** `orcha_recovery` restarts between engine calls (`RestartInCall = FALSE`). A
crash inside `advance_graph` can lose work: after the node is marked complete and before
its tokens are delivered, recovery finds neither a ready nor a running node behind it.
The theorems hold for restarts inside a call as well. `GraphTree`, `OrchaSessions`,
`Arbor`, `ClaudeCode` and `Forecasts` stop between any two of their steps.

**History variables.** `disturbed`, `gone`, `mixed`, `overlap`, `elder`, `redone`,
`unseen`, `dropped`, `known` and `query.began` record what no code reads; properties use them to say under which conditions
the code promises something (for instance `Continuity`: chats made one after another).
Each is named in its module with what it records, and the runs reach both values.

## 4. What is proved

TLAPS checks these for every value of the constants that satisfies the assumptions of
the module: every graph, any number of concurrent calls, tasks, restarts, sessions,
chats, trees, readers, programs, trials and resolves, and every ticket file, conversation
and tree.

| Theorem | Statement |
|---|---|
| `LatticeProofs!TypeCorrect` | `Spec => []TypeOK` |
| `LatticeProofs!RespectsDependencies` | `Spec => []DependencyOrder` |
| `LatticeProofs!PromiseKept` | `Spec => KeepsPromise`: the engine implements `Dataflow` |
| `TokenProofs!NoEnablementLost` | `GrowSpec => []NothingForgotten` |
| `TokenProofs!TokensReachTheirEdges` | `Spec => [](AnsweredOnce => NoTokenLost)` |
| `TokenProofs!SerialAnswersOnce` | one call at a time, no loops: `Spec => []AnsweredOnce` |
| `TokenProofs!SerialLosesNoToken` | one call at a time, no loops: `Spec => []NoTokenLost` |
| `TokenProofs!LateEdgesAreFed` | `GrowSpec => [](AnsweredOnce /\ LoneLateEdges => LateEdgeFed)` |
| `TokenProofs!SerialGrowthIsFed` | one call at a time: `GrowSpec => []LateEdgeFed` |
| `OrchaProofs!OrchaTypeCorrect` | `OrchaSpec => []OrchaTypeOK` |
| `OrchaProofs!NodesRunOnce` | `OrchaSpec => []OneTaskPerNode` |
| `OrchaProofs!FinishedStaysDone` | `OrchaSpec => FinishedNotRerun` |
| `OrchaProofs!DispatcherWakes` | `OrchaSpec => []NoStall` |
| `OrchaProofs!NothingLeftBehind` | no joins, restarts between calls: `OrchaSpec => []NothingAbandoned` |
| `OrchaProofs!EveryWaitEnds` | moreover acyclic, every edge takes a success: `OrchaSpec => [](NoDeadEnd \/ HandedOn)` |
| `OrchaProofs!DispatchRespectsDependencies` | `OrchaSpec => []DependencyOrder` |
| `OrchaProofs!DispatchKeepsPromise` | restarts between calls: `OrchaSpec => KeepsPromise` |
| `MethodsProofs!RunningGraphsCanBeCancelled` | `TreeSpec => []TokensFollowRuns` |
| `MethodsProofs!CancelsReachTheirTree` | `TreeSpec => CancelReachesTree` |
| `MethodsProofs!CacheIsTheTable` | `SessionsSpec => []CacheAgrees` |
| `MethodsProofs!LastVerdictStands` | `SessionsSpec => []VerdictOnAll` |
| `MethodsProofs!ContributorsAreAsked` | `GatesSpec => []AskedAll` |
| `MethodsProofs!TokensAreLatest` | `GatesSpec => []TokenIsLatest` |
| `ConversationProofs!CountsAddUp` | `ArborSpec => []CountIsSumOfOwners` |
| `ConversationProofs!TreesInUseStay` | `ArborSpec => []ActiveIsHeld` |
| `ConversationProofs!SiblingsKeepOrder` | `ArborSpec => []ChildrenInCallOrder` |
| `ConversationProofs!AnswersFitTheirContext` | `ConeSpec => []ContextMatchesBranch` |
| `ConversationProofs!ChatsKeepTheirTypes` | `CCSpec => []CCTyped` |
| `ConversationProofs!NothingComesAfterTheEnd` | `CCSpec => []NothingAfterTheEnd` |
| `ConversationProofs!ExchangesAreWhole` | `CCSpec => []WholeExchanges` |
| `ConversationProofs!ChatsAddUp` | `CCSpec => []Continuity` |
| `ServicesProofs!NoWakeupIsLost` | `LoopbackSpec => []NoLostWakeup` |
| `ServicesProofs!FinalStatusIsBacked` | `ForecastSpec => []OverIsWritten` |
| `ServicesProofs!CalibrationIsCurrent` | `ForecastSpec => []BiasIsCurrent` |
| `ComputationProofs!BlockersComeFirst` | `TicketsSpec => []StartsAfterValidation` |
| `ComputationProofs!PmSpeaksForTheGraph` | `TicketsSpec => []PmTellsGraph` |
| `ComputationProofs!TurnsAreRendered` | `RenderSpec => []PlainTurnsRendered` |
| `ComputationProofs!ViewsMergeTheText` | `ViewSpec => []ChainIsMerged` |

**Assumptions.** Each module names one assumption on its constants; TLC evaluates it in
every run. They say that ids of different kinds differ (`NoNode` is no node, a runner is
no watcher, tasks, teams and agents are not each other's: uuids and `Option`s in the
code), that edges join nodes of the graph (foreign keys), that limits are numbers, and
that owners, agents, trials and the nodes of a judged graph are finite, and that the body
of a ticket is a sequence of lines. `OneCall` and
`NoLoops` are premises of the two `Serial...` theorems and stated there: with two calls at
a time `AnsweredOnce` is false (finding 1 has the same cause), and the other two theorems
of `TokenProofs` do without them.

**Invariants.** A property is seldom inductive. Each theorem rests on a strengthening
whose parts are named and explained where they are defined, beside the specification or
in the proof module, with one lemma per action.

*Lattice.* `TypeOK` is not inductive: `Mark` writes to `frame[w].node`, which must be a node
then. `Typed` adds what a frame holds at each control point, and that `tokens` is finite,
which makes the position of a new token a number. `DependencyOrder` needs `Causality`:
the edges are those the graph was built with (`Spec` does not grow it), every token in
the table or in hand, and every edge of a pair still to route, comes from a node that has
been answered in the log, and a call about to log NodeReady has seen the answers of all
sources of its target. A node is enabled only when each inbound edge has a token, so
each source is answered; the log only grows, so it stays answered until NodeReady is
appended behind it. `IInv == Typed /\ Causality`.

*The promise of a graph.* `KeepsPromise` maps the tables to three sets: the nodes
released (no longer pending), those settled (answered in the log), and those failed.
`Pledge` ties the calls to them: what a call is about to settle is released, what it is about to report
as failed has failed, and it completes the graph only if everything is settled
(`KnownFrame`). With it each statement is one step of `Dataflow` or a stutter.

*Tokens.* `NothingForgotten` holds for graphs that grow while they run. `Placed` says that
positions on an edge are at most one above their number, so that a position is taken
only if the call that took it is behind it; `Watched` that a pending node with all its
inputs has a call that will count them again. The hard case is two calls of which each
counts before the other's insert: the later insert is followed by a count of its own.
`NoTokenLost` needs `Delivered`: while a node has one answer, one call routes it, finds
no position taken, and holds each edge that is still without its token (`Fed`, `Holds`).
With one call at a time, `Serial` adds that an answered node is terminal and its sources
answered, so that nothing is marked, and nothing answered, a second time.

*Late edges.* Of an `add_edge` and the `advance_graph` that answers its source, both may hold
tokens for the new edge. `Owes` names the calls that will bring one: a call about to read
the edges of the source, one that routes, and an `add_edge` that has yet to look at the
source. `Grown` says that each edge which should have a token (`Ripe`) has one or is owed one,
and that a position is found taken only on a late edge. The call that finds it taken ends
with an error and loses what it had left for other edges; if there is no other late
edge out of that source (`Alone`), that was nothing for a late edge, since whoever took the position
fed this one. With two late edges out of one source and two calls `LateEdgeFed` is
false: an `add_edge` that takes the position which `advance_graph` has just read for the
first edge ends that call, and the second edge stays without its token. With one call at
a time no position is ever found taken, and no premise is needed.

*OrchaRunner.* `OneTaskPerNode` follows from two facts. `LiveIsDispatched`: a node with a
live task (or a report of it in progress) is in the dispatched set, and `Dispatch` only
takes nodes that are not. `Detached`: while the dispatcher is off or recovering, no task
is alive; so `Attach`, which replaces the dispatched set by the terminal nodes, forgets
nobody. `OrchaIInv` is their conjunction with the types. `Disconnect`, which is not part of
`OrchaSpec`, breaks `Detached`: that is `v_double_dispatch`.

*Recovery.* `FinishedNotRerun` needs more, because terminal nodes and announced nodes
are two sets that change in different statements (`RecoveryIInv`). `OwnWork`: a call works
on the node of its task and on gathers, which it executes itself. `TerminalKnown`: while a
dispatcher is attached, a terminal node is in its dispatched set, or is a gather that was
never announced. Hence a NodeReady that is read again is either known or of a node that
is not finished. The hard case is a gather that a crash interrupted: recovery resets it to
ready and announces it like a task. `ResetWaits`: such a gather is not touched by any call
before the dispatcher hands it to a task (a call that would mark it holds it in its
frame, and one that would enable it must find it pending or complete, which it is not);
`NeverPendingAgain` says that no status returns to pending. `Sleeper` says that the
dispatcher is in the Notify's queue only while it waits, so that a wake-up cannot attach
one that is detached.

*The dispatcher's sleep.* `NoStall` speaks of the moment when nothing moves any more; `Awake`
speaks of every moment: while the log is longer than the batch in hand, a permit is
stored, or somebody will still notify (`Rousing`: a live task, or a call that has not
ended). A call that finds the position of its token taken ends with an error and
notifies nobody; `Numbered` shows that then another call is still there that does. With a
second stream the invariant fails, since the queue need not hold the dispatcher alone
(`v_watcher_starves`).

*No task is left behind.* `NothingAbandoned` is false of a graph with a join (finding 1) and
after a crash inside a call (section 3), so `NothingLeftBehind` has two premises: `NoJoins`
(each node has at most one inbound edge, and there is no gather) and `~ RestartInCall`.
Chains, forks and trees, those of `orcha_recovery` and `orcha_parallel` among them, satisfy
them. Then one token ever reaches a node, one call delivers it, and that call enables the
node (`LoneIInv`). `LoneCall` says that a call of a task passes one answer on, edge after edge;
`OnTheWay` that an edge gets its token after its source has answered, from the call that
still owes it, and that the target stays pending until that call has visited it;
`AnnouncedOnce` that a node is set to ready by one call, which then announces it and nobody
else has. So the NodeReady that recovery or that call logs is one the dispatcher has not
acted on (`InGoodHands`), unless a task of the node is alive: a task that has ended has
made its node terminal (`Stage`).

*No dead end.* Two premises more. `Acyclic`: each set of nodes has one that none of the set
precedes. `SuccessFlows`: each edge takes the token of a success, as those that `depends_on`
makes do. The graphs that orcha builds for agents without joins satisfy both, those of
`orcha_parallel` and `orcha_recovery` among them. A failure whose error token an edge takes
may leave its graph without an outcome, since completion asks that every node is complete
(`lattice/storage.rs:902`, section 5); so the theorem says that up to such a failure
(`HandedOn`) there is no dead end, whatever agents may do. `EndIInv` adds to `LoneIInv` what
is owed. `Delivered`: an edge out of a complete node has its token, or a call owes it one;
`Noticed`: a pending node whose edge has its token is about to be visited by the call that
brought it; `AnswersStand`: until its call ends, a node keeps the status that its answer
gave it. `FailureTold` and `CompletionTold`: a failure, and the completion of the whole graph,
has been logged, or the call that met it still runs and will log it; `Listening`: a
dispatcher that still reads has read of no end. `RootsTold`: no root is left pending by
`start_graph`. So at a dead end all nodes are pending or complete (a ready or running one
would be abandoned) and not all are complete; the first pending one in the order of the
graph is no root, and its one source has answered, so it has been enabled: a
contradiction.

*Order and promise across restarts.* A restart drops the calls that were under way, so what
`Causality` says of a call's hands is lost; what must not be lost is in the tables.
`Prepared`: a node that is no longer pending is due (all its sources have answered), and
so are the node of every task and whatever a call has in its hands. Recovery reads
statuses and announces what is not pending, hence only what is due (`OrderIInv`), wherever
the crash fell. `DispatchKeepsPromise` maps the steps of the whole runner to `Dataflow`.
`Vowed` adds to `Pledge` that a task which calls the engine has been released (`Busy`) and
that log and recovery name nodes of the graph only. The premise `~ RestartInCall` is
needed: a call that is cut off between `Mark` and its entry in the log leaves a terminal
node without an answer, and `Dataflow` has no step that takes a settlement back.

*Graph methods.* `TokensAreSignals`: a registered token is the signal of the execution it was
registered for; `OrphansAreGone`: a loop that ended early has lost its client. They make
`TokensFollowRuns` inductive (`TreeIInv`). That a cancel reaches the whole tree needs that
nobody starts a graph that another has in hand (`OneStarter`), and that a plan and the
child it runs share a signal (`Planned`, `ToRun`). What lies under a root is the smallest set
closed under children. `cancel_graph` walks it level by level, and finds all of it
(`TreeIsClosed`); an execution in it that has no token of its own shares its parent's signal.

*Sessions.* `CacheAgrees` compares two tables that are written one after the other.
`Writers` says whose the updates are that are half done, one for each writer; `Births` that a
session which is not there yet has no agents and no other updates; `Copies` how row and
copy differ while an update is on its way. `VerdictOnAll` adds `Manned` (where an agent is,
and what its row says) and `Judgements`: who has counted nobody at work has counted the
final states, and when all agents of a team have ended, the row holds the verdict on all
or one of them is about to write it. So it does not matter which of the last two writes last.

*Gates.* `InOrder` (what has begun has complete inputs, for ever) makes the contributors of a
validation complete; `Asked` follows the reruns; `WorkedOnce` says that a worker has one text
unless a validation that judges it has begun, and `Latest` that each validation has the
last text of whom it need not share. `find_upstream_tasks` walks the graph with a queue; that the
walk finds the contributors, defined as the smallest closed set, is `UpstreamIsContributors`:
the walk is an iteration of a growing set, which comes to rest in a finite graph (`Saturates`).

*Arbor.* The sum over owners changes in one summand with each claim or release
(`SumAtOnePoint`), and removing a row removes a zero. `ActiveIsCounted` links state and
count. `EldersFirst` carries the order of siblings through the three statements of an
insertion: position read, position written, and what was listed before.

*Cone, ClaudeCode.* Both rest on the nodes being a forest, in which a new leaf changes no
path. `OnTrack` says what each turn has read and written so far. For agent sessions, `Told`
ties buffer, reader and chat together (`NothingAfterTheEnd`); `HeadsWhole` says that heads
are whole, `Between` and `Grown` what a chat has added to the head it began with, whose
answer is therefore whole again, whatever has become of the session's head. `InTurn` is
about calls that do not overlap: at most one of them is about to move the head, and it
began where the head still is, so that what others added stays on the way.

*Loopback.* `LoopbackIInv` adds two facts to `NoLostWakeup`. `Queued`: what waits on a Notify
is a reader of that session that is in state "wait", once; so whoever is woken has left
the queue, and a new approval finds either a reader that is awake or the permit.
`ToldOfItsOwn`: a session is only told of approvals that its own listing shows, so that a
reader which lists has seen all of them. `Leave` keeps the invariant because of `Forward`:
a notification that a reader holds when it leaves its wait goes to the next one or becomes
the permit. `Drop` does not: a reader in state "relist" has consumed one, so from then on
nothing is said of its session (`dropped`). A reader that drops its first listing (state
"list") has consumed none, and loses none.

*Forecasts.* `OverIsWritten` is about files, row and pollers together. `ClosedSoFar` says for
each program that while its owner is there the row is not settled, that what the manifest
is about to name has been written, and that a settled manifest has its result.
`ToldOfResults`: a poller that read a final status will find the result, since nothing
removes it. `BiasIsCurrent` says that the parameters are those of the longest prefix of the
history that can be fitted, whichever histories cannot (`Divergent` is any set). It needs
`FittedInOrder`: while calls of `record` have not met, at most one is recording; at the
append the parameters are those of the longest prefix that can be fitted (`IsFitOf`), after
it those of the history without its last entry; a fit that fails leaves them the longest
still, and between the reading and the writing the call holds the whole history.

*Computations.* `Tickets`, `Rendering` and `TreeViews` go through a sequence with a
recursive function, one element after the other. That such a function exists is `Stepwise`;
then what holds of it is shown by induction over the length. `FlattenPlaces` says where
a concatenation has the elements of each of its parts, so `FlattenApart` can say
that a name of a file whose names are distinct belongs to one ticket. `TicketsIInv` has two
parts more than types: the graph has the edges of the file, and what is not pending waits
for nobody (`Runs`); and what pm has read of a node is a status that the node has had since
the question was asked, so that it now is where it was or further on (`Asks`, `Later`). `CompletionOf` finds the node that a blocker's name stands for, its validation if
it has one, and `EdgesCompiled` the edge from there, wherever in the file the two tickets
are. For the messages of a conversation, `Collected` says of each prefix that the
messages and the collected blocks hold what is shown, in order; nobody speaks only after a
turn, or while the agent has not begun to speak since the start or since a tool result
(`Silent`), and so the block that would be collected without a speaker is one that
`SpeaksUnannounced` names. `TurnAfterTurn` is
the grammar of the events that this needs. For views, a tree without branches has one
depth-first walk (`WalkOfChain`); the runs found along it do not meet (`Intervals`), which
stays true when the tree has grown before it is read again; they are the runs of text of
the part that was known (`Matches`, by what a scan knows of the run that is open: `Tracks`);
and the view of a prefix shows all of it up to the end of the run it has reached
(`Reaches`), with its runs in one row each and nothing else together (`Merged`).

**Induction.** The theorems of the library about induction take operators, which the
provers cannot instantiate. `Induction` proves what is needed from those about sets: that
a set of numbers has a least element (`WFMin`), hence that a set with 0 and with every
successor is `Nat`. From this follow that a fold that defines a sum exists and changes
with one summand, that a finite set has a largest element, and that an iterated function
exists. No module uses a RECURSIVE operator.

**Only model-checked.** Liveness (`EventuallyReports`, `GraphReports`, `CancelReports`,
`CancelledEnds`, `TasksRest`, `EveryStreamEnds`, `ApproverResolves`, `SomeReaderIsTold`,
`EveryUpdateCloses`) is out of the prover's reach. Every invariant and action property that
a run checks is proved, some under the premises that the table names; the paragraphs
above say what happens without them.

## 5. Where the code disagrees with itself

Findings, each shown by a run:

1. **A join may hang its graph** (`lattice/storage.rs:926-952`). Two predecessors complete
   at the same time; both `check_and_ready` calls see the join pending and enabled. One
   sets it to ready and logs NodeReady, it runs and completes; then the other sets it back
   to ready and logs NodeReady again. The dispatcher skips a node it has dispatched, so
   the node stays ready, GraphDone never comes, and the stream that "closes when the
   graph reaches GraphDone or GraphFailed" stays open until its one-hour timeout.
2. **An observer can starve the dispatcher** (`lattice/storage.rs:701`). All streams of a
   graph share a `Notify`, and an event wakes one of them.
3. **A reconnect dispatches a running node again** (`orcha/graph_runner.rs:53`). The new
   dispatched set contains finished nodes only, and the old tasks live on.
4. **A forked conversation cannot be read** (`claudecode/activation.rs:792-794`). The fork
   gets a tree of its own and then its parent's head, a node of another tree, which
   `node_get_path` does not find there.

Other divergences met while reading, or in variants of the instances, without a run:

*Engine and dispatcher*
- A graph whose failed node handed its error token on never reports: completion asks for
  `complete` nodes only (`lattice/storage.rs:902-903`); `plans/LIVE-GRAPH/LIVE-GRAPH-1.md:86`
  counts failed ones too. An edge made by `depends_on` passes the error token
  (`orcha/graph_runtime.rs:215-227`).
- So a cancel need not be reported. `orcha/activation.rs:1402-1404` says that cancelled nodes
  "ultimately fail the graph"; but a validation ignores the cancel (`graph_runner.rs:748`),
  gets the error token of the cancelled agent before it, and succeeds: then one node has
  failed and no GraphFailed comes, the others are complete and no GraphDone comes, and the
  stream stays open until its timeout. In the chain of `orcha_recovery` with
  `Patient = {b, c}` and `Hang = {a}`, `token = "fired" ~> Reported` fails in this way, and
  `CancelReports`, which excepts it (`Swallowed`), holds.
- With two calls at a time `AnsweredOnce` fails for a gather that both enable: the
  idempotency check of `advance_graph` (`:828`) is one of calls that do not overlap. That
  is why `lattice_serial` has one worker. For the same reason GraphDone need not be the
  last event.
- A node added after the completion test is pending when the graph becomes complete.
- Of two edges added out of one node while it completes, one may stay without its token
  (`lattice/storage.rs` `deliver_token`: the position is taken, and the call ends).
- `LIVE-GRAPH-1.md:56` has `add_node` make a node without predecessors ready at once; the
  code leaves it pending.
- A gather connected by `add_edge` while its inputs are complete is set to running and
  never executed (`lattice/storage.rs:294`; `graph_runtime.rs:171` says it "auto-fires").
- A gather fires after the first token on each edge, so it does not "collect all tokens
  from a fan-out" (`docs/architecture/intro-lattice-orcha-tdd.md:127`).
- `orcha/activation.rs:85` says recovery marks running nodes failed; it resets them.
- A gather interrupted by a crash is announced and dispatched as a task, which fails (`:767`).

*Gates and graph methods*
- A review is opened by the automatic approver (`orcha/graph_runner.rs:371`) of any task
  that runs beside it in the same graph (`:227`).
- "The latest work from every contributing agent" (`:943-951`) is not what a validation
  passes on when a sibling validation has the same task run again: the text is stale, or
  two reruns of one task overlap; reruns and reviews go on after the graph has failed.
- Once the sender of the cancel signal is dropped, a review spins and never polls again
  (`:257-288`).
- The receiver of a child graph's own signal is dropped (`:704`), so `cancel_graph` of the
  child alone is not heard.
- A client that leaves at the yield before the spawn leaves its graph pending for ever
  (`orcha/activation.rs:1955-1961`); observing a built graph with `subscribe_graph` starts it
  without a dispatcher; the monitor of a session may miss its end (`:597`).
- `graph_status` reads node after node while the graph runs (`orcha/pm/activation.rs:253-291`).
  With `A -> B` it may read B as pending, then A completes and B becomes ready, then it reads
  A as complete, and the answer is "pending" although something was at work or ready all
  the while. `PmTellsGraph` says what its answers still mean.
- A ticket file may compile to a graph that the builder refuses (`ticket_compiler.rs:222`).
- `auto_approve` is documented as true by default and is false (`orcha/types.rs:158-165`).

*Conversations*
- `claudecode/activation.rs:783-787` says that the next chat of a fork forks the CLI
  session; the flag it needs is never true.
- After a tool result the words of the agent are rendered in the message of the user
  (`claudecode/storage.rs:895-904`): `SpeakersKept` fails, hence `PlainTurnsRendered`. So
  does it for a start inside a turn (`:918-924`; `claudecode/activation.rs:974, 999`), with no
  tool result involved: the blocks up to the end of that turn are collected with no current
  role, and come into the next message of the user or, if none follows, into no message.
- `arbor/views.rs:447` says that a collapsed view preserves the structure of nodes that are
  not collapsed. A node behind a run has the end of the run as its parent, of which only the
  start is mapped (`:431, 445`), and so is created with no parent
  (`arbor/storage.rs:786-800`); the root itself is copied without a parent, and mapped to that
  copy. So nothing but a run that finds no mapped parent hangs below the root of the view, and
  a branch may hang below the wrong node. `ChainIsMerged` is about the rows and their order.
- `docs/architecture/16672867866129446911_*` (line 132) says that all waiters of a session
  are woken; `notify_one` wakes one. With two readers that wait on a parent one sleeps on while
  the child's approval is pending; `SomeReaderIsTold` says that one of them is told. A client
  that drops `wait_for_approval` or `subscribe_approvals` during `list_pending`, after it
  consumed the notification (`claudecode_loopback/activation.rs:254-283`), loses it, although
  `notify_one` is there for "preventing lost wakeups": `NoLostWakeup` excepts its session
  from then on (`dropped`). A `permit` that times out overwrites the answer a
  person gave in the meantime (`claudecode_loopback/activation.rs:119`).

*Forecasts*
- A trial whose answer does not parse is not a TrialFailure
  (`claudecode_swarm_runtime.rs:5-7`): it counts as a success without a probability
  (`:434-447`), and the aggregation then fails the whole update.
- The cutoff and the blocklist are never enforced (`:363-368`; `activations/forecast/activation.rs:198`
  says they are).
- An error text that is cut at 2000 or 240 bytes inside a character ends the task
  (`infra_error.rs:62, 127`), and the program stays running.

## 6. Not modelled, and why

- The one-hour timeout of a stream and all clocks: no model has one; where the code
  handles a timeout it may happen at any time (`GiveUp`, `Timeout`, `WaitTimesOut`).
- Errors of the database driver and of the file system, other than the primary key of
  `lattice_edge_tokens` and the steps of a chat that may fail.
- Reference counts that are zero or negative: a client may claim them
  (`arbor/activation.rs:179-207`), and the sum and the activity of a tree then mean nothing.
- Texts: token payloads, templates, prompts, summaries, arbor handles. What a validation
  passes on is a version number; what a message holds is the index of its event.
- Floating point: aggregation, shrinkage, the fit itself, benchmarks and their formats. On
  which histories a fit diverges is a constant (`Divergent`).
- Whether a resolved approval is approved or denied, except for reviews in `Gates`.
- `handle_tool_approval` (`orcha/orchestrator.rs:479-613`), a further reader of the shared
  notifier: it may take the wake-up of an approval of another agent, as two readers of
  `Loopback` do.
- `watch_graph_tree`, which polls; the methods that only read.
- The executor and the session files of the CLI: any sequence of events may come.
- mcp sessions, bridge, gateway, hub: the state machines are in libraries that are not
  part of the repository, and a session row is never turned into a worker again. Planning
  is a skeleton. Changelog, chaos, bash, echo, health, solar, mustache, interactive,
  registry: single statements, or stateless.

Smaller hazards met on the way, none of them covered by a property:

- *lattice:* the one-hour timeout persists GraphFailed and leaves the status running
  (`storage.rs:1042`); a gather without predecessors is never seeded (`:744`); `cancel` is
  overwritten by the calls in progress (`activation.rs:250`); GraphDone is persisted two
  statements after the completion test (`:904`).
- *orcha:* after a restart agents stay active for ever in the table; a late count of
  running agents may overwrite the verdict; multi-agent sessions never are running;
  a helper skips the check of the session's mode; `delete` or `increment` that overtake the
  creation leave row and copy apart. A cancel lives in memory only
  (`activation.rs:1411`). After a restart a plan plans again while its first child is
  recovered as well; a crash between `BuildChild` and `SaveChild` leaves an orphan; a cancel
  between the spawn and the registration of a recovered graph is missed. The ticket map is
  saved row by row after the graph, its errors ignored (`:1884`); `list_graphs` limits before
  it filters.
- *arbor and conversations:* `cleanup_scheduled_trees` and `stream_cleanup` have no caller;
  `tree_list_scheduled` lists active trees; a fork's row is visible before its head is set;
  two pollers of a stream share one read position (`claudecode/storage.rs:843`); deleting a
  parent session cascades to messages that forks refer to; streams are lost at a restart;
  `set_head` accepts any node id.
- *forecasts:* programs stay running after a restart, or when the client leaves before the
  spawn; two resolves at once may leave a fit of the older history; resolving twice records
  twice; a reader may find `bias.json` truncated and forecast uncalibrated.
- *mcp:* `close_session` awaits a worker under the lock of all sessions
  (`mcp_session.rs:321`).

## 7. What is left

1. `OrchaRunner` over the graphs that `Tickets` compiles, and with a second graph whose
   plan node is one of `GraphTree`'s executions.
2. `handle_tool_approval` as one more kind of reader in `Loopback`, with an agent of
   `OrchaSessions` as its asker.
3. Single nodes of arbor with their own references, and the queries of pm.
