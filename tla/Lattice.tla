------------------------------- MODULE Lattice -------------------------------
(***************************************************************************)
(* The lattice execution engine (src/activations/lattice): a DAG whose     *)
(* nodes exchange coloured tokens, kept in one SQLite database.            *)
(*                                                                         *)
(* The engine has no lock.  Every API call (start_graph, node_complete,    *)
(* node_failed, cancel) is an async function that issues one SQL statement *)
(* at a time against a pool of connections, so calls interleave between    *)
(* any two statements.  A call in progress is a WORKER; its local          *)
(* variables are its frame, and each action below is one statement that    *)
(* reads or writes the shared tables (reads that commute with every other  *)
(* call are joined to the next statement).                                 *)
(***************************************************************************)
EXTENDS Naturals, Sequences, FiniteSets

CONSTANTS
    Node,       \* every node id the model may use
    Edge,       \* every edge id the model may use
    From, To,   \* the end points of an edge
    Cond,       \* its EdgeCondition: a colour, or "any" when there is none
    Gather,     \* nodes whose spec is NodeSpec::Gather (engine-executed)
    GatherAll,  \* those with GatherStrategy::All; the others are First{n}
    Limit,      \* n of a First{n} gather
    InitNode,   \* nodes added before execution starts
    InitEdge,   \* edges added before execution starts
    Reply,      \* outputs a caller may report, as sets of tokens
    MayFail,    \* nodes whose caller may report a failure
    Worker,     \* API calls that may be in progress at the same time
    MaxRetry,   \* bound: extra reports of one node (a call that is repeated)
    MaxLog,     \* bound: no new report once the event log is this long
    NoEdge, NoNode

Color  == {"ok", "error", "named"}
Status == {"pending", "ready", "running", "complete", "failed"}
GStatus == {"pending", "running", "complete", "failed", "cancelled"}

\* A token in hand: the edge and position it was read from (NoEdge for one
\* that a caller or the engine has just made) and its colour.  Payloads are
\* opaque to the engine.
Token == [from : Edge \cup {NoEdge}, seq : Nat \ {0}, color : Color]
Fresh(i, c) == [from |-> NoEdge, seq |-> i, color |-> c]

\* A row of lattice_edge_tokens, whose primary key is (edge_id, seq).
Row == [edge : Edge, seq : Nat \ {0}, color : Color]

EventType == {"NodeReady", "NodeStarted", "NodeDone", "NodeFailed", "GraphDone",
              "GraphFailed"}
Event == [type : EventType, node : Node \cup {NoNode}]
Ev(t, n) == [type |-> t, node |-> n]

ASSUME GraphAssumption ==
    /\ From \in [Edge -> Node] /\ To \in [Edge -> Node]
    /\ Cond \in [Edge -> Color \cup {"any"}]
    /\ GatherAll \subseteq Gather /\ Gather \subseteq Node
    /\ Limit \in [Gather -> Nat]
    /\ InitNode \subseteq Node /\ InitEdge \subseteq Edge
    /\ \A e \in InitEdge : From[e] \in InitNode /\ To[e] \in InitNode
    /\ Reply \subseteq SUBSET Token
    /\ MayFail \subseteq Node
    /\ NoNode \notin Node /\ NoEdge \notin Edge
    /\ MaxRetry \in Nat /\ MaxLog \in Nat

VARIABLES
    nodes, edges,   \* rows of lattice_nodes and lattice_edges
    nodeStatus,     \* lattice_nodes.status
    output,         \* lattice_nodes.output
    graphStatus,    \* lattice_graphs.status
    tokens,         \* rows of lattice_edge_tokens; never deleted
    log,            \* lattice_events, in seq order
    frame,          \* the local variables of each call in progress
    reported        \* node_complete / node_failed calls made per node

vars == <<nodes, edges, nodeStatus, output, graphStatus, tokens, log, frame,
          reported>>
topology == <<nodes, edges>>
-----------------------------------------------------------------------------
(***************************************************************************)
(* The frame of a call.  queue is advance_graph's stack of work items;     *)
(* node, out and failed are the item in hand; todo holds the (token, edge) *)
(* pairs still to route and hop the pair in hand, with the position read   *)
(* for it in seq; target is the argument of check_and_ready; roots is what *)
(* start_graph has left to seed.                                           *)
(***************************************************************************)
Hop  == [tok : Token, edge : Edge]
NoHop == [tok |-> Fresh(1, "ok"), edge |-> NoEdge]
Item == [node : Node, out : SUBSET Token, failed : BOOLEAN]

Op == {"none", "start", "advance", "edge", "node"}
Pc == {"idle", "roots", "seed", "pop", "mark", "log", "route", "deliver",
       "check", "enable", "ready", "failgraph", "failevent", "done",
       "doneevent", "status", "source"}

Frame ==
    [pc : Pc, op : Op, queue : Seq(Item), node : Node \cup {NoNode},
     out : SUBSET Token, failed : BOOLEAN, todo : SUBSET Hop,
     hop : Hop \cup {NoHop}, any : BOOLEAN, seq : Nat,
     target : Node \cup {NoNode}, roots : SUBSET Node]

IdleFrame ==
    [pc |-> "idle", op |-> "none", queue |-> <<>>, node |-> NoNode,
     out |-> {}, failed |-> FALSE, todo |-> {}, hop |-> NoHop, any |-> FALSE,
     seq |-> 0, target |-> NoNode, roots |-> {}]

At(w, p) == frame[w].pc = p
Goto(w, p) == frame' = [frame EXCEPT ![w].pc = p]
Return(w) == frame' = [frame EXCEPT ![w] = IdleFrame]

\* Definitions named X_... are faulty variants of X: with one in the place of
\* X, a property listed for it in PROJECT.json no longer holds.
Resume_LeavesLoop(f) == CASE f.op = "advance" -> [f EXCEPT !.pc = "pop"]
                          [] f.op = "start"   -> [f EXCEPT !.pc = "seed"]
                          [] OTHER            -> IdleFrame

\* Where a call continues once check_and_ready has returned.
Resume(f) == CASE f.op = "advance" -> [f EXCEPT !.pc = "route"]
               [] f.op = "start"   -> [f EXCEPT !.pc = "seed"]
               [] OTHER            -> IdleFrame

Persist(e) == log' = Append(log, e)
Events == {log[i] : i \in DOMAIN log}
Occurrences(e) == Cardinality({i \in DOMAIN log : log[i] = e})
-----------------------------------------------------------------------------
(***************************************************************************)
(* Queries.                                                                *)
(***************************************************************************)
Matches(cond, color) == cond = "any" \/ cond = color

\* count_edges_with_tokens leaves self-loops out of both of its counts.
Inbound(n)  == {e \in edges : To[e] = n /\ From[e] # n}
Outbound(n) == {e \in edges : From[e] = n}
Preds(n)    == {From[e] : e \in Inbound(n)}
Roots_SwappedEnds == {n \in nodes : Outbound(n) = {}}
Roots       == {n \in nodes : Inbound(n) = {}}

HasToken(e) == \E r \in tokens : r.edge = e
CountOn(e)  == Cardinality({r \in tokens : r.edge = e})

NextSeq(e) == CountOn(e) + 1

Enabled_AnyToken(n) == \E e \in Inbound(n) : HasToken(e)

\* The AND-join.  JoinType::Any cannot be reached: the join_type column is
\* never written and no query selects it.
Enabled(n) == Inbound(n) # {} /\ \A e \in Inbound(n) : HasToken(e)

\* get_node_inputs reads every inbound edge, self-loops included.
Inputs(n) == {[from |-> r.edge, seq |-> r.seq, color |-> r.color] :
                 r \in {q \in tokens : To[q.edge] = n}}

\* get_nodes of the completion test, which reads every status at once.
AllComplete == \A n \in nodes : nodeStatus[n] = "complete"

\* What a gather emits: all its inputs, or the first n of them in seq order
\* (rows with the same seq come in no specified order).
GatherOutputs(n) ==
    IF n \in GatherAll
    THEN {Inputs(n)}
    ELSE {S \in SUBSET Inputs(n) :
             /\ Cardinality(S) = IF Limit[n] < Cardinality(Inputs(n))
                                 THEN Limit[n] ELSE Cardinality(Inputs(n))
             /\ \A t \in S, u \in Inputs(n) \ S : t.seq <= u.seq}

SetNode(n, s, o) ==
    /\ nodeStatus' = [nodeStatus EXCEPT ![n] = s]
    /\ output' = [output EXCEPT ![n] = o]
-----------------------------------------------------------------------------
(***************************************************************************)
(* start_graph: a compare-and-set on the graph status, then one status     *)
(* update and one event per root.  A caller that loses the compare-and-set *)
(* changes nothing.                                                        *)
(***************************************************************************)
Start(w) ==
    /\ At(w, "idle")
    /\ graphStatus = "pending"
    /\ graphStatus' = "running"
    /\ frame' = [frame EXCEPT ![w] = [IdleFrame EXCEPT !.pc = "roots", !.op = "start"]]
    /\ UNCHANGED <<topology, nodeStatus, output, tokens, log, reported>>

\* get_nodes_with_no_predecessors.  Without roots the graph completes at
\* once; a root Gather is left out, so it stays pending.
ReadRoots(w) ==
    /\ At(w, "roots")
    /\ frame' = [frame EXCEPT ![w] =
                    IF Roots = {} THEN [@ EXCEPT !.pc = "done"]
                    ELSE [@ EXCEPT !.pc = "seed", !.roots = Roots \ Gather]]
    /\ UNCHANGED <<topology, nodeStatus, output, graphStatus, tokens, log, reported>>

Seed(w) ==
    /\ At(w, "seed")
    /\ \E n \in frame[w].roots :
          /\ SetNode(n, "ready", {})
          /\ frame' = [frame EXCEPT ![w].pc = "ready", ![w].target = n,
                                    ![w].roots = @ \ {n}]
    /\ UNCHANGED <<topology, graphStatus, tokens, log, reported>>

Seeded(w) ==
    /\ At(w, "seed")
    /\ frame[w].roots = {}
    /\ Return(w)
    /\ UNCHANGED <<topology, nodeStatus, output, graphStatus, tokens, log, reported>>
-----------------------------------------------------------------------------
(***************************************************************************)
(* advance_graph.                                                          *)
(***************************************************************************)
Advance(w, n, out, failed) ==
    frame' = [frame EXCEPT ![w] =
        [IdleFrame EXCEPT !.pc = "pop", !.op = "advance",
             !.queue = <<[node |-> n, out |-> out, failed |-> failed]>>]]

\* A caller answers a NodeReady event it has read with node_complete or
\* node_failed; it may repeat a call whose answer it did not get.
Report(w, n) ==
    /\ At(w, "idle")
    /\ n \in nodes
    /\ Ev("NodeReady", n) \in Events
    /\ reported[n] < Occurrences(Ev("NodeReady", n)) + MaxRetry
    /\ Len(log) < MaxLog
    /\ \/ \E out \in Reply : Advance(w, n, out, FALSE)
       \/ n \in MayFail /\ Advance(w, n, {Fresh(1, "error")}, TRUE)
    /\ reported' = [reported EXCEPT ![n] = @ + 1]
    /\ UNCHANGED <<topology, nodeStatus, output, graphStatus, tokens, log>>

\* Take the last work item and read its node: an item whose node is already
\* terminal is dropped.
IsTerminal_Complete(s) == s = "complete"
IsTerminal(s) == s \in {"complete", "failed"}
Pop(w) ==
    LET f == frame[w]
        i == f.queue[Len(f.queue)]
        rest == SubSeq(f.queue, 1, Len(f.queue) - 1)
    IN  /\ At(w, "pop")
        /\ f.queue # <<>>
        /\ frame' = [frame EXCEPT ![w] =
                IF IsTerminal(nodeStatus[i.node])
                THEN [f EXCEPT !.queue = rest]
                ELSE [f EXCEPT !.pc = "mark", !.queue = rest, !.node = i.node,
                               !.out = i.out, !.failed = i.failed]]
        /\ UNCHANGED <<topology, nodeStatus, output, graphStatus, tokens, log, reported>>

Mark(w) ==
    LET f == frame[w]
    IN  /\ At(w, "mark")
        /\ IF f.failed THEN SetNode(f.node, "failed", {})
                       ELSE SetNode(f.node, "complete", f.out)
        /\ Goto(w, "log")
        /\ UNCHANGED <<topology, graphStatus, tokens, log, reported>>

\* Persist the node's event and read its outbound edges: todo is the set of
\* tokens paired with the edges whose condition lets them through.
LogNode(w) ==
    LET f == frame[w]
    IN  /\ At(w, "log")
        /\ Persist(Ev(IF f.failed THEN "NodeFailed" ELSE "NodeDone", f.node))
        /\ frame' = [frame EXCEPT ![w] =
                [f EXCEPT !.pc = "route", !.any = FALSE, !.hop = NoHop,
                     !.todo = {h \in [tok : f.out, edge : Outbound(f.node)] :
                                  Matches(Cond[h.edge], h.tok.color)}]]
        /\ UNCHANGED <<topology, nodeStatus, output, graphStatus, tokens, reported>>

\* Tokens are routed in order, each over all its edges; the edges are read
\* without ORDER BY.
NextHops(f) ==
    LET same == {h \in f.todo : h.tok = f.hop.tok /\ f.hop.edge # NoEdge}
    IN  IF same # {} THEN same
        ELSE {h \in f.todo : \A g \in f.todo : h.tok.seq <= g.tok.seq}

\* count_tokens_on_edge; the position is used by the next statement.
Route(w) ==
    LET f == frame[w]
    IN  /\ At(w, "route")
        /\ \E h \in NextHops(f) :
              frame' = [frame EXCEPT ![w] =
                  [f EXCEPT !.pc = "deliver", !.hop = h, !.todo = @ \ {h},
                            !.seq = NextSeq(h.edge)]]
        /\ UNCHANGED <<topology, nodeStatus, output, graphStatus, tokens, log, reported>>

\* deliver_token.  A position taken meanwhile violates the primary key and
\* ends the whole call with an error, its queue lost.  advance_graph checks
\* the target after every token, add_edge after the last one.
Deliver(w) ==
    LET f == frame[w]
        e == f.hop.edge
    IN  /\ At(w, "deliver")
        /\ IF \E r \in tokens : r.edge = e /\ r.seq = f.seq
           THEN Return(w) /\ UNCHANGED tokens
           ELSE /\ tokens' = tokens \cup
                      {[edge |-> e, seq |-> f.seq, color |-> f.hop.tok.color]}
                /\ frame' = [frame EXCEPT ![w] =
                      [f EXCEPT !.any = TRUE, !.target = To[e],
                           !.pc = IF f.op = "advance" THEN "check" ELSE "route"]]
        /\ UNCHANGED <<topology, nodeStatus, output, graphStatus, log, reported>>

\* An item is finished when its tokens are routed.  A failure nobody handles
\* fails the graph and ends the call.  add_edge goes on to check its target.
Unhandled(f) == f.failed /\ ~f.any
AfterRouting_Unchecked(f) ==
    CASE f.op = "advance" /\ Unhandled(f) -> "failgraph"
      [] OTHER                            -> "pop"
AfterRouting(f) ==
    IF f.op # "advance" THEN "check"
    ELSE IF Unhandled(f) THEN "failgraph" ELSE "pop"

Routed(w) ==
    LET f == frame[w]
    IN  /\ At(w, "route")
        /\ f.todo = {}
        /\ Goto(w, AfterRouting(f))
        /\ UNCHANGED <<topology, nodeStatus, output, graphStatus, tokens, log, reported>>

FailGraph(w) ==
    /\ At(w, "failgraph")
    /\ graphStatus' = "failed"
    /\ Goto(w, "failevent")
    /\ UNCHANGED <<topology, nodeStatus, output, tokens, log, reported>>

LogGraphFailed(w) ==
    /\ At(w, "failevent")
    /\ Persist(Ev("GraphFailed", frame[w].node))
    /\ Return(w)
    /\ UNCHANGED <<topology, nodeStatus, output, graphStatus, tokens, reported>>

\* The queue is empty: read every node's status.
Finish(w) ==
    /\ At(w, "pop")
    /\ frame[w].queue = <<>>
    /\ IF AllComplete
       THEN Goto(w, "done")
       ELSE Return(w)
    /\ UNCHANGED <<topology, nodeStatus, output, graphStatus, tokens, log, reported>>

CompleteGraph(w) ==
    /\ At(w, "done")
    /\ graphStatus' = "complete"
    /\ Goto(w, "doneevent")
    /\ UNCHANGED <<topology, nodeStatus, output, tokens, log, reported>>

LogGraphDone(w) ==
    /\ At(w, "doneevent")
    /\ Persist(Ev("GraphDone", NoNode))
    /\ Return(w)
    /\ UNCHANGED <<topology, nodeStatus, output, graphStatus, tokens, reported>>
-----------------------------------------------------------------------------
(***************************************************************************)
(* check_and_ready(target): read the status, read the counts, write.       *)
(***************************************************************************)
MayBecomeReady_Again(s) == s = "complete"
MayBecomeReady(s) == s \in {"pending", "complete"}

\* A gather is executed by the call that enables it: its output goes on that
\* call's queue.  add_node and add_edge drop the output instead.
Enqueue(f, n, out) ==
    IF f.op = "advance"
    THEN [Resume(f) EXCEPT !.queue =
             Append(@, [node |-> n, out |-> out, failed |-> FALSE])]
    ELSE Resume(f)

Check(w) ==
    LET f == frame[w]
    IN  /\ At(w, "check")
        /\ frame' = [frame EXCEPT ![w] =
                IF MayBecomeReady(nodeStatus[f.target])
                THEN [f EXCEPT !.pc = "enable"]
                ELSE Resume(f)]
        /\ UNCHANGED <<topology, nodeStatus, output, graphStatus, tokens, log, reported>>

NotEnabled(w) ==
    LET f == frame[w]
    IN  /\ At(w, "enable")
        /\ ~Enabled(f.target)
        /\ frame' = [frame EXCEPT ![w] = Resume(f)]
        /\ UNCHANGED <<topology, nodeStatus, output, graphStatus, tokens, log, reported>>

EnableTask(w) ==
    LET f == frame[w]
    IN  /\ At(w, "enable")
        /\ Enabled(f.target)
        /\ f.target \notin Gather
        /\ SetNode(f.target, "ready", {})
        /\ Goto(w, "ready")
        /\ UNCHANGED <<topology, graphStatus, tokens, log, reported>>

EnableGather(w) ==
    LET f == frame[w]
    IN  /\ At(w, "enable")
        /\ Enabled(f.target)
        /\ f.target \in Gather
        /\ SetNode(f.target, "running", {})
        /\ \E out \in GatherOutputs(f.target) :
              frame' = [frame EXCEPT ![w] = Enqueue(f, f.target, out)]
        /\ UNCHANGED <<topology, graphStatus, tokens, log, reported>>

LogReady(w) ==
    LET f == frame[w]
    IN  /\ At(w, "ready")
        /\ Persist(Ev("NodeReady", f.target))
        /\ frame' = [frame EXCEPT ![w] = Resume(f)]
        /\ UNCHANGED <<topology, nodeStatus, output, graphStatus, tokens, reported>>
-----------------------------------------------------------------------------
\* lattice.cancel: one unconditional update, no event and no notification.
Cancel ==
    /\ graphStatus # "cancelled"
    /\ graphStatus' = "cancelled"
    /\ UNCHANGED <<topology, nodeStatus, output, tokens, log, frame, reported>>

Init ==
    /\ nodes = InitNode
    /\ edges = InitEdge
    /\ nodeStatus = [n \in Node |-> "pending"]
    /\ output = [n \in Node |-> {}]
    /\ graphStatus = "pending"
    /\ tokens = {}
    /\ log = <<>>
    /\ frame = [w \in Worker |-> IdleFrame]
    /\ reported = [n \in Node |-> 0]

\* The next statement of a call in progress.
Step(w) ==
    \/ ReadRoots(w) \/ Seed(w) \/ Seeded(w)
    \/ Pop(w) \/ Mark(w) \/ LogNode(w) \/ Route(w) \/ Deliver(w) \/ Routed(w)
    \/ FailGraph(w) \/ LogGraphFailed(w)
    \/ Finish(w) \/ CompleteGraph(w) \/ LogGraphDone(w)
    \/ Check(w) \/ NotEnabled(w) \/ EnableTask(w) \/ EnableGather(w) \/ LogReady(w)

Execute(w) == Start(w) \/ Step(w) \/ \E n \in Node : Report(w, n)

Next == Cancel \/ \E w \in Worker : Execute(w)

Spec == Init /\ [][Next]_vars

(***************************************************************************)
(* Fairness.  Every call is a spawned tokio task that runs to its end, and *)
(* a caller that has read a NodeReady event answers it once (its retries   *)
(* are not owed).  Nothing obliges anyone to cancel.                       *)
(***************************************************************************)
Owed(n) == reported[n] < Occurrences(Ev("NodeReady", n))
Answer(n) == Owed(n) /\ \E w \in Worker : Report(w, n)

Fairness ==
    /\ \A w \in Worker : WF_vars(Step(w))
    /\ \A n \in Node : WF_vars(Answer(n))

FairSpec == Spec /\ Fairness
-----------------------------------------------------------------------------
(***************************************************************************)
(* Properties.                                                             *)
(***************************************************************************)
\* The tables, the log and the frames hold values of their types.
TypeOK ==
    /\ nodes \subseteq Node
    /\ edges \subseteq Edge
    /\ nodeStatus \in [Node -> Status]
    /\ output \in [Node -> SUBSET Token]
    /\ graphStatus \in GStatus
    /\ tokens \subseteq Row
    /\ log \in Seq(Event)
    /\ frame \in [Worker -> Frame]
    /\ reported \in [Node -> Nat]

AllIdle == \A w \in Worker : At(w, "idle")
Answers(n) == {Ev("NodeDone", n), Ev("NodeFailed", n)}

\* The order of the log respects the edges: when NodeReady of a node is
\* logged, an answer of each of its predecessors is logged already, however
\* the calls that delivered its tokens interleaved (advance_graph and
\* check_and_ready).
DependencyOrder ==
    \A i \in DOMAIN log :
        log[i].type = "NodeReady" =>
            \A p \in Preds(log[i].node) :
                \E j \in 1..(i - 1) : log[j] \in Answers(p)

\* No lost enablement: once no call is in progress, no pending node has a
\* token on each of its edges.  Of several calls that deliver to one node,
\* the last one to count must see the others' tokens.
NothingForgotten ==
    AllIdle => \A n \in nodes : ~ (nodeStatus[n] = "pending" /\ Enabled(n))

\* No lost token: once no call is in progress, every edge out of a complete
\* node of a running graph carries the tokens its condition lets through.
NoTokenLost ==
    AllIdle /\ graphStatus = "running" =>
        \A e \in edges :
            (/\ nodeStatus[From[e]] = "complete"
             /\ \E t \in output[From[e]] : Matches(Cond[e], t.color))
            => HasToken(e)

\* Idempotency: in an acyclic graph a node is answered at most once in the
\* log, however often its caller repeats node_complete or node_failed.
AnsweredOnce ==
    \A n \in nodes : \A i, j \in DOMAIN log :
        log[i] \in Answers(n) /\ log[j] \in Answers(n) => i = j

\* A started graph reports an outcome, when no failure is handed on to other
\* nodes: the last call to finish finds all nodes complete, or the call of the
\* failed node fails the graph.
EventuallyReports ==
    graphStatus = "running" ~>
        \E e \in Events : e.type \in {"GraphDone", "GraphFailed"}

\* The promise of Dataflow, read off the engine's state.  A node is released
\* when its row leaves "pending", and settled from the update that makes it
\* terminal: its event is logged by the next statement of the same call.
InLog(w, n) == At(w, "log") /\ frame[w].node = n
Settled == {n \in nodes : \/ \E e \in Events : e \in Answers(n)
                          \/ \E w \in Worker : InLog(w, n)}
FailedOnce == {n \in nodes : \/ Ev("NodeFailed", n) \in Events
                             \/ \E w \in Worker : InLog(w, n) /\ frame[w].failed}
Outcome == {o \in {"done", "failed"} :
               \/ o = "done" /\ \E e \in Events : e.type = "GraphDone"
               \/ o = "failed" /\ \E e \in Events : e.type = "GraphFailed"}

Promise == INSTANCE Dataflow WITH
    Node <- InitNode, Edge <- InitEdge,
    released <- {n \in nodes : nodeStatus[n] # "pending"},
    settled <- Settled, failed <- FailedOnce, outcome <- Outcome

\* Every step of the engine, with any number of calls in progress, is a step
\* of the promise or leaves it unchanged.
KeepsPromise == Promise!Spec
-----------------------------------------------------------------------------
(***************************************************************************)
(* The inductive invariant of LatticeProofs.  A frame holds a node, a hop  *)
(* or a target whenever its pc is about to use one; every token in a table *)
(* or in hand comes from an answered node; and a call about to log         *)
(* NodeReady has seen the answers of all predecessors.                     *)
(***************************************************************************)
TypedFrame ==
    {f \in Frame : /\ f.pc \in {"pop", "mark", "log"} => f.op = "advance"
                   /\ f.pc \in {"route", "deliver"} => f.op \in {"advance", "edge"}
                   /\ f.pc \in {"roots", "seed"} => f.op = "start"
                   /\ f.pc \in {"mark", "log"} => f.node \in Node
                   /\ f.pc = "deliver" => f.hop \in Hop /\ f.seq > 0
                   /\ f.pc = "source" => f.op = "edge"
                   /\ f.pc = "status" => f.op \in {"node", "edge"}
                   /\ f.pc \in {"status", "source"} /\ f.op = "edge" =>
                          f.hop \in Hop /\ f.node \in Node
                   /\ f.pc \in {"status", "check", "enable", "ready"} \/ f.op = "edge" =>
                          f.target \in Node}

Typed ==
    /\ TypeOK
    /\ IsFiniteSet(tokens)
    /\ frame \in [Worker -> TypedFrame]

Answered == {n \in Node : \E e \in Events : e \in Answers(n)}

\* Preds over the edges the graph was built with, which Spec never changes.
Sources(n) == {From[e] : e \in {x \in InitEdge : To[x] = n /\ From[x] # n}}

CausalFrame(A) ==
    {f \in TypedFrame : /\ \A h \in f.todo : From[h.edge] \in A
                        /\ f.hop \in Hop => From[f.hop.edge] \in A
                        /\ \A n \in f.roots : Sources(n) = {}
                        /\ f.pc = "ready" => Sources(f.target) \subseteq A}

Causality ==
    /\ edges = InitEdge
    /\ \A r \in tokens : From[r.edge] \in Answered
    /\ frame \in [Worker -> CausalFrame(Answered)]
    /\ DependencyOrder

IInv == Typed /\ Causality
=============================================================================
