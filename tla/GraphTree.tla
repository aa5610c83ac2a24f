------------------------------- MODULE GraphTree -------------------------------
(***************************************************************************)
(* Graphs that plan graphs: how the methods of Orcha build, run, cancel    *)
(* and recover a graph (src/activations/orcha/activation.rs) whose Plan    *)
(* node builds a child graph and runs it inside its own task               *)
(* (dispatch_plan, graph_runner.rs).  A graph has one node here; Lattice   *)
(* and OrchaRunner are about graphs of many.                               *)
(***************************************************************************)
EXTENDS Naturals, FiniteSets, Maps

CONSTANTS
    MaxGraphs,     \* graphs ever created
    MaxRoots,      \* graphs that callers create
    MaxRestarts,
    Method         \* the methods that build a graph, of those below

ASSUME TreeAssumption ==
    /\ MaxGraphs \in Nat /\ MaxRoots \in Nat /\ MaxRestarts \in Nat
    /\ Method \subseteq {"build", "plan", "definition", "tickets", "files", "async"}

VARIABLES
    graph,         \* rows of the lattice: parent, kind and state of the node, status
    mapped,        \* graphs that have a ticket map in pm
    tokens,        \* cancel_registry: the signal that cancel_graph fires for a graph
    fired,         \* signals that have been fired
    caller,        \* how far the method that builds a graph has come
    run,           \* executions: run_graph_execution and the task of its node
    recovering, spawned,   \* graphs that recovery has yet to see to; tasks it has spawned
    restarts,
    gone           \* history: graphs whose client went before the method had ended

treeVars == <<graph, mapped, tokens, fired, caller, run, recovering, spawned, restarts, gone>>

Graph == 1..MaxGraphs
Root == 0                                  \* the parent of a graph that has none
Signal == Graph \X (0..MaxRestarts)        \* a graph registers once between two restarts
Fresh == Cardinality(DOMAIN graph) + 1
Own(g) == <<g, restarts>>
Children(S) == {g \in DOMAIN graph : graph[g].parent \in S}

NewGraph(parent, kind) == [parent |-> parent, kind |-> kind, node |-> "pending", status |-> "pending"]
-----------------------------------------------------------------------------
(***************************************************************************)
(* build_tickets, run_tickets and its variants, run_plan.                  *)
(***************************************************************************)
\* build_tickets, run_plan, run_graph_definition, run_tickets, run_tickets_files,
\* run_tickets_async.  Some look for the working directory, but not before the graph
\* is built; some leave the execution to a task, so that the client may go.
Unmapped == {"definition"}
LateCheck == {"tickets", "files"}
Background == {"tickets", "async"}

Build(method, kind) ==
    /\ Fresh \in Graph /\ Cardinality(Children({Root})) < MaxRoots
    /\ graph' = Put(graph, Fresh, NewGraph(Root, kind))
    /\ caller' = Put(caller, Fresh,
            [at |-> IF method \in Unmapped THEN "register" ELSE "save", method |-> method])
    /\ UNCHANGED <<mapped, tokens, fired, run, recovering, spawned, restarts, gone>>

At(g, step) == g \in DOMAIN caller /\ caller[g].at = step
Goto(g, step) == caller' = [caller EXCEPT ![g].at = step]
EndCall(g) == caller' = Without(caller, {g})

SaveMap(g) ==
    /\ At(g, "save")
    /\ mapped' = mapped \cup {g}
    /\ CASE caller[g].method = "build" -> EndCall(g)
         [] caller[g].method \in LateCheck -> Goto(g, "check")
         [] OTHER -> Goto(g, "register")
    /\ UNCHANGED <<graph, tokens, fired, run, recovering, spawned, restarts, gone>>

\* The caller is told that the run has failed.
CheckDirectory(g) ==
    /\ At(g, "check")
    /\ Goto(g, "register") \/ EndCall(g)
    /\ UNCHANGED <<graph, mapped, tokens, fired, run, recovering, spawned, restarts, gone>>

Started(g, signal, by) ==
    run' = Put(run, g, [signal |-> signal, by |-> by, task |-> "none", loop |-> TRUE, child |-> g])

Register(g) ==
    /\ At(g, "register")
    /\ tokens' = Put(tokens, g, Own(g))
    /\ Started(g, Own(g), IF caller[g].method \in Background THEN "task" ELSE "stream")
    /\ EndCall(g)
    /\ UNCHANGED <<graph, mapped, fired, recovering, spawned, restarts, gone>>

\* A graph that was built is run by a call of its own.  (OrchaRunner is about two
\* calls for one graph.)
RunGraph(g) ==
    /\ g \in DOMAIN graph /\ g \notin DOMAIN caller \cup DOMAIN run \cup recovering \cup spawned
    /\ graph[g].parent = Root /\ graph[g].status \in {"pending", "running"} /\ Own(g) \notin fired
    /\ tokens' = Put(tokens, g, Own(g))
    /\ Started(g, Own(g), "stream")
    /\ UNCHANGED <<graph, mapped, fired, caller, recovering, spawned, restarts, gone>>

\* The client of a stream goes, which ends the method where it waits, the methods
\* that return at once included.  The task of a node is a tokio task and goes on.
Disconnect(g) ==
    /\ \/ g \in DOMAIN caller /\ EndCall(g) /\ UNCHANGED run
       \/ /\ g \in DOMAIN run /\ run[g].by = "stream" /\ run[g].loop
          /\ run' = IF run[g].task \in {"none", "done"} THEN Without(run, {g})
                    ELSE [run EXCEPT ![g].loop = FALSE]
          /\ UNCHANGED caller
    /\ gone' = gone \cup {g}
    /\ UNCHANGED <<graph, mapped, tokens, fired, recovering, spawned, restarts>>
-----------------------------------------------------------------------------
(***************************************************************************)
(* An execution and the task of its node.                                  *)
(***************************************************************************)
On(g, task) == g \in DOMAIN run /\ run[g].task = task
Cancelled(g) == run[g].signal \in fired
TaskTo(g, task) == run' = [run EXCEPT ![g].task = task]

\* start_graph, when the stream of the execution is first polled.
StartGraph(g) ==
    /\ On(g, "none") /\ run[g].loop /\ graph[g].status = "pending"
    /\ graph' = [graph EXCEPT ![g].node = "ready", ![g].status = "running"]
    /\ UNCHANGED <<mapped, tokens, fired, caller, run, recovering, spawned, restarts, gone>>

StartNode(g) ==
    /\ On(g, "none") /\ run[g].loop /\ graph[g].node = "ready"
    /\ graph' = [graph EXCEPT ![g].node = "running"]
    /\ TaskTo(g, "started")
    /\ UNCHANGED <<mapped, tokens, fired, caller, recovering, spawned, restarts, gone>>

\* dispatch_task looks at the signal once before it starts the chat.
StartChat(g) ==
    /\ On(g, "started")
    /\ TaskTo(g, IF Cancelled(g) THEN "failed" ELSE "chat")
    /\ UNCHANGED <<graph, mapped, tokens, fired, caller, recovering, spawned, restarts, gone>>

ChatEnds(g) ==
    /\ On(g, "chat")
    /\ \/ TaskTo(g, IF graph[g].kind = "plan" THEN "planned" ELSE "complete")
       \/ TaskTo(g, "failed")
    /\ UNCHANGED <<graph, mapped, tokens, fired, caller, recovering, spawned, restarts, gone>>

StopChat(g) ==
    /\ On(g, "chat") /\ Cancelled(g)
    /\ TaskTo(g, "failed")
    /\ UNCHANGED <<graph, mapped, tokens, fired, caller, recovering, spawned, restarts, gone>>

\* The tickets may not compile.
BuildChild(g) ==
    /\ On(g, "planned")
    /\ \/ TaskTo(g, "failed") /\ UNCHANGED graph
       \/ \E kind \in {"plan", "agent"} :
             /\ Fresh \in Graph
             /\ graph' = Put(graph, Fresh, NewGraph(g, kind))
             /\ run' = [run EXCEPT ![g].task = "built", ![g].child = Fresh]
    /\ UNCHANGED <<mapped, tokens, fired, caller, recovering, spawned, restarts, gone>>

SaveChild(g) ==
    /\ On(g, "built")
    /\ mapped' = mapped \cup {run[g].child}
    /\ TaskTo(g, "mapped")
    /\ UNCHANGED <<graph, tokens, fired, caller, recovering, spawned, restarts, gone>>

\* The child gets a token of its own, and listens to the signal of its parent.
RunChild_OwnSignal(g) ==
    LET c == run[g].child
    IN  /\ On(g, "mapped")
        /\ tokens' = Put(tokens, c, Own(c))
        /\ run' = Put([run EXCEPT ![g].task = "child"], c,
                    [signal |-> Own(c), by |-> "plan", task |-> "none", loop |-> TRUE, child |-> c])
        /\ UNCHANGED <<graph, mapped, fired, caller, recovering, spawned, restarts, gone>>
RunChild(g) ==
    LET c == run[g].child
    IN  /\ On(g, "mapped")
        /\ tokens' = Put(tokens, c, Own(c))
        /\ run' = Put([run EXCEPT ![g].task = "child"], c,
                    [signal |-> run[g].signal, by |-> "plan", task |-> "none", loop |-> TRUE, child |-> c])
        /\ UNCHANGED <<graph, mapped, fired, caller, recovering, spawned, restarts, gone>>

\* complete_node or fail_node, and the graph is done with its only node.
Report(g) ==
    /\ g \in DOMAIN run /\ run[g].task \in {"complete", "failed"}
    /\ graph' = [graph EXCEPT ![g].node = run[g].task, ![g].status = run[g].task]
    /\ TaskTo(g, "done")
    /\ UNCHANGED <<mapped, tokens, fired, caller, recovering, spawned, restarts, gone>>


Removed_IfComplete(g) == IF graph[g].status = "complete" THEN {g} ELSE {}
Removed(g) == {g}

Finish(g) ==
    /\ On(g, "done")
    /\ tokens' = IF run[g].loop THEN Without(tokens, Removed(g)) ELSE tokens
    /\ run' = IF run[g].by = "plan"
              THEN [Without(run, {g}) EXCEPT ![graph[g].parent].task = graph[g].status]
              ELSE Without(run, {g})
    /\ UNCHANGED <<graph, mapped, fired, caller, recovering, spawned, restarts, gone>>

RunStep(g) ==
    \/ StartGraph(g) \/ StartNode(g) \/ StartChat(g) \/ StopChat(g) \/ BuildChild(g) \/ SaveChild(g) \/ RunChild(g)
    \/ Report(g) \/ Finish(g)
-----------------------------------------------------------------------------
(***************************************************************************)
(* cancel_graph; a restart and recover_running_graphs.                     *)
(***************************************************************************)
\* The graph and the graphs under it.
Tree_Children(g) == {g} \cup Children({g})
Tree(g) ==
    LET below[n \in Nat] == IF n = 0 THEN {g} ELSE below[n - 1] \cup Children(below[n - 1])
    IN  below[MaxGraphs]

CancelGraph(g) ==
    /\ g \in DOMAIN graph
    /\ fired' = fired \cup {tokens[x] : x \in Tree(g) \cap DOMAIN tokens}
    /\ tokens' = Without(tokens, Tree(g))
    /\ UNCHANGED <<graph, mapped, caller, run, recovering, spawned, restarts, gone>>

Recoverable == {g \in mapped : graph[g].status = "running"}

Restart ==
    /\ restarts < MaxRestarts
    /\ restarts' = restarts + 1
    /\ tokens' = <<>> /\ fired' = {} /\ caller' = <<>> /\ run' = <<>> /\ spawned' = {}
    /\ recovering' = Recoverable
    /\ UNCHANGED <<graph, mapped, gone>>

\* reset_running_to_ready, reemit_ready_nodes; the execution is spawned.
Recover(g) ==
    /\ g \in recovering
    /\ graph' = [graph EXCEPT ![g].node = IF @ = "running" THEN "ready" ELSE @]
    /\ recovering' = recovering \ {g} /\ spawned' = spawned \cup {g}
    /\ UNCHANGED <<mapped, tokens, fired, caller, run, restarts, gone>>

Attach(g) ==
    /\ g \in spawned
    /\ spawned' = spawned \ {g}
    /\ tokens' = Put(tokens, g, Own(g))
    /\ Started(g, Own(g), "task")
    /\ UNCHANGED <<graph, mapped, fired, caller, recovering, restarts, gone>>

TreeInit ==
    /\ graph = <<>> /\ mapped = {} /\ tokens = <<>> /\ fired = {} /\ caller = <<>> /\ run = <<>>
    /\ recovering = {} /\ spawned = {} /\ restarts = 0 /\ gone = {}

CallerStep(g) == SaveMap(g) \/ CheckDirectory(g) \/ Register(g)

TreeNext ==
    \/ \E method \in Method, kind \in {"plan", "agent"} : Build(method, kind)
    \/ \E g \in Graph : \/ CallerStep(g) \/ RunGraph(g) \/ Disconnect(g)
                        \/ RunStep(g) \/ ChatEnds(g)
                        \/ CancelGraph(g) \/ Recover(g) \/ Attach(g)
    \/ Restart

\* Steps of tasks that nobody else has to take; a chat need not end on its own.
TreeFairness == \A g \in Graph : WF_treeVars(RunStep(g))

TreeSpec == TreeInit /\ [][TreeNext]_treeVars /\ TreeFairness
-----------------------------------------------------------------------------
(***************************************************************************)
(* Properties.                                                             *)
(***************************************************************************)
\* cancel_graph does not call a graph unknown that is running: it has its token
\* until it ends or is cancelled.  And a token does not outlive its graph, unless
\* the client who would have removed it has gone.
TokensFollowRuns ==
    /\ \A g \in DOMAIN run : run[g].loop => g \in DOMAIN tokens \/ Cancelled(g)
                                             \/ run[g].by = "plan"
    /\ \A g \in DOMAIN tokens :
          graph[g].status # "running" => g \in DOMAIN run \cup gone

\* The graphs under r, in the rows: those in every set that holds r and, with a graph,
\* its children.
Under(r) ==
    {g \in DOMAIN graph : \A S \in SUBSET DOMAIN graph : r \in S /\ Children(S) \subseteq S => g \in S}

\* A cancel of a root reaches all that runs for it at that time, the children that
\* a restart has made executions of their own included, even if it finds no token of
\* the root and says so.
CancelReachesTree ==
    [][\A r \in DOMAIN graph :
          graph[r].parent = Root /\ CancelGraph(r) =>
              \A g \in DOMAIN run \cap Under(r) : run[g].signal \in fired']_treeVars

\* What has been cancelled ends, though a chat may never end on its own, and though
\* the cancel may come while a plan is building the graph that it will run.  Only a
\* run that waits for a node which a restart interrupted, and which recovery did not
\* reset because pm does not know the graph, has no task that could hear of it.
Interrupted(g) == On(g, "none") /\ graph[g].node = "running"

CancelledEnds ==
    \A g \in Graph :
        (g \in DOMAIN run /\ Cancelled(g) /\ ~Interrupted(g)) ~> g \notin DOMAIN run
=============================================================================
