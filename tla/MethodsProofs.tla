---------------------------- MODULE MethodsProofs ----------------------------
(***************************************************************************)
(* Theorems about Orcha's methods: the cancel tokens of graphs that plan   *)
(* graphs (GraphTree), the sessions with their copy in memory and the      *)
(* verdicts of their agents (OrchaSessions), and the nodes that judge the  *)
(* work of others (Gates). TreeIInv with PlansIInv, SessionsIInv and       *)
(* GatesIInv are the inductive invariants.                                 *)
(***************************************************************************)
EXTENDS OrchaSessions, GraphTree, Gates, Induction, FiniteSetTheorems, TLAPS

(***************************************************************************)
(* GraphTree: the types of its state.                                      *)
(***************************************************************************)
Stage == {"pending", "ready", "running", "complete", "failed"}
GraphRow == [parent : Graph \cup {Root}, kind : {"plan", "agent"}, node : Stage, status : Stage]
TaskStage == {"none", "started", "chat", "planned", "built", "mapped", "child",
              "complete", "failed", "done"}
Starter == {"task", "stream", "plan"}
Execution == [signal : Signal, by : Starter, task : TaskStage, loop : BOOLEAN, child : Graph]
Call == [at : {"save", "check", "register"}, method : Method]

\* Graphs are numbered in the order of their creation; all that is kept of a graph
\* is kept of one that exists.
GraphsTyped ==
    /\ \E n \in 0..MaxGraphs : DOMAIN graph = 1..n
    /\ \A y \in DOMAIN graph : graph[y] \in GraphRow
    /\ mapped \subseteq DOMAIN graph /\ recovering \subseteq DOMAIN graph /\ spawned \subseteq DOMAIN graph

RunsTyped ==
    /\ DOMAIN run \subseteq DOMAIN graph
    /\ \A y \in DOMAIN run :
          /\ run[y] \in Execution /\ run[y].child \in DOMAIN graph
          /\ run[y].task = "done" => graph[y].status \in {"complete", "failed"}

TokensTyped ==
    /\ restarts \in 0..MaxRestarts
    /\ DOMAIN tokens \subseteq DOMAIN graph
    /\ \A y \in DOMAIN tokens : tokens[y] \in Signal

CallersTyped ==
    /\ DOMAIN caller \subseteq DOMAIN graph
    /\ \A y \in DOMAIN caller : caller[y] \in Call

TreeTyped == GraphsTyped /\ RunsTyped /\ TokensTyped /\ CallersTyped

\* A token that is registered for an execution of its own is that execution's signal.
TokensAreSignals ==
    \A y \in DOMAIN run \cap DOMAIN tokens : run[y].by # "plan" => tokens[y] = run[y].signal

\* An execution whose loop has ended before it was over has lost its client.
OrphansAreGone == \A y \in DOMAIN run : ~run[y].loop => y \in gone

TreeIInv == TreeTyped /\ TokensAreSignals /\ OrphansAreGone /\ TokensFollowRuns

LEMMA FreshGraph ==
    ASSUME TreeTyped
    PROVE  /\ Fresh \notin DOMAIN graph
           /\ Fresh \in Graph => \E n \in 0..MaxGraphs : {Fresh} \cup DOMAIN graph = 1..n
<1>1. PICK n \in 0..MaxGraphs : DOMAIN graph = 1..n
  BY DEF TreeTyped, GraphsTyped
<1>2. Cardinality(1..n) = n
  <2>1. n \in Int /\ 1 \in Int /\ 1 <= n + 1
    BY <1>1, TreeAssumption
  <2> QED BY <2>1, FS_Interval
<1>3. Fresh = n + 1
  BY <1>1, <1>2 DEF Fresh
<1>4. {n + 1} \cup 1..n = 1..(n + 1)
  BY <1>1, TreeAssumption
<1> QED BY <1>1, <1>3, <1>4, TreeAssumption DEF Graph

LEMMA OwnSignal ==
    ASSUME TreeTyped, NEW y \in DOMAIN graph
    PROVE  y \in Graph /\ Own(y) \in Signal
BY TreeAssumption DEF TreeTyped, GraphsTyped, TokensTyped, Graph, Own, Signal

(***************************************************************************)
(* What a step may do to an execution without a change of its token.       *)
(***************************************************************************)
LEMMA QuietStep ==
    ASSUME TreeIInv, TreeTyped',
           UNCHANGED <<tokens, fired, gone>>,
           DOMAIN run' = DOMAIN run, DOMAIN graph \subseteq DOMAIN graph',
           \A y \in DOMAIN run : /\ run'[y].signal = run[y].signal
                                 /\ run'[y].by = run[y].by
                                 /\ run'[y].loop = run[y].loop,
           \A y \in DOMAIN graph \ DOMAIN run :
              graph'[y].status = graph[y].status \/ graph'[y].status = "running"
    PROVE  TreeIInv'
BY DEF TreeIInv, TreeTyped, TokensTyped, TokensAreSignals, OrphansAreGone, TokensFollowRuns, Cancelled

\* An execution begins, with a token of its own.
LEMMA StartStep ==
    ASSUME TreeIInv, TreeTyped', NEW y \in DOMAIN graph, NEW by, by # "plan",
           tokens' = Put(tokens, y, Own(y)), Started(y, Own(y), by),
           UNCHANGED <<graph, fired, gone>>
    PROVE  TreeIInv'
<1>1. /\ DOMAIN tokens' = {y} \cup DOMAIN tokens /\ tokens'[y] = Own(y)
      /\ \A z \in DOMAIN tokens \ {y} : tokens'[z] = tokens[z]
  BY DEF Put
<1>2. /\ DOMAIN run' = {y} \cup DOMAIN run
      /\ run'[y] = [signal |-> Own(y), by |-> by, task |-> "none", loop |-> TRUE, child |-> y]
      /\ \A z \in DOMAIN run \ {y} : run'[z] = run[z]
  BY DEF Put, Started
<1> QED
  BY <1>1, <1>2 DEF TreeIInv, TreeTyped, TokensAreSignals, OrphansAreGone, TokensFollowRuns, Cancelled

(***************************************************************************)
(* The methods.                                                            *)
(***************************************************************************)
LEMMA BuildKeeps ==
    ASSUME TreeIInv, NEW method \in Method, NEW kind \in {"plan", "agent"}, Build(method, kind)
    PROVE  TreeIInv'
<1>1. TreeTyped
  BY DEF TreeIInv
<1>2. /\ Fresh \notin DOMAIN graph
      /\ \E n \in 0..MaxGraphs : {Fresh} \cup DOMAIN graph = 1..n
  BY <1>1, FreshGraph DEF Build
<1>3. /\ DOMAIN graph' = {Fresh} \cup DOMAIN graph /\ graph'[Fresh] = NewGraph(Root, kind)
      /\ \A z \in DOMAIN graph : graph'[z] = graph[z]
  BY <1>2 DEF Put, Build
<1>4. GraphsTyped'
  <2>1. NewGraph(Root, kind) \in GraphRow
    BY DEF NewGraph, GraphRow, Root, Stage
  <2> QED BY <1>1, <1>2, <1>3, <2>1 DEF Build, TreeTyped, GraphsTyped
<1>5. CallersTyped'
  <2> DEFINE c == [at |-> IF method \in Unmapped THEN "register" ELSE "save", method |-> method]
  <2>1. c \in Call
    BY DEF Call
  <2>2. caller' = Put(caller, Fresh, c)
    BY DEF Build
  <2> HIDE DEF c
  <2> QED BY <1>1, <1>3, <2>1, <2>2 DEF Put, TreeTyped, CallersTyped
<1>6. TreeTyped'
  BY <1>1, <1>3, <1>4, <1>5 DEF Build, TreeTyped, RunsTyped, TokensTyped
<1> QED
  BY <1>3, <1>6, QuietStep DEF Build

LEMMA CallerKeeps ==
    ASSUME TreeIInv, NEW y \in Graph, SaveMap(y) \/ CheckDirectory(y)
    PROVE  TreeIInv'
<1>1. TreeTyped
  BY DEF TreeIInv
<1>2. y \in DOMAIN caller /\ UNCHANGED <<graph, tokens, fired, run, recovering, spawned, restarts, gone>>
  BY DEF SaveMap, CheckDirectory, At
<1>3. mapped' \subseteq DOMAIN graph
  BY <1>1, <1>2 DEF SaveMap, CheckDirectory, TreeTyped, GraphsTyped, CallersTyped
<1>4. EndCall(y) \/ Goto(y, "check") \/ Goto(y, "register")
  BY DEF SaveMap, CheckDirectory
<1>5. CallersTyped'
  <2>1. CASE EndCall(y)
    BY <1>1, <1>2, <2>1 DEF Without, EndCall, TreeTyped, CallersTyped
  <2>2. CASE Goto(y, "check") \/ Goto(y, "register")
    <3>1. PICK step \in {"check", "register"} : Goto(y, step)
      BY <2>2
    <3>2. caller[y] \in Call
      BY <1>1, <1>2 DEF TreeTyped, CallersTyped
    <3>3. [caller[y] EXCEPT !.at = step] \in Call
      BY <3>2 DEF Call
    <3> QED BY <1>1, <1>2, <3>1, <3>3 DEF Goto, TreeTyped, CallersTyped
  <2> QED BY <1>4, <2>1, <2>2
<1>6. TreeTyped'
  BY <1>1, <1>2, <1>3, <1>5 DEF TreeTyped, GraphsTyped, RunsTyped, TokensTyped
<1> QED
  BY <1>2, <1>6, QuietStep

\* Register, RunGraph and Attach: what they leave is typed.
LEMMA StartTyped ==
    ASSUME TreeTyped, NEW y \in DOMAIN graph, NEW by \in Starter,
           tokens' = Put(tokens, y, Own(y)), Started(y, Own(y), by),
           UNCHANGED <<graph, restarts>>
    PROVE  RunsTyped' /\ TokensTyped'
<1>1. y \in Graph /\ Own(y) \in Signal
  BY OwnSignal
<1>2. TokensTyped'
  BY <1>1 DEF Put, TreeTyped, TokensTyped, Signal
<1> DEFINE e == [signal |-> Own(y), by |-> by, task |-> "none", loop |-> TRUE, child |-> y]
<1>3. e \in Execution /\ e.child = y /\ e.task # "done"
  BY <1>1 DEF Execution, TaskStage
<1>4. run' = Put(run, y, e)
  BY DEF Started
<1> HIDE DEF e
<1> QED BY <1>2, <1>3, <1>4 DEF Put, TreeTyped, RunsTyped

LEMMA RegisterKeeps ==
    ASSUME TreeIInv, NEW y \in Graph, Register(y) \/ RunGraph(y) \/ Attach(y)
    PROVE  TreeIInv'
<1>1. TreeTyped
  BY DEF TreeIInv
<1>2. /\ tokens' = Put(tokens, y, Own(y))
      /\ UNCHANGED <<graph, mapped, fired, recovering, restarts, gone>>
  BY DEF Register, RunGraph, Attach
<1>3. y \in DOMAIN graph
  BY <1>1 DEF Register, RunGraph, Attach, At, TreeTyped, CallersTyped, GraphsTyped
<1>4. PICK by \in {"task", "stream"} : by \in Starter /\ Started(y, Own(y), by)
  BY DEF Starter, Register, RunGraph, Attach
<1>5. RunsTyped' /\ TokensTyped'
  BY <1>1, <1>2, <1>3, <1>4, StartTyped
<1>6. GraphsTyped'
  BY <1>1, <1>2 DEF TreeTyped, GraphsTyped, Register, RunGraph, Attach
<1>7. CallersTyped'
  <2>1. CASE UNCHANGED caller
    BY <1>1, <1>2, <2>1 DEF TreeTyped, CallersTyped
  <2>2. CASE EndCall(y)
    BY <1>1, <1>2, <2>2 DEF Without, TreeTyped, CallersTyped, EndCall
  <2> QED BY <2>1, <2>2 DEF Register, RunGraph, Attach
<1>8. TreeTyped' /\ by # "plan"
  BY <1>4, <1>5, <1>6, <1>7 DEF TreeTyped
<1> QED BY <1>2, <1>3, <1>4, <1>8, StartStep

LEMMA DisconnectKeeps ==
    ASSUME TreeIInv, NEW y \in Graph, Disconnect(y)
    PROVE  TreeIInv'
<1>1. TreeTyped
  BY DEF TreeIInv
<1>2. gone' = gone \cup {y} /\ UNCHANGED <<graph, mapped, tokens, fired, recovering, spawned, restarts>>
  BY DEF Disconnect
<1>3. CallersTyped'
  <2>1. CASE UNCHANGED caller
    BY <1>1, <1>2, <2>1 DEF TreeTyped, CallersTyped
  <2>2. CASE EndCall(y)
    BY <1>1, <1>2, <2>2 DEF Without, TreeTyped, CallersTyped, EndCall
  <2> QED BY <2>1, <2>2 DEF Disconnect
<1>4. CASE UNCHANGED run
  <2>1. TreeTyped'
    BY <1>1, <1>2, <1>3, <1>4 DEF TreeTyped, GraphsTyped, RunsTyped, TokensTyped
  <2> QED
    BY <1>2, <1>4, <2>1 DEF TreeIInv, TokensAreSignals, OrphansAreGone, TokensFollowRuns, Cancelled
<1>5. CASE run' = Without(run, {y})
  <2>1. /\ DOMAIN run' = DOMAIN run \ {y} /\ \A z \in DOMAIN run' : run'[z] = run[z]
    BY <1>5 DEF Without
  <2>2. TreeTyped'
    BY <1>1, <1>2, <1>3, <2>1 DEF TreeTyped, GraphsTyped, RunsTyped, TokensTyped
  <2> QED
    BY <1>2, <2>1, <2>2 DEF TreeIInv, TokensAreSignals, OrphansAreGone, TokensFollowRuns, Cancelled
<1>6. CASE y \in DOMAIN run /\ run' = [run EXCEPT ![y].loop = FALSE]
  <2>1. /\ DOMAIN run' = DOMAIN run /\ \A z \in DOMAIN run \ {y} : run'[z] = run[z]
        /\ run'[y] = [run[y] EXCEPT !.loop = FALSE]
    BY <1>6
  <2>2. /\ run[y] \in Execution /\ run'[y] \in Execution /\ ~run'[y].loop
        /\ run'[y].signal = run[y].signal /\ run'[y].by = run[y].by /\ run'[y].child = run[y].child
        /\ run'[y].task = run[y].task
    BY <1>1, <1>6, <2>1 DEF TreeTyped, RunsTyped, Execution
  <2>3. TreeTyped'
    BY <1>1, <1>2, <1>3, <2>1, <2>2 DEF TreeTyped, GraphsTyped, RunsTyped, TokensTyped
  <2> QED
    BY <1>2, <2>1, <2>2, <2>3, ZenonT(40) DEF TreeIInv, TokensAreSignals, OrphansAreGone, TokensFollowRuns, Cancelled
<1> QED BY <1>4, <1>5, <1>6 DEF Disconnect

(***************************************************************************)
(* The steps of an execution.                                              *)
(***************************************************************************)
LEMMA TaskGoesOn ==
    ASSUME TreeTyped, NEW y \in DOMAIN run, NEW task \in TaskStage,
           run' = [run EXCEPT ![y].task = task]
    PROVE  /\ DOMAIN run' = DOMAIN run
           /\ \A z \in DOMAIN run \ {y} : run'[z] = run[z]
           /\ run'[y] \in Execution /\ run'[y].task = task
           /\ \A z \in DOMAIN run : /\ run'[z].signal = run[z].signal
                                   /\ run'[z].by = run[z].by
                                   /\ run'[z].loop = run[z].loop
                                   /\ run'[z].child = run[z].child
<1>1. run[y] \in Execution /\ run'[y] = [run[y] EXCEPT !.task = task]
  BY DEF TreeTyped, RunsTyped
<1>2. /\ run'[y] \in Execution /\ run'[y].task = task
      /\ run'[y].signal = run[y].signal /\ run'[y].by = run[y].by
      /\ run'[y].loop = run[y].loop /\ run'[y].child = run[y].child
  BY <1>1 DEF Execution
<1> QED BY <1>2

\* A row of a graph gets a new stage of its node or a new status.
LEMMA RowChanges ==
    ASSUME GraphsTyped, NEW y \in DOMAIN graph, NEW node \in Stage, NEW status \in Stage,
           graph' = [graph EXCEPT ![y].node = node, ![y].status = status],
           UNCHANGED <<mapped, recovering, spawned>>
    PROVE  /\ GraphsTyped' /\ DOMAIN graph' = DOMAIN graph
           /\ graph'[y].status = status
           /\ \A z \in DOMAIN graph \ {y} : graph'[z] = graph[z]
<1>1. graph[y] \in GraphRow /\ graph'[y] = [graph[y] EXCEPT !.node = node, !.status = status]
  BY DEF GraphsTyped
<1>2. graph'[y] \in GraphRow /\ graph'[y].status = status
  BY <1>1 DEF GraphRow
<1> QED BY <1>2 DEF GraphsTyped

LEMMA StartGraphKeeps ==
    ASSUME TreeIInv, NEW y \in Graph, StartGraph(y)
    PROVE  TreeIInv'
<1>1. TreeTyped /\ GraphsTyped
  BY DEF TreeIInv, TreeTyped
<1>2. y \in DOMAIN run /\ y \in DOMAIN graph /\ run[y].task = "none"
  BY <1>1 DEF StartGraph, On, TreeTyped, RunsTyped
<1>3. PICK node \in Stage, status \in Stage :
         /\ graph' = [graph EXCEPT ![y].node = node, ![y].status = status]
         /\ status = "running"
  BY DEF StartGraph, Stage
<1>4. /\ UNCHANGED <<mapped, tokens, fired, caller, run, recovering, spawned, restarts, gone>>
  BY DEF StartGraph
<1>5. /\ GraphsTyped' /\ DOMAIN graph' = DOMAIN graph /\ graph'[y].status = "running"
      /\ \A z \in DOMAIN graph \ {y} : graph'[z] = graph[z]
  BY <1>1, <1>2, <1>3, <1>4, RowChanges, ZenonT(40)
<1>6. TreeTyped'
  BY <1>1, <1>2, <1>4, <1>5 DEF TreeTyped, RunsTyped, TokensTyped, CallersTyped
<1> QED BY <1>4, <1>5, <1>6, QuietStep

\* The steps of a task that write no row.
TaskOnly(y) == StartChat(y) \/ ChatEnds(y) \/ StopChat(y) \/ SaveChild(y)

LEMMA TaskOnlyKeeps ==
    ASSUME TreeIInv, NEW y \in Graph, TaskOnly(y)
    PROVE  TreeIInv'
<1>1. TreeTyped
  BY DEF TreeIInv
<1>2. y \in DOMAIN run /\ UNCHANGED <<graph, tokens, fired, caller, recovering, spawned, restarts, gone>>
  BY DEF TaskOnly, StartChat, ChatEnds, StopChat, SaveChild, On
<1>3. PICK task \in TaskStage \ {"done"} : TaskTo(y, task)
  BY DEF TaskOnly, StartChat, ChatEnds, StopChat, SaveChild, TaskStage
<1>4. mapped' \subseteq DOMAIN graph
  BY <1>1, <1>2 DEF TaskOnly, StartChat, ChatEnds, StopChat, SaveChild, TreeTyped, GraphsTyped, RunsTyped
<1>5. /\ DOMAIN run' = DOMAIN run
      /\ \A z \in DOMAIN run \ {y} : run'[z] = run[z]
      /\ run'[y] \in Execution /\ run'[y].task = task
      /\ \A z \in DOMAIN run : /\ run'[z].signal = run[z].signal
                              /\ run'[z].by = run[z].by
                              /\ run'[z].loop = run[z].loop
                              /\ run'[z].child = run[z].child
  BY <1>1, <1>2, <1>3, TaskGoesOn DEF TaskTo
<1>6. TreeTyped'
  BY <1>1, <1>2, <1>3, <1>4, <1>5 DEF TreeTyped, GraphsTyped, RunsTyped, TokensTyped, CallersTyped
<1> QED BY <1>2, <1>5, <1>6, QuietStep

LEMMA RowAndTaskKeeps ==
    ASSUME TreeIInv, NEW y \in Graph, StartNode(y) \/ Report(y)
    PROVE  TreeIInv'
<1>1. TreeTyped /\ GraphsTyped
  BY DEF TreeIInv, TreeTyped
<1>2. /\ y \in DOMAIN run /\ y \in DOMAIN graph
      /\ UNCHANGED <<mapped, tokens, fired, caller, recovering, spawned, restarts, gone>>
  BY <1>1 DEF StartNode, Report, On, TreeTyped, RunsTyped
<1>3. PICK node \in Stage, status \in Stage, task \in TaskStage :
         /\ graph' = [graph EXCEPT ![y].node = node, ![y].status = status]
         /\ TaskTo(y, task)
         /\ task = "done" => status \in {"complete", "failed"}
  <2>1. CASE StartNode(y)
    <3>1. graph[y] \in GraphRow
      BY <1>1, <1>2 DEF GraphsTyped
    <3>2. [graph[y] EXCEPT !.node = "running"] = [graph[y] EXCEPT !.node = "running", !.status = graph[y].status]
      BY <3>1 DEF GraphRow
    <3>3. graph' = [graph EXCEPT ![y].node = "running", ![y].status = graph[y].status]
      BY <2>1, <3>2 DEF StartNode
    <3>4. "running" \in Stage /\ graph[y].status \in Stage /\ "started" \in TaskStage
      BY <3>1 DEF GraphRow, Stage, TaskStage
    <3>5. TaskTo(y, "started") /\ "started" # "done"
      BY <2>1 DEF StartNode
    <3> QED BY <3>3, <3>4, <3>5
  <2>2. CASE Report(y)
    BY <2>2 DEF Report, Stage, TaskStage
  <2> QED BY <2>1, <2>2
<1>4. /\ GraphsTyped' /\ DOMAIN graph' = DOMAIN graph /\ graph'[y].status = status
      /\ \A z \in DOMAIN graph \ {y} : graph'[z] = graph[z]
  BY <1>1, <1>2, <1>3, RowChanges
<1>5. /\ DOMAIN run' = DOMAIN run
      /\ \A z \in DOMAIN run \ {y} : run'[z] = run[z]
      /\ run'[y] \in Execution /\ run'[y].task = task
      /\ \A z \in DOMAIN run : /\ run'[z].signal = run[z].signal
                              /\ run'[z].by = run[z].by
                              /\ run'[z].loop = run[z].loop
                              /\ run'[z].child = run[z].child
  BY <1>1, <1>2, <1>3, TaskGoesOn DEF TaskTo
<1>6. TreeTyped'
  BY <1>1, <1>2, <1>3, <1>4, <1>5 DEF TreeTyped, RunsTyped, TokensTyped, CallersTyped
<1> QED BY <1>2, <1>4, <1>5, <1>6, QuietStep

LEMMA BuildChildKeeps ==
    ASSUME TreeIInv, NEW y \in Graph, BuildChild(y)
    PROVE  TreeIInv'
<1>1. TreeTyped /\ GraphsTyped
  BY DEF TreeIInv, TreeTyped
<1>2. /\ y \in DOMAIN run /\ y \in DOMAIN graph
      /\ UNCHANGED <<mapped, tokens, fired, caller, recovering, spawned, restarts, gone>>
  BY <1>1 DEF BuildChild, On, TreeTyped, RunsTyped
<1>3. CASE TaskTo(y, "failed") /\ UNCHANGED graph
  <2>1. PICK task \in TaskStage \ {"done"} : TaskTo(y, task)
    BY <1>3 DEF TaskStage
  <2>2. /\ DOMAIN run' = DOMAIN run
        /\ \A z \in DOMAIN run \ {y} : run'[z] = run[z]
        /\ run'[y] \in Execution /\ run'[y].task = task
        /\ \A z \in DOMAIN run : /\ run'[z].signal = run[z].signal
                                /\ run'[z].by = run[z].by
                                /\ run'[z].loop = run[z].loop
                                /\ run'[z].child = run[z].child
    BY <1>1, <1>2, <2>1, TaskGoesOn DEF TaskTo
  <2>3. TreeTyped'
    BY <1>1, <1>2, <1>3, <2>1, <2>2 DEF TreeTyped, GraphsTyped, RunsTyped, TokensTyped, CallersTyped
  <2> QED BY <1>2, <1>3, <2>2, <2>3, QuietStep
<1>4. CASE \E kind \in {"plan", "agent"} :
              /\ Fresh \in Graph
              /\ graph' = Put(graph, Fresh, NewGraph(y, kind))
              /\ run' = [run EXCEPT ![y].task = "built", ![y].child = Fresh]
  <2>1. PICK kind \in {"plan", "agent"} :
           /\ Fresh \in Graph
           /\ graph' = Put(graph, Fresh, NewGraph(y, kind))
           /\ run' = [run EXCEPT ![y].task = "built", ![y].child = Fresh]
    BY <1>4
  <2>2. PICK c \in Graph : c = Fresh
    BY <2>1
  <2>3. c \notin DOMAIN graph /\ \E n \in 0..MaxGraphs : {c} \cup DOMAIN graph = 1..n
    BY <1>1, <2>2, FreshGraph
  <2>4. /\ DOMAIN graph' = {c} \cup DOMAIN graph /\ graph'[c] = NewGraph(y, kind)
        /\ \A z \in DOMAIN graph : graph'[z] = graph[z]
    BY <2>1, <2>2, <2>3 DEF Put
  <2>5. GraphsTyped'
    <3>1. NewGraph(y, kind) \in GraphRow
      BY DEF NewGraph, GraphRow, Stage
    <3> QED BY <1>1, <1>2, <2>3, <2>4, <3>1 DEF GraphsTyped
  <2>6. run[y] \in Execution
    BY <1>1, <1>2 DEF TreeTyped, RunsTyped
  <2>7. /\ DOMAIN run' = DOMAIN run /\ \A z \in DOMAIN run \ {y} : run'[z] = run[z]
        /\ run'[y] = [run[y] EXCEPT !.task = "built", !.child = c]
    <3>1. run' = [run EXCEPT ![y] = [run[y] EXCEPT !.task = "built", !.child = c]]
      BY <2>1, <2>2
    <3> QED BY <1>2, <3>1
  <2>8. /\ run'[y] \in Execution /\ run'[y].task # "done" /\ run'[y].child = c
        /\ run'[y].signal = run[y].signal /\ run'[y].by = run[y].by
        /\ run'[y].loop = run[y].loop
    BY <2>6, <2>7 DEF Execution, TaskStage
  <2>9. TreeTyped'
    BY <1>1, <1>2, <2>4, <2>5, <2>7, <2>8 DEF TreeTyped, RunsTyped, TokensTyped, CallersTyped
  <2> QED BY <1>2, <2>4, <2>7, <2>8, <2>9, QuietStep
<1> QED BY <1>3, <1>4 DEF BuildChild

LEMMA RunChildKeeps ==
    ASSUME TreeIInv, NEW y \in Graph, RunChild(y)
    PROVE  TreeIInv'
<1>1. TreeTyped
  BY DEF TreeIInv
<1>2. PICK c : c = run[y].child
  OBVIOUS
<1>3. /\ y \in DOMAIN run /\ run[y] \in Execution /\ c \in DOMAIN graph
      /\ UNCHANGED <<graph, mapped, fired, caller, recovering, spawned, restarts, gone>>
  BY <1>1, <1>2 DEF RunChild, On, TreeTyped, RunsTyped
<1>4. c \in Graph /\ Own(c) \in Signal
  BY <1>1, <1>3, OwnSignal
<1>5. DOMAIN tokens' = {c} \cup DOMAIN tokens /\ \A z \in DOMAIN tokens' :
         tokens'[z] = IF z = c THEN Own(c) ELSE tokens[z]
  BY <1>2 DEF RunChild, Put
<1> DEFINE e == [signal |-> run[y].signal, by |-> "plan", task |-> "none", loop |-> TRUE, child |-> c]
           r == [run EXCEPT ![y].task = "child"]
<1>6. e \in Execution /\ e.child = c /\ e.task # "done" /\ e.by = "plan" /\ e.loop = TRUE
  BY <1>3, <1>4 DEF Execution, TaskStage, Starter
<1>7. /\ DOMAIN r = DOMAIN run /\ \A z \in DOMAIN run \ {y} : r[z] = run[z]
      /\ r[y] = [run[y] EXCEPT !.task = "child"]
  BY <1>3
<1>8. /\ r[y] \in Execution /\ r[y].task # "done" /\ r[y].child = run[y].child
      /\ r[y].signal = run[y].signal /\ r[y].by = run[y].by /\ r[y].loop = run[y].loop
  BY <1>3, <1>7 DEF Execution, TaskStage
<1>9. run' = Put(r, c, e)
  BY <1>2 DEF RunChild
<1> HIDE DEF e, r
<1>10. /\ DOMAIN run' = {c} \cup DOMAIN run /\ run'[c] = e
       /\ \A z \in DOMAIN run \ {c} :
             /\ z # y => run'[z] = run[z]
             /\ z = y => run'[z] = r[y]
  BY <1>7, <1>9 DEF Put
<1>11. TreeTyped'
  BY <1>1, <1>3, <1>4, <1>5, <1>6, <1>8, <1>10, SMTT(30)
  DEF TreeTyped, GraphsTyped, RunsTyped, TokensTyped, CallersTyped
<1> QED
  BY <1>3, <1>5, <1>6, <1>8, <1>10, <1>11
  DEF TreeIInv, TokensAreSignals, OrphansAreGone, TokensFollowRuns, Cancelled

LEMMA FinishKeeps ==
    ASSUME TreeIInv, NEW y \in Graph, Finish(y)
    PROVE  TreeIInv'
<1>1. TreeTyped
  BY DEF TreeIInv
<1>2. /\ y \in DOMAIN run /\ y \in DOMAIN graph /\ run[y].task = "done"
      /\ UNCHANGED <<graph, mapped, fired, caller, recovering, spawned, restarts, gone>>
  BY <1>1 DEF Finish, On, TreeTyped, RunsTyped
<1>3. /\ DOMAIN tokens' \subseteq DOMAIN tokens
      /\ \A z \in DOMAIN tokens' : tokens'[z] = tokens[z]
      /\ \A z \in DOMAIN tokens \ {y} : z \in DOMAIN tokens'
      /\ run[y].loop => y \notin DOMAIN tokens'
  BY DEF Finish, Without, Removed
<1> DEFINE r == Without(run, {y})
           p == graph[y].parent
           status == graph[y].status
<1>4. DOMAIN r = DOMAIN run \ {y} /\ \A z \in DOMAIN r : r[z] = run[z]
  BY DEF Without
<1>5. status \in {"complete", "failed"} /\ status \in TaskStage
  BY <1>1, <1>2 DEF TreeTyped, RunsTyped, TaskStage
<1>6. run' = r \/ run' = [r EXCEPT ![p].task = status]
  BY DEF Finish
<1> HIDE DEF r, p, status
<1>7. /\ DOMAIN run' = DOMAIN run \ {y}
      /\ \A z \in DOMAIN run' : run'[z] = run[z] \/ run'[z] = [run[z] EXCEPT !.task = status]
  BY <1>4, <1>6
<1>8. \A z \in DOMAIN run' :
         /\ run'[z] \in Execution /\ run'[z].signal = run[z].signal /\ run'[z].by = run[z].by
         /\ run'[z].loop = run[z].loop /\ run'[z].child = run[z].child
         /\ run'[z].task = run[z].task \/ run'[z].task # "done"
  <2> SUFFICES ASSUME NEW z \in DOMAIN run'
               PROVE  /\ run'[z] \in Execution /\ run'[z].signal = run[z].signal
                      /\ run'[z].by = run[z].by /\ run'[z].loop = run[z].loop
                      /\ run'[z].child = run[z].child
                      /\ run'[z].task = run[z].task \/ run'[z].task # "done"
    OBVIOUS
  <2>1. run[z] \in Execution
    BY <1>1, <1>7 DEF TreeTyped, RunsTyped
  <2>2. CASE run'[z] = run[z]
    BY <2>1, <2>2
  <2>3. CASE run'[z] = [run[z] EXCEPT !.task = status]
    BY <1>5, <2>1, <2>3 DEF Execution
  <2> QED BY <1>7, <2>2, <2>3
<1>9. TreeTyped'
  BY <1>1, <1>2, <1>3, <1>7, <1>8 DEF TreeTyped, GraphsTyped, RunsTyped, TokensTyped, CallersTyped
<1> QED
  BY <1>2, <1>3, <1>7, <1>8, <1>9
  DEF TreeIInv, TokensAreSignals, OrphansAreGone, TokensFollowRuns, Cancelled

(***************************************************************************)
(* cancel_graph; a restart and the recovery.                               *)
(***************************************************************************)
LEMMA CancelKeeps ==
    ASSUME TreeIInv, NEW y \in Graph, CancelGraph(y)
    PROVE  TreeIInv'
<1>1. TreeTyped
  BY DEF TreeIInv
<1>2. UNCHANGED <<graph, mapped, caller, run, recovering, spawned, restarts, gone>>
  BY DEF CancelGraph
<1>3. /\ DOMAIN tokens' \subseteq DOMAIN tokens
      /\ \A z \in DOMAIN tokens' : tokens'[z] = tokens[z]
      /\ fired \subseteq fired'
      /\ \A z \in DOMAIN tokens : z \in DOMAIN tokens' \/ tokens[z] \in fired'
  BY DEF CancelGraph, Without
<1>4. TreeTyped'
  BY <1>1, <1>2, <1>3 DEF TreeTyped, GraphsTyped, RunsTyped, TokensTyped, CallersTyped
<1> QED
  BY <1>2, <1>3, <1>4 DEF TreeIInv, TokensAreSignals, OrphansAreGone, TokensFollowRuns, Cancelled

LEMMA RestartKeeps ==
    ASSUME TreeIInv, Restart
    PROVE  TreeIInv'
<1>1. TreeTyped
  BY DEF TreeIInv
<1>2. DOMAIN tokens' = {} /\ DOMAIN run' = {} /\ DOMAIN caller' = {}
  BY DEF Restart
<1>3. restarts' \in 0..MaxRestarts
  BY <1>1, TreeAssumption DEF Restart, TreeTyped, TokensTyped
<1>4. GraphsTyped'
  BY <1>1 DEF Restart, Recoverable, TreeTyped, GraphsTyped
<1>5. TreeTyped'
  BY <1>2, <1>3, <1>4 DEF TreeTyped, RunsTyped, TokensTyped, CallersTyped
<1> QED
  BY <1>2, <1>5 DEF TreeIInv, TokensAreSignals, OrphansAreGone, TokensFollowRuns

LEMMA RecoverKeeps ==
    ASSUME TreeIInv, NEW y \in Graph, Recover(y)
    PROVE  TreeIInv'
<1>1. TreeTyped
  BY DEF TreeIInv
<1>2. /\ y \in DOMAIN graph /\ graph[y] \in GraphRow
      /\ UNCHANGED <<mapped, tokens, fired, caller, run, restarts, gone>>
      /\ recovering' \subseteq DOMAIN graph /\ spawned' \subseteq DOMAIN graph
  BY <1>1 DEF Recover, TreeTyped, GraphsTyped
<1>3. PICK node \in Stage : graph' = [graph EXCEPT ![y].node = node]
  <2>1. graph[y].node \in Stage /\ "ready" \in Stage
    BY <1>2 DEF GraphRow, Stage
  <2> QED BY <1>2, <2>1 DEF Recover
<1>4. graph'[y] = [graph[y] EXCEPT !.node = node]
  BY <1>2, <1>3
<1>5. graph'[y] \in GraphRow /\ graph'[y].status = graph[y].status
  BY <1>2, <1>4 DEF GraphRow
<1>6. DOMAIN graph' = DOMAIN graph /\ \A z \in DOMAIN graph \ {y} : graph'[z] = graph[z]
  BY <1>3
<1>7. TreeTyped'
  BY <1>1, <1>2, <1>5, <1>6 DEF TreeTyped, GraphsTyped, RunsTyped, TokensTyped, CallersTyped
<1> QED BY <1>2, <1>5, <1>6, <1>7, QuietStep

LEMMA TreeInitially == TreeInit => TreeIInv
BY TreeAssumption
DEF TreeInit, TreeIInv, TreeTyped, GraphsTyped, RunsTyped, TokensTyped, CallersTyped,
    TokensAreSignals, OrphansAreGone, TokensFollowRuns

LEMMA TreeInductive == TreeIInv /\ [TreeNext]_treeVars => TreeIInv'
<1> SUFFICES ASSUME TreeIInv, [TreeNext]_treeVars
             PROVE  TreeIInv'
  OBVIOUS
<1>1. ASSUME NEW method \in Method, NEW kind \in {"plan", "agent"}, Build(method, kind)
      PROVE  TreeIInv'
  BY <1>1, BuildKeeps
<1>2. ASSUME NEW y \in Graph, CallerStep(y) \/ RunGraph(y) \/ Disconnect(y) \/ Attach(y)
      PROVE  TreeIInv'
  BY <1>2, CallerKeeps, RegisterKeeps, DisconnectKeeps DEF CallerStep
<1>3. ASSUME NEW y \in Graph, RunStep(y) \/ ChatEnds(y)
      PROVE  TreeIInv'
  BY <1>3, StartGraphKeeps, TaskOnlyKeeps, RowAndTaskKeeps, BuildChildKeeps, RunChildKeeps,
     FinishKeeps DEF RunStep, TaskOnly
<1>4. ASSUME NEW y \in Graph, CancelGraph(y) \/ Recover(y)
      PROVE  TreeIInv'
  BY <1>4, CancelKeeps, RecoverKeeps
<1>5. CASE UNCHANGED treeVars
  <2>1. TreeTyped'
    BY <1>5 DEF treeVars, TreeIInv, TreeTyped, GraphsTyped, RunsTyped, TokensTyped, CallersTyped
  <2> QED BY <1>5, <2>1, QuietStep DEF treeVars
<1> QED BY <1>1, <1>2, <1>3, <1>4, <1>5, RestartKeeps DEF TreeNext

\* TokensFollowRuns (cancel_registry in activation.rs): for any number of graphs, of
\* plans within plans and of restarts, cancel_graph knows every graph that runs by an
\* execution of its own until it ends or is cancelled, and a token does not outlive
\* its graph unless the client has gone.
THEOREM RunningGraphsCanBeCancelled == TreeSpec => []TokensFollowRuns
<1>1. TreeIInv => TokensFollowRuns
  BY DEF TreeIInv
<1> QED BY <1>1, TreeInitially, TreeInductive, PTL DEF TreeSpec
(***************************************************************************)
(* GraphTree: who listens to which signal. PlansIInv says it of plans      *)
(* within plans, whose executions share the signal of the outermost.       *)
(***************************************************************************)
\* Graphs that an execution, a method or the recovery has in hand.
Taken == DOMAIN run \cup DOMAIN caller \cup recovering \cup spawned

\* Nobody starts a graph that another has in hand.
OneStarter ==
    /\ DOMAIN run \cap DOMAIN caller = {} /\ recovering \cap spawned = {}
    /\ (DOMAIN run \cup DOMAIN caller) \cap (recovering \cup spawned) = {}

\* An execution of its own hears of a cancel: it has been fired, or its token is the
\* one registered.
TokensReach ==
    \A y \in DOMAIN run : run[y].by # "plan" =>
        Cancelled(y) \/ (y \in DOMAIN tokens /\ tokens[y] = run[y].signal)

\* An execution that a plan has started hears the signal of the plan, which waits for
\* it and for no other.
Planned ==
    \A y \in DOMAIN run : run[y].by = "plan" =>
        LET p == graph[y].parent
        IN  p \in DOMAIN run /\ run[p].task = "child" /\ run[p].child = y /\ run[p].signal = run[y].signal

\* The child that a plan has built and not yet run is in nobody's hand.
ToRun ==
    \A y \in DOMAIN run : run[y].task \in {"built", "mapped"} =>
        graph[run[y].child].parent = y /\ run[y].child \notin Taken

PlansIInv == OneStarter /\ TokensReach /\ Planned /\ ToRun

\* A step that starts and ends no execution.
LEMMA QuietPlans ==
    ASSUME TreeTyped, PlansIInv, OneStarter',
           DOMAIN run' = DOMAIN run, DOMAIN graph \subseteq DOMAIN graph',
           \A y \in DOMAIN graph : graph'[y].parent = graph[y].parent,
           Taken' \cap DOMAIN graph \subseteq Taken,
           fired \subseteq fired',
           \A y \in DOMAIN tokens : \/ y \in DOMAIN tokens' /\ tokens'[y] = tokens[y]
                                    \/ tokens[y] \in fired',
           \A y \in DOMAIN run :
              /\ run'[y].signal = run[y].signal /\ run'[y].by = run[y].by
              /\ \/ run'[y].task = run[y].task /\ run'[y].child = run[y].child
                 \/ run[y].task # "child" /\ run'[y].task \notin {"built", "mapped"}
                 \/ run[y].task = "built" /\ run'[y].task = "mapped" /\ run'[y].child = run[y].child
    PROVE  PlansIInv'
<1>1. DOMAIN run \subseteq DOMAIN graph /\ \A y \in DOMAIN run : run[y].child \in DOMAIN graph
  BY DEF TreeTyped, RunsTyped
<1>2. TokensReach'
  BY DEF PlansIInv, TokensReach, Cancelled
<1>3. Planned'
  <2>1. SUFFICES ASSUME NEW y \in DOMAIN run, run[y].by = "plan"
                 PROVE  \E p \in DOMAIN run : /\ p = graph'[y].parent /\ run'[p].task = "child"
                                              /\ run'[p].child = y /\ run'[p].signal = run'[y].signal
    BY DEF Planned
  <2>2. PICK p \in DOMAIN run : /\ p = graph[y].parent /\ run[p].task = "child"
                                /\ run[p].child = y /\ run[p].signal = run[y].signal
    BY <2>1 DEF PlansIInv, Planned
  <2> QED BY <1>1, <2>2
<1>4. ToRun'
  <2>1. SUFFICES ASSUME NEW y \in DOMAIN run, run'[y].task \in {"built", "mapped"}
                 PROVE  graph'[run'[y].child].parent = y /\ run'[y].child \notin Taken'
    BY DEF ToRun
  <2>2. run'[y].child = run[y].child /\ run[y].task \in {"built", "mapped"} BY <2>1
  <2>3. graph[run[y].child].parent = y /\ run[y].child \notin Taken BY <2>2 DEF PlansIInv, ToRun
  <2> QED BY <1>1, <2>2, <2>3
<1> QED BY <1>2, <1>3, <1>4 DEF PlansIInv

\* The methods and the recovery.
LEMMA BuildPlans ==
    ASSUME TreeIInv, PlansIInv, NEW method \in Method, NEW kind \in {"plan", "agent"}, Build(method, kind)
    PROVE  PlansIInv'
<1>1. TreeTyped BY DEF TreeIInv
<1>2. Fresh \notin DOMAIN graph BY <1>1, FreshGraph
<1>3. /\ DOMAIN graph' = {Fresh} \cup DOMAIN graph /\ \A z \in DOMAIN graph : graph'[z] = graph[z]
      /\ DOMAIN caller' = {Fresh} \cup DOMAIN caller
      /\ UNCHANGED <<mapped, tokens, fired, run, recovering, spawned, restarts, gone>>
  BY <1>2 DEF Put, Build
<1>4. (DOMAIN run \cup DOMAIN caller \cup recovering \cup spawned) \subseteq DOMAIN graph
  BY <1>1 DEF TreeTyped, GraphsTyped, RunsTyped, CallersTyped
<1>5. OneStarter' BY <1>2, <1>3, <1>4 DEF PlansIInv, OneStarter
<1>6. Taken' \cap DOMAIN graph \subseteq Taken BY <1>2, <1>3 DEF Taken
<1> QED BY <1>1, <1>3, <1>5, <1>6, QuietPlans

LEMMA CallerPlans ==
    ASSUME TreeIInv, PlansIInv, NEW y \in Graph, SaveMap(y) \/ CheckDirectory(y)
    PROVE  PlansIInv'
<1>1. TreeTyped BY DEF TreeIInv
<1>2. UNCHANGED <<graph, tokens, fired, run, recovering, spawned, restarts, gone>>
  BY DEF SaveMap, CheckDirectory
<1>3. DOMAIN caller' \subseteq DOMAIN caller
  BY DEF SaveMap, CheckDirectory, EndCall, Goto, Without
<1>4. OneStarter' /\ Taken' \cap DOMAIN graph \subseteq Taken
  BY <1>2, <1>3 DEF PlansIInv, OneStarter, Taken
<1> QED BY <1>1, <1>2, <1>4, QuietPlans

\* An execution of its own.
LEMMA RegisterPlans ==
    ASSUME TreeIInv, PlansIInv, NEW y \in Graph, Register(y) \/ RunGraph(y) \/ Attach(y)
    PROVE  PlansIInv'
<1>1. TreeTyped BY DEF TreeIInv
<1>2. y \in DOMAIN graph
  BY <1>1 DEF Register, RunGraph, Attach, At, TreeTyped, CallersTyped, GraphsTyped
<1>3. /\ tokens' = Put(tokens, y, Own(y)) /\ UNCHANGED <<graph, fired, recovering, restarts>>
      /\ \/ y \in DOMAIN caller /\ DOMAIN caller' = DOMAIN caller \ {y} /\ UNCHANGED spawned
         \/ y \in spawned /\ spawned' = spawned \ {y} /\ UNCHANGED caller
         \/ y \notin Taken /\ graph[y].parent = Root /\ UNCHANGED <<caller, spawned>>
  BY DEF Register, RunGraph, Attach, At, EndCall, Without, Taken
<1>4. PICK by \in {"task", "stream"} : Started(y, Own(y), by)
  BY DEF Register, RunGraph, Attach
<1>5. PICK e : e = [signal |-> Own(y), by |-> by, task |-> "none", loop |-> TRUE, child |-> y]
  OBVIOUS
<1>6. e.signal = Own(y) /\ e.by # "plan" /\ e.task = "none" BY <1>5
<1>7. DOMAIN run' = {y} \cup DOMAIN run /\ run'[y] = e /\ \A z \in DOMAIN run \ {y} : run'[z] = run[z]
  BY <1>4, <1>5 DEF Started, Put
<1>8. y \notin DOMAIN run BY <1>3 DEF PlansIInv, OneStarter, Taken
<1>9. OneStarter' BY <1>3, <1>7 DEF PlansIInv, OneStarter, Taken
<1>10. /\ DOMAIN tokens' = {y} \cup DOMAIN tokens /\ tokens'[y] = Own(y)
       /\ \A z \in DOMAIN tokens \ {y} : tokens'[z] = tokens[z]
  BY <1>3 DEF Put
<1>11. TokensReach' BY <1>3, <1>6, <1>7, <1>10 DEF PlansIInv, TokensReach, Cancelled
<1>12. Planned'
  <2>1. SUFFICES ASSUME NEW z \in DOMAIN run, run[z].by = "plan"
                 PROVE  \E p \in DOMAIN run' : /\ p = graph[z].parent /\ run'[p].task = "child"
                                               /\ run'[p].child = z /\ run'[p].signal = run'[z].signal
    BY <1>3, <1>6, <1>7, <1>8 DEF Planned
  <2>2. PICK p \in DOMAIN run : /\ p = graph[z].parent /\ run[p].task = "child"
                                /\ run[p].child = z /\ run[p].signal = run[z].signal
    BY <2>1 DEF PlansIInv, Planned
  <2> QED BY <1>7, <1>8, <2>2
<1>13. ToRun'
  <2>1. SUFFICES ASSUME NEW z \in DOMAIN run, run[z].task \in {"built", "mapped"}
                 PROVE  graph[run[z].child].parent = z /\ run[z].child \notin Taken'
    BY <1>3, <1>6, <1>7, <1>8 DEF ToRun
  <2>2. graph[run[z].child].parent = z /\ run[z].child \notin Taken BY <2>1 DEF PlansIInv, ToRun
  <2>3. z # Root
    <3>1. z \in Graph BY <1>1, OwnSignal DEF TreeTyped, RunsTyped
    <3> QED BY <3>1, TreeAssumption DEF Graph, Root
  <2>4. run[z].child # y BY <1>3, <2>2, <2>3 DEF Taken
  <2>5. Taken' \subseteq Taken \cup {y} BY <1>3, <1>7 DEF Taken
  <2> QED BY <2>2, <2>4, <2>5
<1> QED BY <1>9, <1>11, <1>12, <1>13 DEF PlansIInv

\* An execution leaves that has planned nothing which still runs.
LEMMA LeavePlans ==
    ASSUME PlansIInv, NEW y \in DOMAIN run, run[y].task # "child", run[y].by # "plan",
           DOMAIN run' = DOMAIN run \ {y}, \A z \in DOMAIN run \ {y} : run'[z] = run[z],
           \A z \in DOMAIN tokens \ {y} : z \in DOMAIN tokens' /\ tokens'[z] = tokens[z],
           UNCHANGED <<graph, fired, caller, recovering, spawned>>
    PROVE  PlansIInv'
<1>1. OneStarter' BY DEF PlansIInv, OneStarter
<1>2. TokensReach' BY DEF PlansIInv, TokensReach, Cancelled
<1>3. Planned'
  <2>1. SUFFICES ASSUME NEW z \in DOMAIN run', run[z].by = "plan"
                 PROVE  \E p \in DOMAIN run' : /\ p = graph[z].parent /\ run[p].task = "child"
                                               /\ run[p].child = z /\ run[p].signal = run[z].signal
    BY DEF Planned
  <2>2. PICK p \in DOMAIN run : /\ p = graph[z].parent /\ run[p].task = "child"
                                /\ run[p].child = z /\ run[p].signal = run[z].signal
    BY <2>1 DEF PlansIInv, Planned
  <2> QED BY <2>2
<1>4. ToRun' BY DEF PlansIInv, ToRun, Taken
<1> QED BY <1>1, <1>2, <1>3, <1>4 DEF PlansIInv

LEMMA DisconnectPlans ==
    ASSUME TreeIInv, PlansIInv, NEW y \in Graph, Disconnect(y)
    PROVE  PlansIInv'
<1>1. TreeTyped BY DEF TreeIInv
<1>2. UNCHANGED <<graph, tokens, fired, recovering, spawned, restarts>> BY DEF Disconnect
<1>3. CASE y \in DOMAIN caller /\ EndCall(y) /\ UNCHANGED run
  <2>1. DOMAIN caller' \subseteq DOMAIN caller BY <1>3 DEF EndCall, Without
  <2>2. OneStarter' /\ Taken' \cap DOMAIN graph \subseteq Taken
    BY <1>2, <1>3, <2>1 DEF PlansIInv, OneStarter, Taken
  <2> QED BY <1>1, <1>2, <1>3, <2>2, QuietPlans
<1>4. CASE /\ y \in DOMAIN run /\ run[y].by = "stream" /\ run[y].task \in {"none", "done"}
           /\ run' = Without(run, {y}) /\ UNCHANGED caller
  <2>1. /\ DOMAIN run' = DOMAIN run \ {y} /\ \A z \in DOMAIN run \ {y} : run'[z] = run[z]
        /\ run[y].task # "child" /\ run[y].by # "plan"
    BY <1>4 DEF Without
  <2> QED BY <1>2, <1>4, <2>1, LeavePlans
<1>5. CASE y \in DOMAIN run /\ run' = [run EXCEPT ![y].loop = FALSE] /\ UNCHANGED caller
  <2>1. /\ DOMAIN run' = DOMAIN run /\ \A z \in DOMAIN run \ {y} : run'[z] = run[z]
        /\ run'[y] = [run[y] EXCEPT !.loop = FALSE]
    BY <1>5
  <2>2. run[y] \in Execution BY <1>1, <1>5 DEF TreeTyped, RunsTyped
  <2>3. /\ run'[y].signal = run[y].signal /\ run'[y].by = run[y].by /\ run'[y].child = run[y].child
        /\ run'[y].task = run[y].task
    BY <2>1, <2>2 DEF Execution
  <2>4. OneStarter' /\ Taken' = Taken BY <1>2, <1>5, <2>1 DEF PlansIInv, OneStarter, Taken
  <2>5. \A z \in DOMAIN run : /\ run'[z].signal = run[z].signal /\ run'[z].by = run[z].by
                              /\ run'[z].child = run[z].child /\ run'[z].task = run[z].task
    BY <2>1, <2>3
  <2> QED BY <1>1, <1>2, <2>1, <2>4, <2>5, QuietPlans
<1> QED BY <1>3, <1>4, <1>5 DEF Disconnect

LEMMA StartGraphPlans ==
    ASSUME TreeIInv, PlansIInv, NEW y \in Graph, StartGraph(y) \/ Recover(y)
    PROVE  PlansIInv'
<1>1. TreeTyped BY DEF TreeIInv
<1>2. UNCHANGED <<tokens, fired, caller, run>> BY DEF StartGraph, Recover
<1>3. y \in DOMAIN graph
  BY <1>1 DEF StartGraph, Recover, On, TreeTyped, RunsTyped, GraphsTyped
<1>4. graph[y] \in GraphRow BY <1>1, <1>3 DEF TreeTyped, GraphsTyped
<1>5. PICK row : /\ graph' = [graph EXCEPT ![y] = row] /\ row.parent = graph[y].parent
  <2>1. CASE StartGraph(y)
    <3>1. PICK row : row = [graph[y] EXCEPT !.node = "ready", !.status = "running"] OBVIOUS
    <3>2. row.parent = graph[y].parent BY <1>4, <3>1 DEF GraphRow
    <3>3. graph' = [graph EXCEPT ![y] = row] BY <2>1, <3>1 DEF StartGraph
    <3> QED BY <3>2, <3>3
  <2>2. CASE Recover(y)
    <3>1. PICK row : row = [graph[y] EXCEPT !.node = IF @ = "running" THEN "ready" ELSE @] OBVIOUS
    <3>2. row.parent = graph[y].parent BY <1>4, <3>1 DEF GraphRow
    <3>3. graph' = [graph EXCEPT ![y] = row] BY <2>2, <3>1 DEF Recover
    <3> QED BY <3>2, <3>3
  <2> QED BY <2>1, <2>2
<1>6. DOMAIN graph' = DOMAIN graph /\ \A z \in DOMAIN graph : graph'[z].parent = graph[z].parent
  BY <1>3, <1>5
<1>7. OneStarter' /\ Taken' = Taken
  BY <1>2 DEF StartGraph, Recover, PlansIInv, OneStarter, Taken
<1> QED BY <1>1, <1>2, <1>6, <1>7, QuietPlans

\* A task goes on.
LEMMA TaskPlans ==
    ASSUME TreeIInv, PlansIInv, NEW y \in DOMAIN run, NEW task \in TaskStage, TaskTo(y, task),
           UNCHANGED <<tokens, fired, caller, recovering, spawned>>,
           DOMAIN graph' = DOMAIN graph,
           \A z \in DOMAIN graph : graph'[z].parent = graph[z].parent,
           \/ run[y].task # "child" /\ task \notin {"built", "mapped"}
           \/ run[y].task = "built" /\ task = "mapped"
    PROVE  PlansIInv'
<1>1. TreeTyped BY DEF TreeIInv
<1>2. /\ DOMAIN run' = DOMAIN run
      /\ \A z \in DOMAIN run \ {y} : run'[z] = run[z]
      /\ run'[y] \in Execution /\ run'[y].task = task
      /\ \A z \in DOMAIN run : /\ run'[z].signal = run[z].signal
                              /\ run'[z].by = run[z].by
                              /\ run'[z].loop = run[z].loop
                              /\ run'[z].child = run[z].child
  BY <1>1, TaskGoesOn DEF TaskTo
<1>3. OneStarter' /\ Taken' = Taken BY <1>2 DEF PlansIInv, OneStarter, Taken
<1> QED BY <1>1, <1>2, <1>3, QuietPlans

LEMMA TaskOnlyPlans ==
    ASSUME TreeIInv, PlansIInv, NEW y \in Graph, TaskOnly(y) \/ StartNode(y) \/ Report(y)
    PROVE  PlansIInv'
<1>1. TreeTyped BY DEF TreeIInv
<1>2. y \in DOMAIN run /\ y \in DOMAIN graph /\ UNCHANGED <<tokens, fired, caller, recovering, spawned>>
  BY <1>1 DEF TaskOnly, StartChat, ChatEnds, StopChat, SaveChild, StartNode, Report, On, TreeTyped, RunsTyped
<1>3. PICK task \in TaskStage : /\ TaskTo(y, task)
                                /\ \/ run[y].task # "child" /\ task \notin {"built", "mapped"}
                                   \/ run[y].task = "built" /\ task = "mapped"
  BY DEF TaskOnly, StartChat, ChatEnds, StopChat, SaveChild, StartNode, Report, On, TaskStage
<1>4. graph[y] \in GraphRow BY <1>1, <1>2 DEF TreeTyped, GraphsTyped
<1>5. DOMAIN graph' = DOMAIN graph /\ \A z \in DOMAIN graph : graph'[z].parent = graph[z].parent
  <2>1. CASE TaskOnly(y) BY <2>1 DEF TaskOnly, StartChat, ChatEnds, StopChat, SaveChild
  <2>2. CASE StartNode(y)
    <3>1. PICK row : row = [graph[y] EXCEPT !.node = "running"] OBVIOUS
    <3>2. row.parent = graph[y].parent BY <1>4, <3>1 DEF GraphRow
    <3>3. graph' = [graph EXCEPT ![y] = row] BY <2>2, <3>1 DEF StartNode
    <3> QED BY <1>2, <3>2, <3>3
  <2>3. CASE Report(y)
    <3>1. PICK row : row = [graph[y] EXCEPT !.node = run[y].task, !.status = run[y].task] OBVIOUS
    <3>2. row.parent = graph[y].parent BY <1>4, <3>1 DEF GraphRow
    <3>3. graph' = [graph EXCEPT ![y] = row] BY <2>3, <3>1 DEF Report
    <3> QED BY <1>2, <3>2, <3>3
  <2> QED BY <2>1, <2>2, <2>3
<1> QED BY <1>2, <1>3, <1>5, TaskPlans

LEMMA CancelPlans ==
    ASSUME TreeIInv, PlansIInv, NEW y \in Graph, CancelGraph(y)
    PROVE  PlansIInv'
<1>1. TreeTyped BY DEF TreeIInv
<1>2. UNCHANGED <<graph, caller, run, recovering, spawned>> BY DEF CancelGraph
<1>3. /\ fired \subseteq fired'
      /\ \A z \in DOMAIN tokens : (z \in DOMAIN tokens' /\ tokens'[z] = tokens[z]) \/ tokens[z] \in fired'
  BY DEF CancelGraph, Without
<1>4. OneStarter' /\ Taken' = Taken BY <1>2 DEF PlansIInv, OneStarter, Taken
<1> QED BY <1>1, <1>2, <1>3, <1>4, QuietPlans

LEMMA RestartPlans ==
    ASSUME TreeIInv, PlansIInv, Restart
    PROVE  PlansIInv'
<1>1. DOMAIN run' = {} /\ DOMAIN caller' = {} /\ spawned' = {} BY DEF Restart
<1> QED BY <1>1 DEF PlansIInv, OneStarter, TokensReach, Planned, ToRun

\* A plan builds its child, runs it, and takes over its end.
LEMMA BuildChildPlans ==
    ASSUME TreeIInv, PlansIInv, NEW y \in Graph, BuildChild(y)
    PROVE  PlansIInv'
<1>1. TreeTyped BY DEF TreeIInv
<1>2. /\ y \in DOMAIN run /\ y \in DOMAIN graph /\ run[y].task = "planned" /\ run[y] \in Execution
      /\ UNCHANGED <<mapped, tokens, fired, caller, recovering, spawned, restarts, gone>>
  BY <1>1 DEF BuildChild, On, TreeTyped, RunsTyped
<1>3. CASE TaskTo(y, "failed") /\ UNCHANGED graph
  <2>1. PICK task \in TaskStage : TaskTo(y, task) /\ task = "failed" BY <1>3 DEF TaskStage
  <2> QED BY <1>2, <1>3, <2>1, TaskPlans
<1>4. ASSUME NEW kind \in {"plan", "agent"}, Fresh \in Graph,
             graph' = Put(graph, Fresh, NewGraph(y, kind)),
             run' = [run EXCEPT ![y].task = "built", ![y].child = Fresh]
      PROVE  PlansIInv'
  <2>1. PICK c \in Graph : c = Fresh BY <1>4
  <2>2. c \notin DOMAIN graph BY <1>1, <2>1, FreshGraph
  <2>3. PICK new : new = NewGraph(y, kind) OBVIOUS
  <2>4. new.parent = y BY <2>3 DEF NewGraph
  <2>5. DOMAIN graph' = {c} \cup DOMAIN graph /\ graph'[c] = new /\ \A z \in DOMAIN graph : graph'[z] = graph[z]
    BY <1>4, <2>1, <2>2, <2>3 DEF Put
  <2>6. /\ DOMAIN run' = DOMAIN run /\ \A z \in DOMAIN run \ {y} : run'[z] = run[z]
        /\ run'[y] = [run[y] EXCEPT !.task = "built", !.child = c]
    <3>1. run' = [run EXCEPT ![y] = [run[y] EXCEPT !.task = "built", !.child = c]] BY <1>4, <2>1
    <3> QED BY <1>2, <3>1
  <2>7. /\ run'[y].task = "built" /\ run'[y].child = c
        /\ run'[y].signal = run[y].signal /\ run'[y].by = run[y].by
    BY <1>2, <2>6 DEF Execution
  <2>8. \A z \in DOMAIN run : run'[z].signal = run[z].signal /\ run'[z].by = run[z].by
    BY <2>6, <2>7
  <2>9. OneStarter' /\ Taken' = Taken BY <1>2, <2>6 DEF PlansIInv, OneStarter, Taken
  <2>10. Taken \subseteq DOMAIN graph BY <1>1 DEF Taken, TreeTyped, GraphsTyped, RunsTyped, CallersTyped
  <2>11. TokensReach' BY <1>2, <2>6, <2>8 DEF PlansIInv, TokensReach, Cancelled
  <2>12. Planned'
    <3>1. SUFFICES ASSUME NEW z \in DOMAIN run, run[z].by = "plan"
                   PROVE  \E p \in DOMAIN run : /\ p = graph'[z].parent /\ run'[p].task = "child"
                                                /\ run'[p].child = z /\ run'[p].signal = run'[z].signal
      BY <2>6, <2>8 DEF Planned
    <3>2. PICK p \in DOMAIN run : /\ p = graph[z].parent /\ run[p].task = "child"
                                  /\ run[p].child = z /\ run[p].signal = run[z].signal
      BY <3>1 DEF PlansIInv, Planned
    <3>3. p # y BY <1>2, <3>2
    <3>4. z \in DOMAIN graph BY <1>1 DEF TreeTyped, RunsTyped
    <3> QED BY <2>5, <2>6, <2>8, <3>2, <3>3, <3>4
  <2>13. ToRun'
    <3>1. SUFFICES ASSUME NEW z \in DOMAIN run, run'[z].task \in {"built", "mapped"}
                   PROVE  graph'[run'[z].child].parent = z /\ run'[z].child \notin Taken
      BY <2>6, <2>9 DEF ToRun
    <3>2. CASE z = y BY <2>2, <2>4, <2>5, <2>7, <2>10, <3>2
    <3>3. CASE z # y
      <4>1. run'[z] = run[z] /\ run[z].child \in DOMAIN graph BY <1>1, <2>6, <3>3 DEF TreeTyped, RunsTyped
      <4>2. graph[run[z].child].parent = z /\ run[z].child \notin Taken
        BY <3>1, <4>1 DEF PlansIInv, ToRun
      <4> QED BY <2>5, <4>1, <4>2
    <3> QED BY <3>2, <3>3
  <2> QED BY <2>9, <2>11, <2>12, <2>13 DEF PlansIInv
<1> QED BY <1>3, <1>4 DEF BuildChild

LEMMA RunChildPlans ==
    ASSUME TreeIInv, PlansIInv, NEW y \in Graph, RunChild(y)
    PROVE  PlansIInv'
<1>1. TreeTyped BY DEF TreeIInv
<1>2. PICK c : c = run[y].child OBVIOUS
<1>3. /\ y \in DOMAIN run /\ run[y] \in Execution /\ run[y].task = "mapped" /\ c \in DOMAIN graph
      /\ UNCHANGED <<graph, mapped, fired, caller, recovering, spawned, restarts, gone>>
  BY <1>1, <1>2 DEF RunChild, On, TreeTyped, RunsTyped
<1>4. graph[c].parent = y /\ c \notin Taken BY <1>2, <1>3 DEF PlansIInv, ToRun
<1>5. c # y /\ c \notin DOMAIN run BY <1>3, <1>4 DEF Taken
<1>6. DOMAIN tokens' = {c} \cup DOMAIN tokens /\ \A z \in DOMAIN tokens \ {c} : tokens'[z] = tokens[z]
  BY <1>2 DEF RunChild, Put
<1>7. PICK e, r : /\ e = [signal |-> run[y].signal, by |-> "plan", task |-> "none", loop |-> TRUE, child |-> c]
                  /\ r = [run EXCEPT ![y].task = "child"]
  OBVIOUS
<1>8. e.signal = run[y].signal /\ e.by = "plan" /\ e.task = "none" BY <1>7
<1>9. /\ DOMAIN r = DOMAIN run /\ \A z \in DOMAIN run \ {y} : r[z] = run[z]
      /\ r[y] = [run[y] EXCEPT !.task = "child"]
  BY <1>3, <1>7
<1>10. r[y].task = "child" /\ r[y].child = c /\ r[y].signal = run[y].signal /\ r[y].by = run[y].by
  BY <1>2, <1>3, <1>9 DEF Execution
<1>11. run' = Put(r, c, e) BY <1>2, <1>7 DEF RunChild
<1>12. /\ DOMAIN run' = {c} \cup DOMAIN run /\ run'[c] = e /\ run'[y] = r[y]
       /\ \A z \in DOMAIN run \ {y} : run'[z] = run[z]
  BY <1>3, <1>5, <1>9, <1>11 DEF Put
<1>13. OneStarter' BY <1>3, <1>4, <1>12 DEF PlansIInv, OneStarter, Taken
<1>14. TokensReach'
  <2>1. SUFFICES ASSUME NEW z \in DOMAIN run, run[z].by # "plan"
                 PROVE  run[z].signal \in fired \/ (z \in DOMAIN tokens' /\ tokens'[z] = run[z].signal)
    BY <1>3, <1>8, <1>10, <1>12 DEF TokensReach, Cancelled
  <2>2. run[z].signal \in fired \/ (z \in DOMAIN tokens /\ tokens[z] = run[z].signal)
    BY <2>1 DEF PlansIInv, TokensReach, Cancelled
  <2> QED BY <1>5, <1>6, <2>2
<1>15. Planned'
  <2>1. SUFFICES ASSUME NEW z \in DOMAIN run', run'[z].by = "plan"
                 PROVE  \E p \in DOMAIN run' : /\ p = graph[z].parent /\ run'[p].task = "child"
                                               /\ run'[p].child = z /\ run'[p].signal = run'[z].signal
    BY <1>3 DEF Planned
  <2>2. CASE z = c BY <1>3, <1>4, <1>8, <1>10, <1>12, <2>2
  <2>3. CASE z # c
    <3>1. z \in DOMAIN run /\ run[z].by = "plan" /\ run'[z].signal = run[z].signal
      BY <1>10, <1>12, <2>1, <2>3
    <3>2. PICK p \in DOMAIN run : /\ p = graph[z].parent /\ run[p].task = "child"
                                  /\ run[p].child = z /\ run[p].signal = run[z].signal
      BY <3>1 DEF PlansIInv, Planned
    <3>3. p # y BY <1>3, <3>2
    <3> QED BY <1>12, <3>1, <3>2, <3>3
  <2> QED BY <2>2, <2>3
<1>16. ToRun'
  <2>1. SUFFICES ASSUME NEW z \in DOMAIN run, z # y, run[z].task \in {"built", "mapped"}
                 PROVE  graph[run[z].child].parent = z /\ run[z].child \notin Taken'
    BY <1>3, <1>8, <1>10, <1>12 DEF ToRun
  <2>2. graph[run[z].child].parent = z /\ run[z].child \notin Taken BY <2>1 DEF PlansIInv, ToRun
  <2>3. run[z].child # c BY <1>4, <2>1, <2>2
  <2>4. Taken' \subseteq Taken \cup {c} BY <1>3, <1>12 DEF Taken
  <2> QED BY <2>2, <2>3, <2>4
<1> QED BY <1>13, <1>14, <1>15, <1>16 DEF PlansIInv

LEMMA FinishPlans ==
    ASSUME TreeIInv, PlansIInv, NEW y \in Graph, Finish(y)
    PROVE  PlansIInv'
<1>1. TreeTyped BY DEF TreeIInv
<1>2. /\ y \in DOMAIN run /\ y \in DOMAIN graph /\ run[y].task = "done"
      /\ UNCHANGED <<graph, mapped, fired, caller, recovering, spawned, restarts, gone>>
  BY <1>1 DEF Finish, On, TreeTyped, RunsTyped
<1>3. \A z \in DOMAIN tokens \ {y} : z \in DOMAIN tokens' /\ tokens'[z] = tokens[z]
  BY DEF Finish, Without, Removed
<1>4. PICK r, p, status : r = Without(run, {y}) /\ p = graph[y].parent /\ status = graph[y].status
  OBVIOUS
<1>5. DOMAIN r = DOMAIN run \ {y} /\ \A z \in DOMAIN r : r[z] = run[z] BY <1>4 DEF Without
<1>6. CASE run[y].by # "plan"
  <2>1. run' = r BY <1>4, <1>6 DEF Finish
  <2> QED BY <1>2, <1>3, <1>5, <1>6, <2>1, LeavePlans
<1>7. CASE run[y].by = "plan"
  <2>1. p \in DOMAIN run /\ run[p].task = "child" /\ run[p].child = y
    BY <1>2, <1>4, <1>7 DEF PlansIInv, Planned
  <2>2. p # y /\ run[p] \in Execution BY <1>1, <1>2, <2>1 DEF TreeTyped, RunsTyped
  <2>3. run' = [r EXCEPT ![p].task = status] BY <1>4, <1>7 DEF Finish
  <2>4. status \in {"complete", "failed"} BY <1>1, <1>2, <1>4 DEF TreeTyped, RunsTyped
  <2>5. /\ DOMAIN run' = DOMAIN run \ {y} /\ run'[p] = [run[p] EXCEPT !.task = status]
        /\ \A z \in DOMAIN run' \ {p} : run'[z] = run[z]
    BY <1>5, <2>1, <2>2, <2>3
  <2>6. /\ run'[p].task = status /\ run'[p].signal = run[p].signal /\ run'[p].by = run[p].by
    BY <2>2, <2>5 DEF Execution
  <2>7. \A z \in DOMAIN run' : run'[z].signal = run[z].signal /\ run'[z].by = run[z].by BY <2>5, <2>6
  <2>8. OneStarter' BY <1>2, <2>5 DEF PlansIInv, OneStarter
  <2>9. TokensReach' BY <1>2, <1>3, <2>5, <2>7 DEF PlansIInv, TokensReach, Cancelled
  <2>10. Planned'
    <3>1. SUFFICES ASSUME NEW z \in DOMAIN run', run[z].by = "plan"
                   PROVE  \E q \in DOMAIN run' : /\ q = graph[z].parent /\ run'[q].task = "child"
                                                 /\ run'[q].child = z /\ run'[q].signal = run'[z].signal
      BY <1>2, <2>7 DEF Planned
    <3>2. PICK q \in DOMAIN run : /\ q = graph[z].parent /\ run[q].task = "child"
                                  /\ run[q].child = z /\ run[q].signal = run[z].signal
      BY <2>5, <3>1 DEF PlansIInv, Planned
    <3>3. q # y /\ q # p BY <1>2, <2>1, <2>5, <3>1, <3>2
    <3> QED BY <2>5, <2>7, <3>2, <3>3
  <2>11. ToRun'
    <3>1. SUFFICES ASSUME NEW z \in DOMAIN run', z # p, run[z].task \in {"built", "mapped"}
                   PROVE  graph[run[z].child].parent = z /\ run[z].child \notin Taken'
      BY <1>2, <2>4, <2>5, <2>6 DEF ToRun
    <3>2. graph[run[z].child].parent = z /\ run[z].child \notin Taken BY <2>5, <3>1 DEF PlansIInv, ToRun
    <3> QED BY <1>2, <2>5, <3>2 DEF Taken
  <2> QED BY <2>8, <2>9, <2>10, <2>11 DEF PlansIInv
<1> QED BY <1>6, <1>7

LEMMA PlansInitially == TreeInit => PlansIInv
BY DEF TreeInit, PlansIInv, OneStarter, TokensReach, Planned, ToRun

LEMMA PlansInductive == TreeIInv /\ PlansIInv /\ [TreeNext]_treeVars => PlansIInv'
<1> SUFFICES ASSUME TreeIInv, PlansIInv, [TreeNext]_treeVars PROVE PlansIInv' OBVIOUS
<1>1. ASSUME NEW method \in Method, NEW kind \in {"plan", "agent"}, Build(method, kind) PROVE PlansIInv'
  BY <1>1, BuildPlans
<1>2. ASSUME NEW y \in Graph, CallerStep(y) \/ RunGraph(y) \/ Disconnect(y) \/ Attach(y) PROVE PlansIInv'
  BY <1>2, CallerPlans, RegisterPlans, DisconnectPlans DEF CallerStep
<1>3. ASSUME NEW y \in Graph, RunStep(y) \/ ChatEnds(y) PROVE PlansIInv'
  BY <1>3, StartGraphPlans, TaskOnlyPlans, BuildChildPlans, RunChildPlans, FinishPlans DEF RunStep, TaskOnly
<1>4. ASSUME NEW y \in Graph, CancelGraph(y) \/ Recover(y) PROVE PlansIInv'
  BY <1>4, CancelPlans, StartGraphPlans
<1>5. CASE UNCHANGED treeVars
  <2>1. TreeTyped BY DEF TreeIInv
  <2>2. OneStarter' /\ Taken' = Taken BY <1>5 DEF treeVars, PlansIInv, OneStarter, Taken
  <2> QED BY <1>5, <2>1, <2>2, QuietPlans DEF treeVars
<1> QED BY <1>1, <1>2, <1>3, <1>4, <1>5, RestartPlans DEF TreeNext

\* The walk of cancel_graph, as many levels down as there are graphs, has found all
\* of them.
LEMMA TreeIsClosed ==
    ASSUME TreeTyped, NEW y \in DOMAIN graph
    PROVE  y \in Tree(y) /\ Tree(y) \subseteq DOMAIN graph /\ Children(Tree(y)) \subseteq Tree(y)
<1>1. PICK n \in 0..MaxGraphs : DOMAIN graph = 1..n BY DEF TreeTyped, GraphsTyped
<1>2. PICK D : D = DOMAIN graph OBVIOUS
<1>3. IsFiniteSet(D) /\ Cardinality(D) = n /\ n \in Nat /\ n <= MaxGraphs /\ MaxGraphs \in Nat
  <2>1. 1 \in Int /\ n \in Int /\ 1 <= n + 1 /\ n \in Nat /\ n <= MaxGraphs /\ MaxGraphs \in Nat
    BY TreeAssumption
  <2> QED BY <1>1, <1>2, <2>1, FS_Interval
<1>4. PICK s : s = [X \in SUBSET D |-> X \cup Children(X)] OBVIOUS
<1>5. \A X \in SUBSET D : s[X] = X \cup Children(X) /\ s[X] \in SUBSET D BY <1>2, <1>4 DEF Children
<1>6. PICK P, x : P = SUBSET D /\ x = {y} OBVIOUS
<1>7. s \in [P -> P] /\ x \in P BY <1>2, <1>4, <1>5, <1>6
<1>8. PICK f : Iterating(f, P, s, x) BY <1>7, Iterates
<1>9. f \in [Nat -> SUBSET D] /\ f[0] = {y} /\ \A k \in Nat : f[k + 1] = s[f[k]]
  BY <1>6, <1>8 DEF Iterating
<1> DEFINE def(h) == [k \in Nat |-> IF k = 0 THEN {y} ELSE h[k - 1] \cup Children(h[k - 1])]
<1>10. f = def(f)
  <2>1. \A k \in Nat : f[k] = IF k = 0 THEN {y} ELSE f[k - 1] \cup Children(f[k - 1])
    <3>1. SUFFICES ASSUME NEW k \in Nat, k # 0 PROVE f[k] = f[k - 1] \cup Children(f[k - 1])
      BY <1>9
    <3>2. k - 1 \in Nat /\ (k - 1) + 1 = k BY <3>1
    <3>3. f[k] = s[f[k - 1]] BY <1>9, <3>2
    <3> QED BY <1>5, <1>9, <3>2, <3>3
  <2>2. f = [k \in Nat |-> f[k]] BY <1>9
  <2>3. PICK d : d = def(f) OBVIOUS
  <2>4. \A k \in Nat : d[k] = f[k] BY <2>1, <2>3
  <2>5. d = [k \in Nat |-> d[k]] BY <2>3
  <2> QED BY <2>2, <2>3, <2>4, <2>5
<1>11. PICK h : h = def(h) /\ Tree(y) = h[MaxGraphs]
  <2>1. \E h : h = def(h) BY <1>10
  <2> DEFINE h == CHOOSE h : h = def(h)
  <2>2. h = def(h) BY <2>1
  <2>3. Tree(y) = h[MaxGraphs] BY DEF Tree
  <2> HIDE DEF h
  <2> QED BY <2>2, <2>3
<1>12. h[0] = {y} /\ \A k \in Nat : h[k + 1] = h[k] \cup Children(h[k])
  <2>1. ASSUME NEW k \in Nat PROVE h[k + 1] = h[k] \cup Children(h[k])
    <3>1. k + 1 \in Nat /\ k + 1 # 0 /\ (k + 1) - 1 = k OBVIOUS
    <3> QED BY <1>11, <3>1
  <2>2. h[0] = {y} BY <1>11
  <2> QED BY <2>1, <2>2
<1> HIDE DEF def
<1>13. \A k \in Nat : h[k] \in SUBSET D /\ y \in h[k]
  <2> DEFINE T == {k \in Nat : h[k] \in SUBSET D /\ y \in h[k]}
  <2>1. 0 \in T BY <1>2, <1>12
  <2>2. \A k \in T : k + 1 \in T
    <3>1. \A X : Children(X) \subseteq D BY <1>2 DEF Children
    <3> QED BY <1>12, <3>1
  <2> HIDE DEF T
  <2>3. T \in SUBSET Nat BY DEF T
  <2>4. T = Nat BY <2>1, <2>2, <2>3, InductionOnNat
  <2> QED BY <2>4 DEF T
<1>14. PICK e : e = [k \in Nat |-> h[k]] OBVIOUS
<1>15. e \in [Nat -> SUBSET D] BY <1>13, <1>14
<1>16. s \in [SUBSET D -> SUBSET D] BY <1>6, <1>7
<1>17. \A k \in Nat : e[k + 1] = s[e[k]] /\ e[k] \subseteq e[k + 1]
  <2>1. SUFFICES ASSUME NEW k \in Nat PROVE e[k + 1] = s[e[k]] /\ e[k] \subseteq e[k + 1] OBVIOUS
  <2>2. k + 1 \in Nat OBVIOUS
  <2>3. e[k] = h[k] /\ e[k + 1] = h[k + 1] /\ h[k] \in SUBSET D BY <1>13, <1>14, <2>2
  <2>4. h[k + 1] = h[k] \cup Children(h[k]) BY <1>12
  <2> QED BY <1>5, <2>3, <2>4
<1>18. PICK N \in Nat : N = MaxGraphs BY <1>3
<1>19. s[e[N]] = e[N]
  <2>1. IsFiniteSet(D) /\ Cardinality(D) <= N BY <1>3, <1>18
  <2> QED BY <1>15, <1>16, <1>17, <2>1, Saturates
<1>20. PICK X \in SUBSET D : X = h[N] /\ y \in X BY <1>13
<1>21. e[N] = X BY <1>14, <1>20
<1>22. X = X \cup Children(X) BY <1>5, <1>19, <1>21
<1>23. Children(X) \subseteq X BY <1>22
<1> QED BY <1>2, <1>11, <1>18, <1>20, <1>23

\* CancelReachesTree (cancel_graph in activation.rs): for any number of graphs, plans
\* within plans and restarts, a cancel of a root fires the signal of everything that
\* runs for it, whether a plan runs the graph inside its own task or a restart has
\* made it an execution of its own.
THEOREM CancelsReachTheirTree == TreeSpec => CancelReachesTree
<1>1. TreeIInv /\ PlansIInv => TreeTyped /\ TokensReach /\ Planned BY DEF TreeIInv, PlansIInv
<1>2. TreeTyped /\ TokensReach /\ Planned =>
         \A r \in DOMAIN graph : graph[r].parent = Root /\ CancelGraph(r) =>
            \A g \in DOMAIN run \cap Under(r) : run[g].signal \in fired'
  <2> SUFFICES ASSUME TreeTyped, TokensReach, Planned, NEW r \in DOMAIN graph,
                      graph[r].parent = Root, CancelGraph(r), NEW g \in DOMAIN run \cap Under(r)
               PROVE  run[g].signal \in fired'
    OBVIOUS
  <2>1. PICK X : X = Tree(r) OBVIOUS
  <2>2. r \in X /\ X \subseteq DOMAIN graph /\ Children(X) \subseteq X BY <2>1, TreeIsClosed
  <2>3. fired' = fired \cup {tokens[x] : x \in X \cap DOMAIN tokens} BY <2>1 DEF CancelGraph
  <2> DEFINE S == {z \in X : z \in DOMAIN run => run[z].signal \in fired'}
  <2>4. ASSUME NEW z \in DOMAIN run \cap X, run[z].by # "plan" PROVE run[z].signal \in fired'
    <3>1. Cancelled(z) \/ (z \in DOMAIN tokens /\ tokens[z] = run[z].signal) BY <2>4 DEF TokensReach
    <3> QED BY <2>3, <3>1 DEF Cancelled
  <2>5. \A z \in DOMAIN run : run[z].by = "plan" =>
           graph[z].parent \in DOMAIN run /\ run[graph[z].parent].signal = run[z].signal
    BY DEF Planned
  <2>6. r \in S
    <3>1. Root \notin DOMAIN run BY TreeAssumption DEF TreeTyped, GraphsTyped, RunsTyped, Root
    <3> QED BY <2>2, <2>4, <2>5, <3>1
  <2>7. Children(S) \subseteq S
    <3>1. SUFFICES ASSUME NEW z \in Children(S) PROVE z \in S OBVIOUS
    <3>2. z \in DOMAIN graph /\ graph[z].parent \in S BY DEF Children
    <3>3. z \in X BY <2>2, <3>2 DEF Children
    <3>4. CASE z \in DOMAIN run /\ run[z].by = "plan" BY <2>5, <3>2, <3>3, <3>4
    <3>5. CASE z \in DOMAIN run /\ run[z].by # "plan" BY <2>4, <3>3, <3>5
    <3> QED BY <3>3, <3>4, <3>5
  <2>8. S \in SUBSET DOMAIN graph BY <2>2
  <2>9. g \in S
    <3> HIDE DEF S
    <3> QED BY <2>6, <2>7, <2>8 DEF Under
  <2> QED BY <2>9
<1>3. TreeIInv /\ PlansIInv /\ [TreeNext]_treeVars =>
        [\A r \in DOMAIN graph : graph[r].parent = Root /\ CancelGraph(r) =>
            \A g \in DOMAIN run \cap Under(r) : run[g].signal \in fired']_treeVars
  BY <1>1, <1>2
<1>4. TreeInit => TreeIInv /\ PlansIInv BY TreeInitially, PlansInitially
<1>5. TreeIInv /\ PlansIInv /\ [TreeNext]_treeVars => (TreeIInv /\ PlansIInv)'
  BY TreeInductive, PlansInductive
<1> QED BY <1>3, <1>4, <1>5, PTL DEF TreeSpec, CancelReachesTree
-----------------------------------------------------------------------------
(***************************************************************************)
(* OrchaSessions: the types of its state.                                  *)
(***************************************************************************)
SessionRow == [state : SessionState, retries : Nat]
AgentStates == {"idle", "running", "validating", "complete", "failed"}
AgentRow == [session : Team, state : AgentStates]
OwnPc == {"off", "create", "prompt", "chat", "validate", "test", "giveup", "complete",
          "done", "gaveup", "refused", "failed", "gone"}
AtWork == {"run", "chat", "helped", "test"}      \* the agent has yet to end
AtEnd == {"count", "judge", "write"}             \* it has ended and judges the session
AgentJob == [pc : {"create", "over", "gone"} \cup AtWork \cup AtEnd, session : Team, parent : Agent,
             tries : Nat, counts : {<<>>} \cup (Nat \X Nat \X Nat), verdict : {""} \cup SessionState]
Write == [by : SessionId \cup Agent \cup {Caller}, session : SessionId,
          what : SessionState \cup {"insert", "retry", "delete"}]

RowsTyped ==
    /\ DOMAIN table \subseteq SessionId /\ \A s \in DOMAIN table : table[s] \in SessionRow
    /\ DOMAIN cache \subseteq SessionId /\ \A s \in DOMAIN cache : cache[s] \in SessionRow
    /\ DOMAIN crew \subseteq Agent /\ \A a \in DOMAIN crew : crew[a] \in AgentRow
    /\ late \subseteq Write

JobsTyped ==
    /\ DOMAIN job = SessionId \cup Agent
    /\ \A s \in SessionId : job[s] \in [pc : OwnPc]
    /\ \A a \in Agent : job[a] = [pc |-> "off"] \/ job[a] \in AgentJob
    /\ \A a \in Agent : job[a].pc = "write" => job[a].verdict # ""

Crewed(a, s) == job[a].pc # "off" /\ job[a].session = s    \* a is, or was, an agent of s

(***************************************************************************)
(* Who writes what.  Nobody is in the middle of two updates.               *)
(***************************************************************************)
Writer(w) ==
    \/ w.what = "insert" /\ w.by = w.session
    \/ w.what = "delete" /\ w.by = Caller
    \/ w.what = "retry" /\ w.by = IF w.session \in Task THEN w.session ELSE Caller
    \/ w.what \in SessionState /\ \/ w.by = Caller /\ w.session \in disturbed
                                  \/ w.by = w.session /\ w.session \in Task
                                  \/ w.by \in Agent /\ Crewed(w.by, w.session) /\ job[w.by].pc = "over"

Writers ==
    /\ \A w \in late : Writer(w)
    /\ \A v, w \in late : v.by = w.by => v = w

Pending(s, W) == \E w \in late : w.session = s /\ w.what \in W

\* A session that is not there yet, in the table or in the cache, has no agents.
Births ==
    \A s \in SessionId :
        /\ job[s].pc = "off" =>
              /\ s \notin DOMAIN table
              /\ \A w \in late : w.session = s => w.what # "insert" /\ s \in disturbed
        /\ job[s].pc = "off" \/ Pending(s, {"insert"}) =>
              s \notin DOMAIN cache /\ \A a \in Agent : ~Crewed(a, s)

(***************************************************************************)
(* The table and the cache, while updates are on their way.                *)
(***************************************************************************)
Copied(s) ==
    /\ Pending(s, {"insert"}) => /\ s \in DOMAIN table /\ table[s] = NewSession
                                 /\ \A w \in late : w.session = s => w.what = "insert"
    /\ Pending(s, {"delete"}) => s \notin DOMAIN table
    /\ s \notin DOMAIN table /\ s \in DOMAIN cache => Pending(s, {"delete"})
    /\ s \in DOMAIN table /\ ~Pending(s, {"insert"}) =>
          /\ s \in DOMAIN cache
          /\ \A w \in late : w.session = s /\ w.what \in SessionState => w.what = table[s].state
          /\ Pending(s, SessionState) \/ cache[s].state = table[s].state
          /\ table[s].retries = IF Pending(s, {"retry"}) THEN cache[s].retries + 1 ELSE cache[s].retries

Copies == \A s \in SessionId \ disturbed : Copied(s)

(***************************************************************************)
(* The agents and their rows.                                              *)
(***************************************************************************)
Manned ==
    \A a \in Agent :
        /\ a \in DOMAIN crew =>
              /\ job[a].pc \notin {"off", "create"} /\ crew[a].session = job[a].session
              /\ crew[a].session \in DOMAIN table
              /\ job[a].pc \in AtWork => crew[a].state \notin Ended
              /\ job[a].pc \in AtEnd \cup {"over"} => crew[a].state \in Ended
              /\ job[a].pc = "gone" => crew[a].session \in disturbed
        /\ job[a].pc \in AtWork \cup AtEnd /\ job[a].session \in DOMAIN table => a \in DOMAIN crew

(***************************************************************************)
(* The verdict.                                                            *)
(***************************************************************************)
FinalVerdict(s) == IF Rows(s) = InState(s, {"failed"}) THEN "failed" ELSE "complete"
Settled(s) == Rows(s) # {} /\ Active(s) = {}
Concluding(a) ==
    \/ job[a].pc = "count"
    \/ job[a].pc = "judge" /\ job[a].counts[1] = 0
    \/ job[a].pc = "write"

Verdicts(s) ==
    /\ table[s].state # "running" /\ (s \in DOMAIN cache => cache[s].state # "running")
    /\ \A a \in Agent : Crewed(a, s) =>
          /\ job[a].pc = "judge" => job[a].counts # <<>>
          /\ job[a].pc = "judge" /\ job[a].counts[1] = 0 =>
                /\ Settled(s)
                /\ Verdict(job[a].counts[2], job[a].counts[3]) = FinalVerdict(s)
          /\ job[a].pc = "write" => Settled(s) /\ job[a].verdict = FinalVerdict(s)
    /\ \A w \in late : w.session = s /\ w.what \in SessionState => Settled(s) /\ w.what = FinalVerdict(s)
    /\ Settled(s) => (\E a \in Rows(s) : Concluding(a)) \/ table[s].state = FinalVerdict(s)

Judgements == \A s \in (Team \cap DOMAIN table) \ disturbed : Verdicts(s)

SessionsIInv == RowsTyped /\ JobsTyped /\ Writers /\ Births /\ Copies /\ Manned /\ Judgements

-----------------------------------------------------------------------------
(***************************************************************************)
(* What the parts of the invariant depend on.                              *)
(***************************************************************************)
LEMMA AtJob ==
    ASSUME JobsTyped
    PROVE  \A a \in Agent : job[a].pc # "off" => job[a] \in AgentJob /\ job[a].session \in Team
<1> SUFFICES ASSUME NEW a \in Agent, job[a].pc # "off"
             PROVE  job[a] \in AgentJob /\ job[a].session \in Team
  OBVIOUS
<1>1. job[a] \in AgentJob
  <2>1. CASE job[a] = [pc |-> "off"]
    <3>1. job[a].pc = "off"
      BY <2>1
    <3> QED BY <3>1
  <2> QED BY <2>1 DEF JobsTyped
<1> QED BY <1>1 DEF AgentJob

OverStays == \A a \in Agent : job[a].pc = "over" => job'[a] = job[a]
AgentsStay == \A a \in Agent : job'[a] = job[a]

LEMMA WritersStay ==
    ASSUME Writers, late' \subseteq late, disturbed \subseteq disturbed', OverStays
    PROVE  Writers'
BY DEF Writers, Writer, OverStays, Crewed

LEMMA WritersAnd ==
    ASSUME Writers, NEW w, late' = late \cup {w}, Free(w.by), Writer(w)',
           disturbed \subseteq disturbed', OverStays
    PROVE  Writers'
<1>1. \A v \in late : Writer(v)'
  BY DEF Writers, Writer, OverStays, Crewed
<1>2. \A v \in late : v.by # w.by
  BY DEF Free
<1> QED BY <1>1, <1>2 DEF Writers

LEMMA BirthsStay ==
    ASSUME Births,
           \A s \in SessionId : job'[s].pc = "off" => job[s].pc = "off",
           DOMAIN table' \subseteq DOMAIN table, DOMAIN cache' \subseteq DOMAIN cache,
           disturbed \subseteq disturbed',
           \A w \in late' \ late : w.what # "insert",
           \A w \in late' \ late : job[w.session].pc # "off" \/ w.session \in disturbed',
           \A a \in Agent : job'[a].pc # "off" =>
              \/ job[a].pc # "off" /\ job'[a].session = job[a].session
              \/ job'[a].session \in DOMAIN cache
    PROVE  Births'
<1> SUFFICES ASSUME NEW s \in SessionId
             PROVE  /\ job'[s].pc = "off" =>
                          /\ s \notin DOMAIN table'
                          /\ \A w \in late' : w.session = s => w.what # "insert" /\ s \in disturbed'
                    /\ job'[s].pc = "off" \/ Pending(s, {"insert"})' =>
                          s \notin DOMAIN cache' /\ \A a \in Agent : ~Crewed(a, s)'
  BY DEF Births
<1>1. Pending(s, {"insert"})' => Pending(s, {"insert"})
  BY DEF Pending
<1> QED BY <1>1 DEF Births, Crewed

LEMMA CopiesStay ==
    ASSUME Copies, UNCHANGED <<table, cache, late>>, disturbed \subseteq disturbed'
    PROVE  Copies'
BY DEF Copies, Copied, Pending

\* Sessions that a step neither writes nor disturbs.
LEMMA CopiedStays ==
    ASSUME NEW s, Copied(s),
           s \in DOMAIN table' <=> s \in DOMAIN table, s \in DOMAIN table => table'[s] = table[s],
           s \in DOMAIN cache' <=> s \in DOMAIN cache, s \in DOMAIN cache => cache'[s] = cache[s],
           \A w : w.session = s => (w \in late' <=> w \in late)
    PROVE  Copied(s)'
<1>1. \A W : Pending(s, W)' <=> Pending(s, W)
  BY DEF Pending
<1>2. \A w \in late' : w.session = s => w \in late
  OBVIOUS
<1>3. /\ Pending(s, {"insert"})' <=> Pending(s, {"insert"})
      /\ Pending(s, {"delete"})' <=> Pending(s, {"delete"})
      /\ Pending(s, {"retry"})' <=> Pending(s, {"retry"})
      /\ Pending(s, SessionState)' <=> Pending(s, SessionState)
  BY <1>1
<1> QED BY <1>2, <1>3 DEF Copied

LEMMA MannedStay ==
    ASSUME Manned, UNCHANGED crew, AgentsStay, DOMAIN table \subseteq DOMAIN table',
           \A s \in DOMAIN table' \ DOMAIN table : \A a \in Agent : ~Crewed(a, s),
           disturbed \subseteq disturbed'
    PROVE  Manned'
BY DEF Manned, AgentsStay, Crewed, AtWork, AtEnd

LEMMA RowsStay ==
    ASSUME NEW s, \A a : /\ a \in DOMAIN crew' /\ crew'[a].session = s
                             <=> a \in DOMAIN crew /\ crew[a].session = s
                         /\ a \in DOMAIN crew /\ crew[a].session = s =>
                             crew'[a].state = crew[a].state
    PROVE  /\ Rows(s)' = Rows(s) /\ Active(s)' = Active(s)
           /\ Settled(s)' = Settled(s) /\ FinalVerdict(s)' = FinalVerdict(s)
<1>1. Rows(s)' = Rows(s) /\ \A a \in Rows(s) : crew'[a].state = crew[a].state
  BY DEF Rows
<1>2. /\ InState(s, Ended)' = InState(s, Ended)
      /\ InState(s, {"failed"})' = InState(s, {"failed"})
  BY <1>1 DEF InState
<1> QED BY <1>1, <1>2 DEF Active, Settled, FinalVerdict

LEMMA JudgementsStay ==
    ASSUME Judgements, UNCHANGED crew, AgentsStay, RowsTyped,
           disturbed \subseteq disturbed',
           \A s \in (Team \cap DOMAIN table') \ disturbed' :
              /\ s \in DOMAIN table /\ table'[s].state = table[s].state
              /\ s \in DOMAIN cache' => cache'[s].state # "running"
              /\ \A w \in late' : w.session = s /\ w.what \in SessionState => w \in late
    PROVE  Judgements'
<1> SUFFICES ASSUME NEW s \in (Team \cap DOMAIN table') \ disturbed'
             PROVE  Verdicts(s)'
  BY DEF Judgements
<1>1. s \in DOMAIN table /\ s \notin disturbed /\ Verdicts(s)
  BY DEF Judgements
<1>2. /\ Rows(s)' = Rows(s) /\ Settled(s)' = Settled(s) /\ FinalVerdict(s)' = FinalVerdict(s)
  BY RowsStay
<1>3. Rows(s) \subseteq Agent
  BY DEF RowsTyped, Rows
<1>4. \A a \in Agent : (Crewed(a, s)' <=> Crewed(a, s)) /\ (Concluding(a)' <=> Concluding(a))
  BY DEF AgentsStay, Crewed, Concluding
<1> QED BY <1>1, <1>2, <1>3, <1>4 DEF Verdicts, AgentsStay

LEMMA Idle ==
    ASSUME SessionsIInv, UNCHANGED sessionVars
    PROVE  SessionsIInv'
<1>1. UNCHANGED <<table, cache, crew, job, late, log, disturbed>>
  BY DEF sessionVars
<1>2. AgentsStay /\ OverStays
  BY <1>1 DEF AgentsStay, OverStays
<1>3. RowsTyped' /\ JobsTyped'
  BY <1>1 DEF SessionsIInv, RowsTyped, JobsTyped
<1>4. Writers' /\ Births' /\ Copies' /\ Manned'
  BY <1>1, <1>2, WritersStay, BirthsStay, CopiesStay, MannedStay DEF SessionsIInv
<1>5. Judgements'
  BY <1>1, <1>2, JudgementsStay DEF SessionsIInv, Judgements, Verdicts
<1> QED BY <1>3, <1>4, <1>5 DEF SessionsIInv

(***************************************************************************)
(* Tasks.                                                                  *)
(***************************************************************************)
LEMMA OwnGoesOn ==
    ASSUME JobsTyped, NEW s \in SessionId, NEW pc \in OwnPc \ {"off"}, To(s, pc)
    PROVE  /\ JobsTyped' /\ AgentsStay /\ OverStays
           /\ \A x \in SessionId : x # s => job'[x] = job[x]
           /\ job'[s].pc = pc
           /\ \A x \in SessionId : job'[x].pc = "off" => job[x].pc = "off"
<1>1. SessionId \cap Agent = {}
  BY SessionAssumption DEF SessionId
<1>2. DOMAIN job = SessionId \cup Agent /\ job[s] \in [pc : OwnPc]
  BY DEF JobsTyped
<1>3. /\ DOMAIN job' = DOMAIN job /\ job'[s] = [job[s] EXCEPT !.pc = pc]
      /\ \A x \in DOMAIN job \ {s} : job'[x] = job[x]
  BY <1>2 DEF To
<1>4. job'[s] \in [pc : OwnPc] /\ job'[s].pc = pc
  BY <1>2, <1>3
<1>5. AgentsStay /\ OverStays
  BY <1>1, <1>2, <1>3 DEF AgentsStay, OverStays
<1>6. JobsTyped'
  BY <1>1, <1>2, <1>3, <1>4 DEF JobsTyped
<1> QED BY <1>2, <1>3, <1>4, <1>5, <1>6

\* The steps of a task that write nothing.
LEMMA TaskMoves ==
    ASSUME SessionsIInv, NEW t \in Task, NEW pc \in OwnPc \ {"off"}, To(t, pc),
           UNCHANGED <<table, cache, crew, late, disturbed>>
    PROVE  SessionsIInv'
<1>1. t \in SessionId
  BY DEF SessionId
<1>2. /\ JobsTyped' /\ AgentsStay /\ OverStays
      /\ \A x \in SessionId : job'[x].pc = "off" => job[x].pc = "off"
  BY <1>1, OwnGoesOn DEF SessionsIInv
<1>3. RowsTyped'
  BY DEF SessionsIInv, RowsTyped
<1>4. Writers' /\ Copies' /\ Manned'
  BY <1>2, WritersStay, CopiesStay, MannedStay DEF SessionsIInv
<1>5. Births'
  BY <1>2, BirthsStay DEF SessionsIInv, AgentsStay
<1>6. Judgements'
  BY <1>2, JudgementsStay DEF SessionsIInv, Judgements, Verdicts
<1> QED BY <1>2, <1>3, <1>4, <1>5, <1>6 DEF SessionsIInv

\* The state of s is written, by one whose update is the only one on its way or agrees
\* with the others.
LEMMA CopiesState ==
    ASSUME Copies, RowsTyped, NEW x, NEW s \in SessionId, NEW state \in SessionState,
           UpdateState(x, s, state), UNCHANGED cache, disturbed \subseteq disturbed',
           s \notin disturbed' => /\ ~Pending(s, {"insert"})
                                  /\ s \in DOMAIN table => \A w \in late :
                                        w.session = s /\ w.what \in SessionState => w.what = state
    PROVE  Copies'
<1>0. PICK u : u = [by |-> x, session |-> s, what |-> state]
  OBVIOUS
<1>1. late' = late \cup {u} /\ u.session = s /\ u.what = state
  BY <1>0 DEF UpdateState
<1>2. DOMAIN table' = DOMAIN table /\ \A z \in DOMAIN table \ {s} : table'[z] = table[z]
  BY DEF UpdateState
<1> SUFFICES ASSUME NEW z \in SessionId \ disturbed'
             PROVE  Copied(z)'
  BY DEF Copies
<1>3. Copied(z)
  BY DEF Copies
<1>4. CASE z # s
  <2>1. \A w : w.session = z => (w \in late' <=> w \in late)
    BY <1>1, <1>4
  <2> QED BY <1>2, <1>3, <1>4, <2>1, CopiedStays
<1>5. CASE z = s
  <2>1. state \notin {"insert", "delete", "retry"}
    BY DEF SessionState
  <2>2. /\ ~Pending(s, {"insert"}) /\ ~Pending(s, {"insert"})'
        /\ Pending(s, {"delete"})' <=> Pending(s, {"delete"})
        /\ Pending(s, {"retry"})' <=> Pending(s, {"retry"})
        /\ Pending(s, SessionState)'
    BY <1>1, <1>5, <2>1 DEF Pending
  <2>3. CASE s \in DOMAIN table
    <3>1. table[s] \in SessionRow /\ table'[s] = [table[s] EXCEPT !.state = state]
      BY <2>3 DEF RowsTyped, UpdateState
    <3>2. table'[s].state = state /\ table'[s].retries = table[s].retries
      BY <3>1 DEF SessionRow
    <3>3. \A w \in late' : w.session = s /\ w.what \in SessionState => w.what = state
      BY <1>1, <1>5, <2>3
    <3> QED BY <1>2, <1>3, <1>5, <2>2, <2>3, <3>2, <3>3 DEF Copied
  <2>4. CASE s \notin DOMAIN table
    BY <1>2, <1>3, <1>5, <2>2, <2>4 DEF Copied
  <2> QED BY <2>3, <2>4
<1> QED BY <1>4, <1>5

LEMMA StateTyped ==
    ASSUME RowsTyped, NEW x \in SessionId \cup Agent \cup {Caller}, NEW s \in SessionId,
           NEW state \in SessionState, UpdateState(x, s, state), UNCHANGED <<cache, crew>>
    PROVE  RowsTyped'
<1>1. late' \subseteq Write
  <2>1. [by |-> x, session |-> s, what |-> state] \in Write
    BY DEF Write
  <2> QED BY <2>1 DEF RowsTyped, UpdateState
<1>2. DOMAIN table' \subseteq SessionId /\ \A z \in DOMAIN table' : table'[z] \in SessionRow
  <2>1. DOMAIN table' = DOMAIN table /\ \A z \in DOMAIN table \ {s} : table'[z] = table[z]
    BY DEF UpdateState
  <2>2. ASSUME s \in DOMAIN table PROVE table'[s] \in SessionRow
    <3>1. table[s] \in SessionRow /\ table'[s] = [table[s] EXCEPT !.state = state]
      BY <2>2 DEF RowsTyped, UpdateState
    <3> QED BY <3>1 DEF SessionRow
  <2> QED BY <2>1, <2>2 DEF RowsTyped
<1> QED BY <1>1, <1>2 DEF RowsTyped

LEMMA TaskWrites ==
    ASSUME SessionsIInv, NEW t \in Task, NEW pc \in OwnPc \ {"off"}, NEW state \in SessionState,
           Free(t), job[t].pc # "off", To(t, pc), UpdateState(t, t, state),
           UNCHANGED <<cache, crew, disturbed>>
    PROVE  SessionsIInv'
<1>1. t \in SessionId /\ t \notin Team /\ t \notin Agent /\ t # Caller
  BY SessionAssumption DEF SessionId
<1>2. /\ JobsTyped' /\ AgentsStay /\ OverStays
      /\ \A x \in SessionId : job'[x].pc = "off" => job[x].pc = "off"
  BY <1>1, OwnGoesOn DEF SessionsIInv
<1>3. RowsTyped'
  BY <1>1, StateTyped DEF SessionsIInv
<1>4. PICK u : u = [by |-> t, session |-> t, what |-> state]
  OBVIOUS
<1>5. late' = late \cup {u} /\ u.by = t /\ u.session = t /\ u.what = state
  BY <1>4 DEF UpdateState
<1>6. DOMAIN table' = DOMAIN table /\ \A z \in DOMAIN table \ {t} : table'[z] = table[z]
  BY DEF UpdateState
<1>7. Writers'
  BY <1>2, <1>5, WritersAnd DEF Writer, SessionsIInv
<1>8. Births'
  BY <1>2, <1>5, <1>6, BirthsStay DEF SessionsIInv, AgentsStay, SessionState
<1>9. Copies'
  <2>1. \A w \in late : w.session = t => w.by # t
    BY DEF Free
  <2>2. t \notin disturbed => \A w \in late : w.session = t => w.what \notin SessionState \cup {"insert"}
    <3>1. \A a \in Agent : ~Crewed(a, t)
      BY <1>1, AtJob DEF SessionsIInv, Crewed
    <3> QED BY <1>1, <2>1, <3>1 DEF SessionsIInv, Writers, Writer, SessionState
  <2> QED BY <1>1, <2>2, CopiesState DEF SessionsIInv, Pending
<1>10. Manned'
  BY <1>2, <1>6, MannedStay DEF SessionsIInv
<1>11. Judgements'
  BY <1>1, <1>2, <1>5, <1>6, JudgementsStay DEF SessionsIInv, Judgements, Verdicts
<1> QED BY <1>2, <1>3, <1>7, <1>8, <1>9, <1>10, <1>11 DEF SessionsIInv

\* increment_retry: no other is on its way.
LEMMA CopiesRetry ==
    ASSUME Copies, RowsTyped, NEW x, NEW s \in SessionId,
           IncrementRetry(x, s), UNCHANGED cache, disturbed \subseteq disturbed',
           s \notin disturbed' => ~Pending(s, {"insert"}) /\ ~Pending(s, {"retry"})
    PROVE  Copies'
<1>0. PICK u : u = [by |-> x, session |-> s, what |-> "retry"]
  OBVIOUS
<1>1. late' = late \cup {u} /\ u.session = s /\ u.what = "retry"
  BY <1>0 DEF IncrementRetry
<1>2. DOMAIN table' = DOMAIN table /\ \A z \in DOMAIN table \ {s} : table'[z] = table[z]
  BY DEF IncrementRetry
<1> SUFFICES ASSUME NEW z \in SessionId \ disturbed'
             PROVE  Copied(z)'
  BY DEF Copies
<1>3. Copied(z)
  BY DEF Copies
<1>4. CASE z # s
  <2>1. \A w : w.session = z => (w \in late' <=> w \in late)
    BY <1>1, <1>4
  <2> QED BY <1>2, <1>3, <1>4, <2>1, CopiedStays
<1>5. CASE z = s
  <2>1. "retry" \notin SessionState
    BY DEF SessionState
  <2>2. /\ ~Pending(s, {"insert"}) /\ ~Pending(s, {"insert"})'
        /\ Pending(s, {"delete"})' <=> Pending(s, {"delete"})
        /\ Pending(s, SessionState)' <=> Pending(s, SessionState)
        /\ ~Pending(s, {"retry"}) /\ Pending(s, {"retry"})'
    BY <1>1, <1>5, <2>1 DEF Pending
  <2>3. CASE s \in DOMAIN table
    <3>1. table[s] \in SessionRow /\ table'[s] = [table[s] EXCEPT !.retries = table[s].retries + 1]
      BY <2>3 DEF RowsTyped, IncrementRetry
    <3>2. table'[s].state = table[s].state /\ table'[s].retries = table[s].retries + 1
      BY <3>1 DEF SessionRow
    <3>3. \A w \in late' : w.session = s /\ w.what \in SessionState => w \in late
      BY <1>1, <2>1
    <3> QED BY <1>2, <1>3, <1>5, <2>2, <2>3, <3>2, <3>3 DEF Copied
  <2>4. CASE s \notin DOMAIN table
    BY <1>2, <1>3, <1>5, <2>2, <2>4 DEF Copied
  <2> QED BY <2>3, <2>4
<1> QED BY <1>4, <1>5

LEMMA RetryTyped ==
    ASSUME RowsTyped, NEW x \in SessionId \cup Agent \cup {Caller}, NEW s \in SessionId,
           IncrementRetry(x, s), UNCHANGED <<cache, crew>>
    PROVE  /\ RowsTyped' /\ DOMAIN table' = DOMAIN table
           /\ \A z \in DOMAIN table : table'[z].state = table[z].state
<1>1. late' \subseteq Write
  <2>1. [by |-> x, session |-> s, what |-> "retry"] \in Write
    BY DEF Write
  <2> QED BY <2>1 DEF RowsTyped, IncrementRetry
<1>2. DOMAIN table' = DOMAIN table /\ \A z \in DOMAIN table \ {s} : table'[z] = table[z]
  BY DEF IncrementRetry
<1>3. ASSUME s \in DOMAIN table PROVE table'[s] \in SessionRow /\ table'[s].state = table[s].state
  <2>1. table[s] \in SessionRow /\ table'[s] = [table[s] EXCEPT !.retries = table[s].retries + 1]
    BY <1>3 DEF RowsTyped, IncrementRetry
  <2> QED BY <2>1 DEF SessionRow
<1> QED BY <1>1, <1>2, <1>3 DEF RowsTyped

\* A retry is counted, of a task by itself and of a team by a client.
LEMMA RetryKeeps ==
    ASSUME SessionsIInv, NEW s \in SessionId, NEW x, x = IF s \in Task THEN s ELSE Caller,
           Free(x), job[s].pc # "off", IncrementRetry(x, s), JobsTyped', AgentsStay, OverStays,
           \A z \in SessionId : job'[z].pc = "off" => job[z].pc = "off",
           UNCHANGED <<cache, crew>>, disturbed \subseteq disturbed',
           s \notin disturbed' => ~Pending(s, {"insert"})
    PROVE  SessionsIInv'
<1>1. x \in SessionId \cup {Caller}
  BY DEF SessionId
<1>2. /\ RowsTyped' /\ DOMAIN table' = DOMAIN table
      /\ \A z \in DOMAIN table : table'[z].state = table[z].state
  BY <1>1, RetryTyped DEF SessionsIInv
<1>3. PICK u : u = [by |-> x, session |-> s, what |-> "retry"]
  OBVIOUS
<1>4. late' = late \cup {u} /\ u.by = x /\ u.session = s /\ u.what = "retry"
  BY <1>3 DEF IncrementRetry
<1>5. Writers'
  BY <1>4, WritersAnd DEF Writer, SessionsIInv
<1>6. Births'
  BY <1>2, <1>4, BirthsStay DEF SessionsIInv, AgentsStay
<1>7. Copies'
  <2>1. ~Pending(s, {"retry"})
    BY DEF Pending, Free, SessionsIInv, Writers, Writer, SessionState
  <2> QED BY <2>1, CopiesRetry DEF SessionsIInv
<1>8. Manned'
  BY <1>2, MannedStay DEF SessionsIInv
<1>9. Judgements'
  <2>1. "retry" \notin SessionState
    BY DEF SessionState
  <2> QED BY <1>2, <1>4, <2>1, JudgementsStay DEF SessionsIInv, Judgements, Verdicts
<1> QED BY <1>2, <1>5, <1>6, <1>7, <1>8, <1>9 DEF SessionsIInv

LEMMA TaskStepKeeps ==
    ASSUME SessionsIInv, NEW t \in Task, TaskStep(t)
    PROVE  SessionsIInv'
<1>1. /\ Free(t) /\ job[t].pc # "off" /\ UNCHANGED <<cache, crew, disturbed>>
  BY DEF TaskStep, CreateChat, Prompt, TaskChatEnds, Validate, TestPasses, TestFails, GiveUpTask,
         Complete, Doing
<1>2. CASE CreateChat(t) \/ TaskChatEnds(t) \/ TestPasses(t)
  <2>1. UNCHANGED <<table, late>> /\ \E pc \in OwnPc \ {"off"} : To(t, pc)
    BY <1>2 DEF CreateChat, TaskChatEnds, TestPasses, OwnPc
  <2> QED BY <1>1, <2>1, TaskMoves
<1>3. CASE Prompt(t) \/ Validate(t) \/ GiveUpTask(t) \/ Complete(t)
  <2>1. \E pc \in OwnPc \ {"off"}, state \in SessionState : To(t, pc) /\ UpdateState(t, t, state)
    BY <1>3 DEF Prompt, Validate, GiveUpTask, Complete, OwnPc, SessionState
  <2> QED BY <1>1, <2>1, TaskWrites
<1>4. CASE TestFails(t)
  <2>1. CASE To(t, "giveup") /\ UNCHANGED <<table, late>>
    <3>1. \E pc \in OwnPc \ {"off"} : To(t, pc)
      BY <2>1 DEF OwnPc
    <3> QED BY <1>1, <2>1, <3>1, TaskMoves
  <2>2. CASE To(t, "prompt") /\ IncrementRetry(t, t)
    <3>1. t \in SessionId /\ \E pc \in OwnPc \ {"off"} : To(t, pc)
      BY <2>2 DEF OwnPc, SessionId
    <3>2. /\ JobsTyped' /\ AgentsStay /\ OverStays
          /\ \A x \in SessionId : job'[x].pc = "off" => job[x].pc = "off"
      BY <3>1, OwnGoesOn DEF SessionsIInv
    <3>3. ~Pending(t, {"insert"})
      BY <1>1 DEF SessionsIInv, Writers, Writer, Free, Pending, SessionState
    <3> QED BY <1>1, <2>2, <3>1, <3>2, <3>3, RetryKeeps
  <2> QED BY <1>4, <2>1, <2>2 DEF TestFails
<1> QED BY <1>2, <1>3, <1>4 DEF TaskStep

\* A session is created, by run_task or by the method for a team.
LEMMA InsertKeeps ==
    ASSUME SessionsIInv, NEW s \in SessionId, NEW pc \in OwnPc \ {"off"},
           Doing(s, "off"), Insert(s, s), To(s, pc), UNCHANGED <<cache, crew, disturbed>>
    PROVE  SessionsIInv'
<1>1. /\ JobsTyped' /\ AgentsStay /\ OverStays /\ job'[s].pc # "off"
      /\ \A x \in SessionId : x # s => job'[x] = job[x]
  BY OwnGoesOn DEF SessionsIInv
<1>2. PICK u : u = [by |-> s, session |-> s, what |-> "insert"]
  OBVIOUS
<1>3. late' = late \cup {u} /\ u.by = s /\ u.session = s /\ u.what = "insert" /\ u \in Write
  BY <1>2 DEF Insert, Write
<1>4. /\ job[s].pc = "off" /\ s \notin DOMAIN table /\ s \notin DOMAIN cache
      /\ \A w \in late : w.session = s => s \in disturbed
      /\ \A a \in Agent : ~Crewed(a, s)
  BY DEF Doing, SessionsIInv, Births
<1>5. /\ DOMAIN table' = {s} \cup DOMAIN table /\ table'[s] = NewSession
      /\ \A z \in DOMAIN table : table'[z] = table[z]
  BY <1>4 DEF Insert, Put
<1>6. RowsTyped'
  <2>1. NewSession \in SessionRow
    BY DEF NewSession, SessionRow, SessionState
  <2> QED BY <1>3, <1>5, <2>1 DEF SessionsIInv, RowsTyped
<1>7. Writers'
  BY <1>1, <1>3, WritersAnd DEF Doing, Writer, SessionsIInv
<1>8. Births'
  <2> SUFFICES ASSUME NEW z \in SessionId
               PROVE  /\ job'[z].pc = "off" =>
                            /\ z \notin DOMAIN table'
                            /\ \A w \in late' : w.session = z => w.what # "insert" /\ z \in disturbed'
                      /\ job'[z].pc = "off" \/ Pending(z, {"insert"})' =>
                            z \notin DOMAIN cache' /\ \A a \in Agent : ~Crewed(a, z)'
    BY DEF Births
  <2>1. \A a \in Agent : Crewed(a, z)' <=> Crewed(a, z)
    BY <1>1 DEF AgentsStay, Crewed
  <2>2. CASE z = s
    BY <1>1, <1>4, <2>1, <2>2
  <2>3. CASE z # s
    <3>1. Pending(z, {"insert"})' => Pending(z, {"insert"})
      BY <1>3, <2>3 DEF Pending
    <3> QED BY <1>1, <1>3, <1>5, <2>1, <2>3, <3>1 DEF SessionsIInv, Births
  <2> QED BY <2>2, <2>3
<1>9. Copies'
  <2> SUFFICES ASSUME NEW z \in SessionId \ disturbed
               PROVE  Copied(z)'
    BY DEF Copies
  <2>1. Copied(z)
    BY DEF SessionsIInv, Copies
  <2>2. CASE z = s
    <3>1. \A w \in late' : w.session = s => w = u
      BY <1>3, <1>4, <2>2
    <3>2. Pending(s, {"insert"})' /\ ~Pending(s, {"delete"})'
      BY <1>3, <3>1 DEF Pending
    <3> QED BY <1>3, <1>5, <2>2, <3>1, <3>2 DEF Copied
  <2>3. CASE z # s
    <3>1. \A w : w.session = z => (w \in late' <=> w \in late)
      BY <1>3, <2>3
    <3> QED BY <1>5, <2>1, <2>3, <3>1, CopiedStays
  <2> QED BY <2>2, <2>3
<1>10. Manned'
  BY <1>1, <1>4, <1>5, MannedStay DEF SessionsIInv
<1>11. Judgements'
  <2> SUFFICES ASSUME NEW z \in (Team \cap DOMAIN table') \ disturbed'
               PROVE  Verdicts(z)'
    BY DEF Judgements
  <2>1. Rows(z)' = Rows(z) /\ Settled(z)' = Settled(z) /\ FinalVerdict(z)' = FinalVerdict(z)
    BY RowsStay
  <2>2. \A a \in Agent : (Crewed(a, z)' <=> Crewed(a, z)) /\ (Concluding(a)' <=> Concluding(a))
    BY <1>1 DEF AgentsStay, Crewed, Concluding
  <2>3. \A w \in late' : w.session = z /\ w.what \in SessionState => w \in late
    BY <1>3 DEF SessionState
  <2>4. CASE z = s
    <3>1. Rows(z) = {}
      BY <1>4, <2>4 DEF Rows, SessionsIInv, Manned, RowsTyped
    <3>2. ~\E w \in late : w.session = z
      BY <1>4, <2>4
    <3>3. table'[z].state = "idle"
      BY <1>5, <2>4 DEF NewSession
    <3> QED BY <1>4, <2>1, <2>2, <2>3, <2>4, <3>1, <3>2, <3>3 DEF Verdicts, Settled
  <2>5. CASE z # s
    <3>1. Rows(z) \subseteq Agent
      BY DEF SessionsIInv, RowsTyped, Rows
    <3>2. Verdicts(z) /\ table'[z] = table[z]
      BY <1>5, <2>5 DEF SessionsIInv, Judgements
    <3> QED BY <1>1, <2>1, <2>2, <2>3, <3>1, <3>2 DEF Verdicts, AgentsStay
  <2> QED BY <2>4, <2>5
<1> QED BY <1>1, <1>6, <1>7, <1>8, <1>9, <1>10, <1>11 DEF SessionsIInv

LEMMA DropKeeps ==
    ASSUME SessionsIInv, NEW t \in Task, DropTask(t)
    PROVE  SessionsIInv'
<1>1. /\ t \in SessionId /\ t \notin Team /\ t \notin Agent /\ t # Caller
  BY SessionAssumption DEF SessionId
<1>2. /\ UNCHANGED <<table, cache, crew>> /\ disturbed' = disturbed \cup {t} /\ late' \subseteq late
      /\ To(t, "gone")
  BY DEF DropTask
<1>3. \E pc \in OwnPc \ {"off"} : To(t, pc)
  BY <1>2 DEF OwnPc
<1>4. /\ JobsTyped' /\ AgentsStay /\ OverStays
      /\ \A x \in SessionId : job'[x].pc = "off" => job[x].pc = "off"
  BY <1>1, <1>3, OwnGoesOn DEF SessionsIInv
<1>5. RowsTyped'
  BY <1>2 DEF SessionsIInv, RowsTyped
<1>6. Writers' /\ Manned'
  BY <1>2, <1>4, WritersStay, MannedStay DEF SessionsIInv
<1>7. Births'
  BY <1>2, <1>4, BirthsStay DEF SessionsIInv, AgentsStay
<1>8. Copies'
  <2> SUFFICES ASSUME NEW z \in SessionId \ disturbed'
               PROVE  Copied(z)'
    BY DEF Copies
  <2>1. z # t /\ Copied(z)
    BY <1>2 DEF SessionsIInv, Copies
  <2>2. \A w \in late : w.by = t => w.session = t
    BY <1>1 DEF SessionsIInv, Writers, Writer
  <2>3. \A w : w.session = z => (w \in late' <=> w \in late)
    BY <2>1, <2>2 DEF DropTask
  <2> QED BY <1>2, <2>1, <2>3, CopiedStays
<1>9. Judgements'
  BY <1>2, <1>4, JudgementsStay DEF SessionsIInv, Judgements, Verdicts
<1> QED BY <1>4, <1>5, <1>6, <1>7, <1>8, <1>9 DEF SessionsIInv

(***************************************************************************)
(* Callers of the other methods, the cache and a restart.                  *)
(***************************************************************************)
LEMMA SetStateKeeps ==
    ASSUME SessionsIInv, NEW s \in SessionId, NEW state \in SetTo, SetSessionState(s, state)
    PROVE  SessionsIInv'
<1>1. /\ state \in SessionState /\ Free(Caller) /\ UpdateState(Caller, s, state)
      /\ disturbed' = disturbed \cup {s} /\ UNCHANGED <<cache, crew, job>>
  BY SessionAssumption DEF SetSessionState
<1>2. JobsTyped' /\ AgentsStay /\ OverStays
  BY <1>1 DEF SessionsIInv, JobsTyped, AgentsStay, OverStays
<1>3. RowsTyped'
  BY <1>1, StateTyped DEF SessionsIInv
<1>4. PICK u : u = [by |-> Caller, session |-> s, what |-> state]
  OBVIOUS
<1>5. late' = late \cup {u} /\ u.by = Caller /\ u.session = s /\ u.what = state
  BY <1>1, <1>4 DEF UpdateState
<1>6. DOMAIN table' = DOMAIN table /\ \A z \in DOMAIN table \ {s} : table'[z] = table[z]
  BY <1>1 DEF UpdateState
<1>7. Writers'
  BY <1>1, <1>2, <1>5, WritersAnd DEF Writer, SessionsIInv
<1>8. Births'
  BY <1>1, <1>5, <1>6, BirthsStay DEF SessionsIInv, SessionState
<1>9. Copies'
  BY <1>1, CopiesState DEF SessionsIInv
<1>10. Manned'
  BY <1>1, <1>2, <1>6, MannedStay DEF SessionsIInv
<1>11. Judgements'
  BY <1>1, <1>2, <1>5, <1>6, JudgementsStay DEF SessionsIInv, Judgements, Verdicts
<1> QED BY <1>2, <1>3, <1>7, <1>8, <1>9, <1>10, <1>11 DEF SessionsIInv

LEMMA CountRetryKeeps ==
    ASSUME SessionsIInv, NEW s \in Team, CountRetry(s)
    PROVE  SessionsIInv'
<1>1. /\ Free(Caller) /\ s \in DOMAIN table /\ IncrementRetry(Caller, s)
      /\ disturbed' = Overtaking(s) /\ UNCHANGED <<cache, crew, job>>
  BY DEF CountRetry
<1>2. JobsTyped' /\ AgentsStay /\ OverStays
  BY <1>1 DEF SessionsIInv, JobsTyped, AgentsStay, OverStays
<1>3. s \in SessionId /\ s \notin Task
  BY SessionAssumption DEF SessionId
<1>4. disturbed \subseteq disturbed' /\ (s \notin disturbed' => ~Pending(s, {"insert"}))
  BY <1>1 DEF Overtaking, Pending
<1>5. job[s].pc # "off"
  BY <1>1, <1>3 DEF SessionsIInv, Births
<1> QED BY <1>1, <1>2, <1>3, <1>4, <1>5, RetryKeeps

LEMMA DeleteKeeps ==
    ASSUME SessionsIInv, NEW s \in SessionId, DeleteSession(s)
    PROVE  SessionsIInv'
<1>1. /\ Free(Caller) /\ s \in DOMAIN table /\ UNCHANGED <<cache, job>>
      /\ disturbed \subseteq disturbed'
      /\ s \notin disturbed' => ~\E w \in late : w.session = s
  BY DEF DeleteSession, Overtaking
<1>2. PICK u : u = [by |-> Caller, session |-> s, what |-> "delete"]
  OBVIOUS
<1>3. late' = late \cup {u} /\ u.by = Caller /\ u.session = s /\ u.what = "delete" /\ u \in Write
  BY <1>2 DEF DeleteSession, Write
<1>4. DOMAIN table' = DOMAIN table \ {s} /\ \A z \in DOMAIN table' : table'[z] = table[z]
  BY DEF DeleteSession, Without
<1>5. /\ \A a : a \in DOMAIN crew' <=> a \in DOMAIN crew /\ crew[a].session # s
      /\ \A a \in DOMAIN crew' : crew'[a] = crew[a]
  BY DEF DeleteSession, Without, Rows
<1>6. RowsTyped'
  BY <1>1, <1>3, <1>4, <1>5 DEF SessionsIInv, RowsTyped
<1>7. JobsTyped' /\ OverStays
  BY <1>1 DEF SessionsIInv, JobsTyped, OverStays
<1>8. Writers'
  BY <1>1, <1>3, <1>7, WritersAnd DEF Writer, SessionsIInv
<1>9. Births'
  <2>1. job[s].pc # "off"
    BY <1>1 DEF SessionsIInv, Births
  <2> QED BY <1>1, <1>3, <1>4, <2>1, BirthsStay DEF SessionsIInv
<1>10. Copies'
  <2> SUFFICES ASSUME NEW z \in SessionId \ disturbed'
               PROVE  Copied(z)'
    BY DEF Copies
  <2>1. Copied(z)
    BY <1>1 DEF SessionsIInv, Copies
  <2>2. CASE z = s
    <3>1. Pending(s, {"delete"})' /\ ~Pending(s, {"insert"})'
      BY <1>1, <1>3, <2>2 DEF Pending
    <3> QED BY <1>4, <2>2, <3>1 DEF Copied
  <2>3. CASE z # s
    <3>1. \A w : w.session = z => (w \in late' <=> w \in late)
      BY <1>3, <2>3
    <3> QED BY <1>1, <1>4, <2>1, <2>3, <3>1, CopiedStays
  <2> QED BY <2>2, <2>3
<1>11. Manned'
  BY <1>1, <1>4, <1>5 DEF SessionsIInv, Manned
<1>12. Judgements'
  <2> SUFFICES ASSUME NEW z \in (Team \cap DOMAIN table') \ disturbed'
               PROVE  Verdicts(z)'
    BY DEF Judgements
  <2>1. z # s /\ Verdicts(z) /\ table'[z] = table[z]
    BY <1>1, <1>4 DEF SessionsIInv, Judgements
  <2>2. Rows(z)' = Rows(z) /\ Settled(z)' = Settled(z) /\ FinalVerdict(z)' = FinalVerdict(z)
    BY <1>5, <2>1, RowsStay
  <2>3. \A a : (Crewed(a, z)' <=> Crewed(a, z)) /\ (Concluding(a)' <=> Concluding(a))
    BY <1>1 DEF Crewed, Concluding
  <2>4. \A w \in late' : w.session = z => w \in late
    BY <1>3, <2>1
  <2> QED BY <1>1, <2>1, <2>2, <2>3, <2>4 DEF Verdicts
<1> QED BY <1>6, <1>7, <1>8, <1>9, <1>10, <1>11, <1>12 DEF SessionsIInv

LEMMA CacheKeeps ==
    ASSUME SessionsIInv, UpdateCache
    PROVE  SessionsIInv'
<1>1. PICK w \in late : cache' = Cached(w) /\ late' = late \ {w}
  BY DEF UpdateCache
<1>2. UNCHANGED <<table, crew, job, disturbed>>
  BY DEF UpdateCache
<1>3. PICK s \in SessionId : s = w.session
  BY <1>1 DEF SessionsIInv, RowsTyped, Write
<1>4. w.what \in SessionState \cup {"insert", "retry", "delete"} /\ w \in Write
  BY <1>1 DEF SessionsIInv, RowsTyped, Write
\* What becomes of the entry of s, and of the others.
<1>5. \A z : z # s => /\ z \in DOMAIN cache' <=> z \in DOMAIN cache
                      /\ z \in DOMAIN cache => cache'[z] = cache[z]
  BY <1>1, <1>3 DEF Cached, Put, Without
<1>6. w.what = "insert" => s \in DOMAIN cache' /\ cache'[s] = NewSession
  BY <1>1, <1>3 DEF Cached, Put
<1>7. w.what # "insert" /\ s \notin DOMAIN cache => s \notin DOMAIN cache'
  BY <1>1, <1>3 DEF Cached
<1>8. w.what = "delete" => s \notin DOMAIN cache'
  BY <1>1, <1>3 DEF Cached, Without
<1>9. ASSUME w.what = "retry", s \in DOMAIN cache
      PROVE  /\ s \in DOMAIN cache' /\ cache'[s] \in SessionRow
             /\ cache'[s].state = cache[s].state /\ cache'[s].retries = cache[s].retries + 1
  <2>1. cache' = [cache EXCEPT ![s].retries = cache[s].retries + 1]
    BY <1>1, <1>3, <1>9 DEF Cached
  <2>2. cache[s] \in SessionRow /\ cache'[s] = [cache[s] EXCEPT !.retries = cache[s].retries + 1]
    BY <1>9, <2>1 DEF SessionsIInv, RowsTyped
  <2> QED BY <1>9, <2>1, <2>2 DEF SessionRow
<1>10. ASSUME w.what \in SessionState, s \in DOMAIN cache
       PROVE  /\ s \in DOMAIN cache' /\ cache'[s] \in SessionRow
              /\ cache'[s].state = w.what /\ cache'[s].retries = cache[s].retries
  <2>1. cache' = [cache EXCEPT ![s].state = w.what]
    BY <1>1, <1>3, <1>10 DEF Cached, SessionState
  <2>2. cache[s] \in SessionRow /\ cache'[s] = [cache[s] EXCEPT !.state = w.what]
    BY <1>10, <2>1 DEF SessionsIInv, RowsTyped
  <2> QED BY <1>10, <2>1, <2>2 DEF SessionRow
<1>11. RowsTyped'
  <2>1. NewSession \in SessionRow
    BY DEF NewSession, SessionRow, SessionState
  <2>2. s \in DOMAIN cache' => cache'[s] \in SessionRow
    BY <1>4, <1>6, <1>7, <1>8, <1>9, <1>10, <2>1
  <2>3. DOMAIN cache' \subseteq SessionId /\ \A z \in DOMAIN cache' : cache'[z] \in SessionRow
    BY <1>3, <1>5, <2>2 DEF SessionsIInv, RowsTyped
  <2> QED BY <1>1, <1>2, <2>3 DEF SessionsIInv, RowsTyped
<1>12. JobsTyped' /\ AgentsStay /\ OverStays
  BY <1>2 DEF SessionsIInv, JobsTyped, AgentsStay, OverStays
<1>13. Writers' /\ Manned'
  BY <1>1, <1>2, <1>12, WritersStay, MannedStay DEF SessionsIInv
<1>14. Writer(w) /\ \A v \in late' : v.by # w.by
  BY <1>1 DEF SessionsIInv, Writers
<1>15. Births'
  <2>1. CASE w.what # "insert"
    BY <1>1, <1>2, <1>5, <1>7, <2>1, BirthsStay DEF SessionsIInv
  <2>2. CASE w.what = "insert"
    <3> SUFFICES ASSUME NEW z \in SessionId
                 PROVE  /\ job'[z].pc = "off" =>
                              /\ z \notin DOMAIN table'
                              /\ \A v \in late' : v.session = z => v.what # "insert" /\ z \in disturbed'
                        /\ job'[z].pc = "off" \/ Pending(z, {"insert"})' =>
                              z \notin DOMAIN cache' /\ \A a \in Agent : ~Crewed(a, z)'
      BY DEF Births
    <3>1. \A a : Crewed(a, z)' <=> Crewed(a, z)
      BY <1>2 DEF Crewed
    <3>2. Pending(z, {"insert"})' => Pending(z, {"insert"})
      BY <1>1 DEF Pending
    <3>3. CASE z = s
      <4>1. job[s].pc # "off"
        BY <1>1, <1>3, <2>2 DEF SessionsIInv, Births
      <4>2. ~Pending(s, {"insert"})'
        <5>1. \A v \in late' : v.session = s /\ v.what = "insert" => v.by = s
          BY <1>13 DEF Writers, Writer, SessionState
        <5> QED BY <1>3, <1>14, <2>2, <5>1 DEF Pending, Writer, SessionState
      <4> QED BY <1>2, <3>3, <4>1, <4>2
    <3>4. CASE z # s
      BY <1>1, <1>2, <1>5, <3>1, <3>2, <3>4 DEF SessionsIInv, Births
    <3> QED BY <3>3, <3>4
  <2> QED BY <2>1, <2>2
<1>16. Judgements'
  <2>1. ASSUME NEW z \in (Team \cap DOMAIN table') \ disturbed', z \in DOMAIN cache'
        PROVE  cache'[z].state # "running"
    <3>1. Verdicts(z)
      BY <1>2, <2>1 DEF SessionsIInv, Judgements
    <3>2. CASE z # s
      BY <1>5, <2>1, <3>1, <3>2 DEF Verdicts
    <3>3. CASE z = s /\ w.what = "insert"
      BY <1>6, <3>3 DEF NewSession
    <3>4. CASE z = s /\ w.what = "retry"
      BY <1>7, <1>9, <2>1, <3>1, <3>4 DEF Verdicts
    <3>5. CASE z = s /\ w.what \in SessionState
      BY <1>1, <1>3, <1>7, <1>10, <2>1, <3>1, <3>5 DEF Verdicts, FinalVerdict, SessionState
    <3> QED BY <1>4, <1>8, <2>1, <3>2, <3>3, <3>4, <3>5
  <2> QED BY <1>1, <1>2, <1>12, <2>1, JudgementsStay DEF SessionsIInv
<1>17. Copies'
  <2> SUFFICES ASSUME NEW z \in SessionId \ disturbed
               PROVE  Copied(z)'
    BY <1>2 DEF Copies
  <2>1. Copied(z)
    BY DEF SessionsIInv, Copies
  <2>2. CASE z # s
    <3>1. \A v : v.session = z => (v \in late' <=> v \in late)
      BY <1>1, <1>3, <2>2
    <3> QED BY <1>2, <1>5, <2>1, <2>2, <3>1, CopiedStays
  <2>3. CASE z = s /\ w.what = "insert"
    <3>1. Pending(s, {"insert"})
      BY <1>1, <1>3, <2>3 DEF Pending
    <3>2. \A v \in late : v.session = s => v = w
      <4>1. \A v \in late : v.session = s => v.what = "insert"
        BY <2>1, <2>3, <3>1 DEF Copied
      <4>2. \A v \in late : v.session = s => v.by = s
        BY <4>1 DEF SessionsIInv, Writers, Writer, SessionState
      <4> QED BY <1>1, <1>3, <4>2 DEF SessionsIInv, Writers
    <3>3. \A v \in late' : v.session # s
      BY <1>1, <3>2
    <3>4. /\ ~Pending(s, {"insert"})' /\ ~Pending(s, {"delete"})' /\ ~Pending(s, {"retry"})'
          /\ ~Pending(s, SessionState)'
      BY <3>3 DEF Pending
    <3>5. s \in DOMAIN table /\ table[s] = NewSession
      BY <2>1, <2>3, <3>1 DEF Copied
    <3> QED BY <1>2, <1>6, <2>3, <3>3, <3>4, <3>5 DEF Copied, NewSession
  <2>4. CASE z = s /\ w.what = "delete"
    <3>1. Pending(s, {"delete"}) /\ s \notin DOMAIN table
      BY <1>1, <1>3, <2>1, <2>4 DEF Pending, Copied
    <3>2. ~Pending(s, {"insert"})'
      BY <1>1, <2>1, <2>4, <3>1 DEF Copied, Pending
    <3> QED BY <1>2, <1>8, <2>4, <3>1, <3>2 DEF Copied
  <2>5. CASE z = s /\ w.what \in SessionState \cup {"retry"}
    <3>1. /\ w.what # "insert" /\ w.what # "delete"
      BY <2>5 DEF SessionState
    <3>2. ~Pending(s, {"insert"})
      BY <1>1, <1>3, <2>1, <2>5, <3>1 DEF Copied
    <3>3. /\ ~Pending(s, {"insert"})' /\ (Pending(s, {"delete"})' <=> Pending(s, {"delete"}))
      BY <1>1, <3>1, <3>2 DEF Pending
    <3>4. CASE s \notin DOMAIN table
      BY <1>2, <1>7, <2>1, <2>5, <3>1, <3>3, <3>4 DEF Copied
    <3>5. CASE s \in DOMAIN table /\ w.what = "retry"
      <4>1. /\ ~Pending(s, {"retry"})' /\ Pending(s, {"retry"})
            /\ (Pending(s, SessionState)' <=> Pending(s, SessionState))
        <5>1. \A v \in late : v.session = s /\ v.what = "retry" => v.by = w.by
          BY <1>1, <1>3, <3>5 DEF SessionsIInv, Writers, Writer, SessionState
        <5>2. \A v \in late : v.session = s /\ v.what = "retry" => v = w
          BY <1>1, <5>1 DEF SessionsIInv, Writers
        <5> QED BY <1>1, <1>3, <3>5, <5>2 DEF Pending, SessionState
      <4>2. s \in DOMAIN cache /\ cache[s] \in SessionRow
        BY <2>1, <2>5, <3>2, <3>5 DEF Copied, SessionsIInv, RowsTyped
      <4>3. /\ s \in DOMAIN cache' /\ cache'[s].state = cache[s].state
            /\ cache'[s].retries = cache[s].retries + 1
        BY <1>9, <3>5, <4>2
      <4> QED BY <1>1, <1>2, <2>1, <2>5, <3>2, <3>3, <3>5, <4>1, <4>2, <4>3 DEF Copied
    <3>6. CASE s \in DOMAIN table /\ w.what \in SessionState
      <4>1. Pending(s, {"retry"})' <=> Pending(s, {"retry"})
        BY <1>1, <3>6 DEF Pending, SessionState
      <4>2. s \in DOMAIN cache /\ w.what = table[s].state
        BY <1>1, <1>3, <2>1, <2>5, <3>2, <3>6 DEF Copied
      <4>3. /\ s \in DOMAIN cache' /\ cache'[s].state = w.what
            /\ cache'[s].retries = cache[s].retries
        BY <1>10, <3>6, <4>2
      <4> QED BY <1>1, <1>2, <2>1, <2>5, <3>2, <3>3, <3>6, <4>1, <4>2, <4>3 DEF Copied
    <3> QED BY <2>5, <3>4, <3>5, <3>6
  <2> QED BY <1>4, <2>2, <2>3, <2>4, <2>5
<1> QED BY <1>11, <1>12, <1>13, <1>15, <1>16, <1>17 DEF SessionsIInv

LEMMA RestartKeepsSessions ==
    ASSUME SessionsIInv, SessionsRestart
    PROVE  SessionsIInv'
<1>1. /\ UNCHANGED <<table, crew>> /\ cache' = table /\ late' = {}
      /\ disturbed' = disturbed \cup DOMAIN table
      /\ job' = [x \in DOMAIN job |-> IF job[x].pc \in Halted THEN job[x]
                                      ELSE [job[x] EXCEPT !.pc = "gone"]]
  BY DEF SessionsRestart
<1>2. DOMAIN job = SessionId \cup Agent
  BY DEF SessionsIInv, JobsTyped
<1>3. \A s \in SessionId : /\ job'[s] \in [pc : OwnPc]
                           /\ job'[s].pc = "off" => job[s].pc = "off"
  <2> SUFFICES ASSUME NEW s \in SessionId
               PROVE  job'[s] \in [pc : OwnPc] /\ (job'[s].pc = "off" => job[s].pc = "off")
    OBVIOUS
  <2>1. job[s] \in [pc : OwnPc]
    BY DEF SessionsIInv, JobsTyped
  <2>2. job'[s] = job[s] \/ job'[s] = [job[s] EXCEPT !.pc = "gone"]
    BY <1>1, <1>2
  <2>3. "gone" \in OwnPc /\ "gone" # "off"
    BY DEF OwnPc
  <2> QED BY <2>1, <2>2, <2>3
<1>4. \A a \in Agent :
         /\ job[a].pc = "off" => job'[a] = job[a]
         /\ job[a].pc # "off" => /\ job'[a] \in AgentJob /\ job'[a].session = job[a].session
                                 /\ job'[a].pc = "gone" \/ (job'[a].pc = "over" /\ job[a].pc = "over")
  <2> SUFFICES ASSUME NEW a \in Agent
               PROVE  /\ job[a].pc = "off" => job'[a] = job[a]
                      /\ job[a].pc # "off" =>
                            /\ job'[a] \in AgentJob /\ job'[a].session = job[a].session
                            /\ job'[a].pc = "gone" \/ (job'[a].pc = "over" /\ job[a].pc = "over")
    OBVIOUS
  <2>1. CASE job[a].pc = "off"
    BY <1>1, <1>2, <2>1 DEF Halted
  <2>2. CASE job[a].pc # "off"
    <3>1. job[a] \in AgentJob
      BY <2>2, AtJob DEF SessionsIInv
    <3>2. CASE job[a].pc \in Halted
      <4>1. job'[a] = job[a]
        BY <1>1, <1>2, <3>2
      <4>2. job[a].pc \in {"over", "gone"}
        BY <2>2, <3>1, <3>2 DEF AgentJob, Halted, AtWork, AtEnd
      <4> QED BY <2>2, <3>1, <4>1, <4>2
    <3>3. CASE job[a].pc \notin Halted
      <4>1. job'[a] = [job[a] EXCEPT !.pc = "gone"]
        BY <1>1, <1>2, <3>3
      <4> QED BY <2>2, <3>1, <4>1 DEF AgentJob
    <3> QED BY <3>2, <3>3
  <2> QED BY <2>1, <2>2
<1>5. RowsTyped'
  BY <1>1 DEF SessionsIInv, RowsTyped
<1>6. JobsTyped'
  <2>1. DOMAIN job' = SessionId \cup Agent
    BY <1>1, <1>2
  <2>2. \A a \in Agent : job'[a] = [pc |-> "off"] \/ job'[a] \in AgentJob
    BY <1>4, AtJob DEF SessionsIInv, JobsTyped, AgentJob
  <2>3. \A a \in Agent : job'[a].pc # "write"
    BY <1>4
  <2> QED BY <1>3, <2>1, <2>2, <2>3 DEF JobsTyped
<1>7. Writers'
  BY <1>1 DEF Writers
<1>8. Births'
  <2> SUFFICES ASSUME NEW s \in SessionId, job'[s].pc = "off"
               PROVE  s \notin DOMAIN table' /\ s \notin DOMAIN cache' /\ \A a \in Agent : ~Crewed(a, s)'
    BY <1>1 DEF Births, Pending
  <2>1. s \notin DOMAIN table /\ \A a \in Agent : ~Crewed(a, s)
    BY <1>3 DEF SessionsIInv, Births
  <2> QED BY <1>1, <1>4, <2>1, ZenonT(40) DEF Crewed
<1>9. Copies'
  BY <1>1 DEF Copies, Copied, Pending
<1>10. Manned'
  BY <1>1, <1>4, ZenonT(40) DEF SessionsIInv, Manned, AtWork, AtEnd
<1>11. Judgements'
  BY <1>1 DEF Judgements
<1> QED BY <1>5, <1>6, <1>7, <1>8, <1>9, <1>10, <1>11 DEF SessionsIInv

(***************************************************************************)
(* Agents.  A step that only moves agents keeps all but the judgements,    *)
(* and those too unless an agent counts or judges.                         *)
(***************************************************************************)
LEMMA MovesKeep ==
    ASSUME SessionsIInv, JobsTyped', OverStays,
           UNCHANGED <<table, cache, crew, late, disturbed>>,
           \A x \in SessionId : job'[x] = job[x],
           \A a \in Agent : job'[a].pc # "off" =>
              \/ job[a].pc # "off" /\ job'[a].session = job[a].session
              \/ job'[a].session \in DOMAIN cache,
           \A a \in DOMAIN crew :
              /\ job'[a].pc \notin {"off", "create"} /\ job'[a].session = job[a].session
              /\ job'[a].pc \in AtWork => job[a].pc \in AtWork
              /\ job'[a].pc \in AtEnd \cup {"over"} => job[a].pc \in AtEnd \cup {"over"}
              /\ job'[a].pc = "gone" => job[a].pc = "gone",
           \A a \in Agent : job'[a].pc \in AtWork \cup AtEnd =>
              job[a].pc \in AtWork \cup AtEnd /\ job'[a].session = job[a].session,
           Judgements'
    PROVE  SessionsIInv'
<1>1. RowsTyped'
  BY DEF SessionsIInv, RowsTyped
<1>2. Writers' /\ Copies'
  BY WritersStay, CopiesStay DEF SessionsIInv
<1>3. Births'
  BY BirthsStay DEF SessionsIInv
<1>4. Manned'
  BY DEF SessionsIInv, Manned
<1> QED BY <1>1, <1>2, <1>3, <1>4 DEF SessionsIInv

LEMMA MovesKeepJudgements ==
    ASSUME Judgements, RowsTyped, UNCHANGED <<table, cache, crew, late, disturbed>>,
           \A a \in Agent : \/ job'[a] = job[a]
                            \/ job'[a].pc \notin {"judge", "write"} /\ ~Concluding(a)
    PROVE  Judgements'
<1> SUFFICES ASSUME NEW s \in (Team \cap DOMAIN table) \ disturbed
             PROVE  Verdicts(s)'
  BY DEF Judgements
<1>1. Verdicts(s)
  BY DEF Judgements
<1>2. /\ Rows(s)' = Rows(s) /\ Settled(s)' = Settled(s) /\ FinalVerdict(s)' = FinalVerdict(s)
  BY RowsStay
<1>3. Rows(s) \subseteq Agent
  BY DEF RowsTyped, Rows
<1>4. \A a \in Agent : Concluding(a) => Concluding(a)'
  BY DEF Concluding
<1>5. \A a \in Agent : job'[a].pc \in {"judge", "write"} => job'[a] = job[a] /\ (Crewed(a, s)' <=> Crewed(a, s))
  BY DEF Crewed
<1> QED BY <1>1, <1>2, <1>3, <1>4, <1>5 DEF Verdicts

LEMMA RequestKeeps ==
    ASSUME SessionsIInv, NEW a \in Agent, NEW s \in Team, RequestAgent(a, s)
    PROVE  SessionsIInv'
<1>1. PICK n : n = [pc |-> "create", session |-> s, parent |-> a, tries |-> 0,
                    counts |-> <<>>, verdict |-> ""]
  OBVIOUS
<1>2. n \in AgentJob /\ n.pc = "create" /\ n.session = s
  BY <1>1 DEF AgentJob
<1>3. /\ job[a].pc = "off" /\ s \in DOMAIN cache
      /\ UNCHANGED <<table, cache, crew, late, disturbed>>
      /\ job' = [job EXCEPT ![a] = n]
  BY <1>1 DEF RequestAgent, Doing
<1>4. a \notin SessionId /\ DOMAIN job = SessionId \cup Agent
  BY SessionAssumption DEF SessionId, SessionsIInv, JobsTyped
<1>5. /\ DOMAIN job' = DOMAIN job /\ job'[a] = n
      /\ \A x \in SessionId \cup Agent : x # a => job'[x] = job[x]
  BY <1>3, <1>4
<1>6. JobsTyped'
  BY <1>2, <1>4, <1>5 DEF SessionsIInv, JobsTyped
<1>7. a \notin DOMAIN crew
  BY <1>3 DEF SessionsIInv, Manned
<1>8. Judgements'
  BY <1>2, <1>3, <1>5, MovesKeepJudgements DEF SessionsIInv, Concluding
<1>9. OverStays /\ \A x \in SessionId : job'[x] = job[x]
  BY <1>3, <1>4, <1>5 DEF OverStays
<1>10. \A b \in DOMAIN crew : b \in Agent /\ b # a
  BY <1>7 DEF SessionsIInv, RowsTyped
<1>11. \A b \in DOMAIN crew : job'[b] = job[b] /\ job[b].pc \notin {"off", "create"}
  BY <1>5, <1>10 DEF SessionsIInv, Manned
<1> QED
  BY <1>2, <1>3, <1>5, <1>6, <1>8, <1>9, <1>11, MovesKeep DEF AtWork, AtEnd

LEMMA HelperKeeps ==
    ASSUME SessionsIInv, NEW a \in Agent, NEW b \in Agent \ {a}, RequestHelper(a, b)
    PROVE  SessionsIInv'
<1>1. /\ job[a].pc = "chat" /\ job[b].pc = "off" /\ job[a].session \in DOMAIN cache
      /\ UNCHANGED <<table, cache, crew, late, disturbed>>
  BY DEF RequestHelper, Doing
<1>2. job[a] \in AgentJob /\ job[a].session \in Team
  BY <1>1, AtJob DEF SessionsIInv
<1>3. PICK n, m : /\ n = [pc |-> "create", session |-> job[a].session, parent |-> a, tries |-> 0,
                          counts |-> <<>>, verdict |-> ""]
                  /\ m = [job[a] EXCEPT !.pc = "helped"]
  OBVIOUS
<1>4. /\ n \in AgentJob /\ n.pc = "create" /\ n.session = job[a].session
      /\ m \in AgentJob /\ m.pc = "helped" /\ m.session = job[a].session
  BY <1>2, <1>3 DEF AgentJob, AtWork
<1>5. a \notin SessionId /\ b \notin SessionId /\ DOMAIN job = SessionId \cup Agent
  BY SessionAssumption DEF SessionId, SessionsIInv, JobsTyped
<1>6. /\ DOMAIN job' = DOMAIN job /\ job'[a] = m /\ job'[b] = n
      /\ \A x \in SessionId \cup Agent : x # a /\ x # b => job'[x] = job[x]
  BY <1>3, <1>5 DEF RequestHelper
<1>7. JobsTyped'
  BY <1>4, <1>5, <1>6 DEF SessionsIInv, JobsTyped
<1>8. b \notin DOMAIN crew
  BY <1>1 DEF SessionsIInv, Manned
<1>9. Judgements'
  BY <1>1, <1>4, <1>6, MovesKeepJudgements DEF SessionsIInv, Concluding
<1>10. OverStays /\ \A x \in SessionId : job'[x] = job[x]
  BY <1>1, <1>5, <1>6 DEF OverStays
<1>11. \A c \in DOMAIN crew : c \in Agent /\ c # b /\ job[c].pc \notin {"off", "create"}
  BY <1>8 DEF SessionsIInv, RowsTyped, Manned
<1>12. \A c \in Agent : c # b => /\ job'[c].session = job[c].session
                                 /\ job'[c].pc = job[c].pc \/ (job'[c].pc = "helped" /\ job[c].pc = "chat")
  BY <1>1, <1>4, <1>6
<1> QED
  BY <1>1, <1>4, <1>6, <1>7, <1>9, <1>10, <1>11, <1>12, MovesKeep DEF AtWork, AtEnd

\* An agent has come about, or not; the one that waits for it goes on with its chat.
LEMMA ResumedFacts ==
    ASSUME JobsTyped, NEW a \in Agent, job[a].pc = "create", NEW pc \in {"run", "over"}, Resumed(a, pc)
    PROVE  /\ JobsTyped' /\ \A x \in SessionId : job'[x] = job[x]
           /\ job'[a].pc = pc /\ job'[a].session = job[a].session
           /\ \A b \in Agent \ {a} :
                 \/ job'[b] = job[b]
                 \/ /\ job[b].pc = "helped" /\ job'[b].pc = "chat"
                    /\ job'[b].session = job[b].session
<1>1. job[a] \in AgentJob
  BY AtJob
<1>2. PICK p \in Agent : p = job[a].parent
  BY <1>1 DEF AgentJob
<1>3. PICK m : m = [job[a] EXCEPT !.pc = pc]
  OBVIOUS
<1>4. m \in AgentJob /\ m.pc = pc /\ m.session = job[a].session /\ pc # "write"
  BY <1>1, <1>3 DEF AgentJob, AtWork
<1>5. SessionId \cap Agent = {} /\ DOMAIN job = SessionId \cup Agent
  BY SessionAssumption DEF SessionId, JobsTyped
<1>6. CASE p # a /\ job[p].pc = "helped"
  <2>1. job[p] \in AgentJob
    BY <1>6, AtJob
  <2>2. PICK q : q = [job[p] EXCEPT !.pc = "chat"]
    OBVIOUS
  <2>3. q \in AgentJob /\ q.pc = "chat" /\ q.session = job[p].session
    BY <2>1, <2>2 DEF AgentJob, AtWork
  <2>4. /\ DOMAIN job' = DOMAIN job /\ job'[a] = m /\ job'[p] = q
        /\ \A x \in SessionId \cup Agent : x # a /\ x # p => job'[x] = job[x]
    BY <1>2, <1>3, <1>5, <1>6, <2>2 DEF Resumed
  <2> QED BY <1>4, <1>5, <1>6, <2>3, <2>4 DEF JobsTyped
<1>7. CASE ~(p # a /\ job[p].pc = "helped")
  <2>1. /\ DOMAIN job' = DOMAIN job /\ job'[a] = m
        /\ \A x \in SessionId \cup Agent : x # a => job'[x] = job[x]
    BY <1>2, <1>3, <1>5, <1>7 DEF Resumed
  <2> QED BY <1>4, <1>5, <2>1 DEF JobsTyped
<1> QED BY <1>6, <1>7

\* The agent has no row: its session is gone, or claudecode has refused it.
LEMMA RefusedKeeps ==
    ASSUME SessionsIInv, NEW a \in Agent, job[a].pc = "create", Resumed(a, "over"),
           UNCHANGED <<table, cache, crew, late, disturbed>>
    PROVE  SessionsIInv'
<1>1. PICK pc \in {"run", "over"} : pc = "over" /\ Resumed(a, pc)
  OBVIOUS
<1>2. /\ JobsTyped' /\ \A x \in SessionId : job'[x] = job[x]
      /\ job'[a].pc = "over" /\ job'[a].session = job[a].session
      /\ \A b \in Agent \ {a} : \/ job'[b] = job[b]
                                \/ /\ job[b].pc = "helped" /\ job'[b].pc = "chat"
                                   /\ job'[b].session = job[b].session
  BY <1>1, ResumedFacts DEF SessionsIInv
<1>3. Judgements'
  BY <1>2, MovesKeepJudgements DEF SessionsIInv, Concluding
<1>4. OverStays
  BY <1>2 DEF OverStays
<1>5. \A b \in DOMAIN crew : b \in Agent /\ b # a /\ job[b].pc \notin {"off", "create"}
  BY DEF SessionsIInv, RowsTyped, Manned
<1>6. \A b \in Agent : /\ job'[b].pc # "off" => job[b].pc # "off" /\ job'[b].session = job[b].session
                       /\ job'[b].pc \in AtWork \cup AtEnd =>
                             job[b].pc \in AtWork \cup AtEnd /\ job'[b].session = job[b].session
  <2>1. "over" \notin AtWork \cup AtEnd /\ "helped" \in AtWork
    BY DEF AtWork, AtEnd
  <2>2. \A b \in Agent : job'[b].pc # "off" => job[b].pc # "off" /\ job'[b].session = job[b].session
    <3>1. \A b \in Agent : job'[b] = job[b] /\ job[b].pc # "off" => job'[b].session = job[b].session
      OBVIOUS
    <3> QED BY <1>2, <3>1
  <2>3. \A b \in Agent : job'[b].pc \in AtWork \cup AtEnd => job[b].pc \in AtWork \cup AtEnd
    BY <1>2, <2>1
  <2>4. "off" \notin AtWork \cup AtEnd
    BY DEF AtWork, AtEnd
  <2> QED BY <2>2, <2>3, <2>4
<1>7. \A b \in DOMAIN crew :
         /\ job'[b].pc \notin {"off", "create"} /\ job'[b].session = job[b].session
         /\ job'[b].pc \in AtWork => job[b].pc \in AtWork
         /\ job'[b].pc \in AtEnd \cup {"over"} => job[b].pc \in AtEnd \cup {"over"}
         /\ job'[b].pc = "gone" => job[b].pc = "gone"
  BY <1>2, <1>5 DEF AtWork, AtEnd
<1> QED BY <1>2, <1>3, <1>4, <1>6, <1>7, MovesKeep

LEMMA CreateAgentKeeps ==
    ASSUME SessionsIInv, NEW a \in Agent, CreateAgent(a), job[a].session \in DOMAIN table
    PROVE  SessionsIInv'
<1>1. PICK s : s = job[a].session
  OBVIOUS
<1>2. /\ job[a].pc = "create" /\ Resumed(a, "run") /\ UNCHANGED <<table, cache, late>>
      /\ crew' = Put(crew, a, [session |-> s, state |-> "idle"])
      /\ disturbed \subseteq disturbed'
      /\ Rows(s) # {} /\ Active(s) = {} => s \in disturbed'
  BY <1>1 DEF CreateAgent, Doing
<1>3. s \in Team
  BY <1>1, <1>2, AtJob DEF SessionsIInv
<1>4. PICK pc \in {"run", "over"} : pc = "run" /\ Resumed(a, pc)
  BY <1>2
<1>5. /\ JobsTyped' /\ \A x \in SessionId : job'[x] = job[x]
      /\ job'[a].pc = "run" /\ job'[a].session = s
      /\ \A b \in Agent \ {a} : \/ job'[b] = job[b]
                                \/ /\ job[b].pc = "helped" /\ job'[b].pc = "chat"
                                   /\ job'[b].session = job[b].session
  BY <1>1, <1>2, <1>4, ResumedFacts DEF SessionsIInv
<1>6. a \notin DOMAIN crew
  BY <1>2 DEF SessionsIInv, Manned
<1>7. /\ DOMAIN crew' = {a} \cup DOMAIN crew /\ crew'[a].session = s /\ crew'[a].state = "idle"
      /\ \A b \in DOMAIN crew : b # a /\ crew'[b] = crew[b]
      /\ crew'[a] \in AgentRow
  <2>1. [session |-> s, state |-> "idle"] \in AgentRow
    BY <1>3 DEF AgentRow, AgentStates
  <2> QED BY <1>2, <1>6, <2>1 DEF Put
<1>8. RowsTyped'
  BY <1>2, <1>7 DEF SessionsIInv, RowsTyped
<1>9. OverStays
  BY <1>2, <1>5 DEF OverStays
<1>10. Writers' /\ Copies'
  BY <1>2, <1>9, WritersStay, CopiesStay DEF SessionsIInv
<1>11. \A b \in Agent : job'[b].pc # "off" => job[b].pc # "off" /\ job'[b].session = job[b].session
  <2>1. \A b \in Agent : job'[b] = job[b] /\ job[b].pc # "off" => job'[b].session = job[b].session
    OBVIOUS
  <2> QED BY <1>1, <1>2, <1>5, <2>1
<1>12. Births'
  BY <1>2, <1>5, <1>11, BirthsStay DEF SessionsIInv
<1>13. Manned'
  <2> SUFFICES ASSUME NEW b \in Agent
               PROVE  /\ b \in DOMAIN crew' =>
                            /\ job'[b].pc \notin {"off", "create"} /\ crew'[b].session = job'[b].session
                            /\ crew'[b].session \in DOMAIN table'
                            /\ job'[b].pc \in AtWork => crew'[b].state \notin Ended
                            /\ job'[b].pc \in AtEnd \cup {"over"} => crew'[b].state \in Ended
                            /\ job'[b].pc = "gone" => crew'[b].session \in disturbed'
                      /\ job'[b].pc \in AtWork \cup AtEnd /\ job'[b].session \in DOMAIN table' =>
                            b \in DOMAIN crew'
    BY DEF Manned
  <2>1. CASE b = a
    BY <1>1, <1>2, <1>5, <1>7, <2>1 DEF AtWork, AtEnd, Ended
  <2>2. CASE b # a /\ job'[b] = job[b]
    BY <1>2, <1>7, <2>2 DEF SessionsIInv, Manned
  <2>3. CASE b # a /\ job[b].pc = "helped" /\ job'[b].pc = "chat" /\ job'[b].session = job[b].session
    BY <1>2, <1>7, <2>3 DEF SessionsIInv, Manned, AtWork, AtEnd
  <2> QED BY <1>5, <2>1, <2>2, <2>3
<1>14. Judgements'
  <2> SUFFICES ASSUME NEW z \in (Team \cap DOMAIN table') \ disturbed'
               PROVE  Verdicts(z)'
    BY DEF Judgements
  <2>1. Verdicts(z)
    BY <1>2 DEF SessionsIInv, Judgements
  <2>2. \A b \in Agent : job'[b].pc \in {"judge", "write"} =>
           job'[b] = job[b] /\ (Crewed(b, z)' <=> Crewed(b, z))
    BY <1>5 DEF Crewed
  <2>3. CASE z = s
    <3>1. ~Settled(s)
      BY <1>2, <2>3 DEF Settled
    <3>2. ~Settled(s)'
      <4>1. a \in Rows(s)' /\ a \notin InState(s, Ended)'
        BY <1>7 DEF Rows, InState, Ended
      <4> QED BY <4>1 DEF Settled, Active
    <3> QED BY <1>2, <2>1, <2>2, <2>3, <3>1, <3>2 DEF Verdicts
  <2>4. CASE z # s
    <3>1. Rows(z)' = Rows(z) /\ Settled(z)' = Settled(z) /\ FinalVerdict(z)' = FinalVerdict(z)
      BY <1>7, <2>4, RowsStay
    <3>2. Rows(z) \subseteq Agent \ {a}
      BY <1>6 DEF SessionsIInv, RowsTyped, Rows
    <3>3. \A b \in Rows(z) : Concluding(b) => Concluding(b)'
      BY <1>5, <3>2 DEF Concluding
    <3> QED BY <1>2, <2>1, <2>2, <3>1, <3>2, <3>3 DEF Verdicts
  <2> QED BY <2>3, <2>4
<1> QED BY <1>5, <1>8, <1>10, <1>12, <1>13, <1>14 DEF SessionsIInv

\* The chat of an agent goes on, or ends.
LEMMA WorkKeeps ==
    ASSUME SessionsIInv, NEW a \in Agent, job[a].pc \in AtWork,
           job'[a] \in AgentJob, job'[a].session = job[a].session, job'[a].pc \in AtWork \cup {"count"},
           DOMAIN job' = DOMAIN job, \A x \in DOMAIN job \ {a} : job'[x] = job[x],
           UNCHANGED <<table, cache, late, disturbed>>, DOMAIN crew' = DOMAIN crew,
           \A b \in DOMAIN crew \ {a} : crew'[b] = crew[b],
           a \in DOMAIN crew => /\ crew'[a] \in AgentRow /\ crew'[a].session = crew[a].session
                                /\ crew'[a].state \in Ended <=> job'[a].pc = "count"
    PROVE  SessionsIInv'
<1>1. SessionId \cap Agent = {} /\ DOMAIN job = SessionId \cup Agent
  BY SessionAssumption DEF SessionId, SessionsIInv, JobsTyped
<1>2. job[a].pc \notin {"off", "over", "create", "gone"} \cup AtEnd
  BY DEF AtWork, AtEnd
<1>3. job'[a].pc \notin {"off", "over", "create", "gone", "judge", "write"}
  BY DEF AtWork
<1>4. JobsTyped'
  BY <1>1, <1>3 DEF SessionsIInv, JobsTyped
<1>5. RowsTyped'
  BY DEF SessionsIInv, RowsTyped
<1>6. OverStays
  BY <1>1, <1>2 DEF OverStays
<1>7. Writers' /\ Copies'
  BY <1>6, WritersStay, CopiesStay DEF SessionsIInv
<1>8. Births'
  <2>1. \A b \in Agent : job'[b].pc # "off" => job[b].pc # "off" /\ job'[b].session = job[b].session
    BY <1>1, <1>2
  <2>2. \A x \in SessionId : job'[x] = job[x]
    BY <1>1
  <2> QED BY <2>1, <2>2, BirthsStay DEF SessionsIInv
<1>9. Manned'
  <2>1. \A b \in Agent \ {a} : job'[b] = job[b] /\ (b \in DOMAIN crew => crew'[b] = crew[b])
    BY <1>1
  <2>2. /\ job'[a].pc \in AtWork \cup AtEnd /\ "count" \notin AtWork
        /\ job'[a].pc \in AtEnd \cup {"over"} => job'[a].pc = "count"
    BY <1>3 DEF AtWork, AtEnd
  <2> QED BY <1>2, <1>3, <2>1, <2>2 DEF SessionsIInv, Manned
<1>10. Judgements'
  <2> SUFFICES ASSUME NEW z \in (Team \cap DOMAIN table) \ disturbed
               PROVE  Verdicts(z)'
    BY DEF Judgements
  <2>1. Verdicts(z)
    BY DEF SessionsIInv, Judgements
  <2>2. \A b \in Agent : job'[b].pc \in {"judge", "write"} =>
           job'[b] = job[b] /\ (Crewed(b, z)' <=> Crewed(b, z))
    BY <1>1, <1>3 DEF Crewed
  <2>3. CASE z = job[a].session
    <3>1. a \in DOMAIN crew /\ crew[a].session = z /\ crew[a].state \notin Ended
      BY <2>3 DEF SessionsIInv, Manned
    <3>2. ~Settled(z)
      <4>1. a \in Rows(z) /\ a \notin InState(z, Ended)
        BY <3>1 DEF Rows, InState
      <4> QED BY <4>1 DEF Settled, Active
    <3>3. Settled(z)' => a \in Rows(z)' /\ Concluding(a)'
      <4>1. a \in Rows(z)'
        BY <3>1 DEF Rows
      <4>2. Settled(z)' => crew'[a].state \in Ended
        BY <4>1 DEF Settled, Active, InState
      <4> QED BY <3>1, <4>1, <4>2 DEF Concluding
    <3> QED BY <2>1, <2>2, <3>2, <3>3 DEF Verdicts
  <2>4. CASE z # job[a].session
    <3>1. a \in DOMAIN crew => crew[a].session # z /\ crew'[a].session # z
      BY <2>4 DEF SessionsIInv, Manned
    <3>2. Rows(z)' = Rows(z) /\ Settled(z)' = Settled(z) /\ FinalVerdict(z)' = FinalVerdict(z)
      BY <3>1, RowsStay
    <3>3. Rows(z) \subseteq Agent \ {a}
      BY <3>1 DEF SessionsIInv, RowsTyped, Rows
    <3>4. \A b \in Rows(z) : Concluding(b) => Concluding(b)'
      BY <1>1, <3>3 DEF Concluding
    <3> QED BY <2>1, <2>2, <3>2, <3>3, <3>4 DEF Verdicts
  <2> QED BY <2>3, <2>4
<1> QED BY <1>4, <1>5, <1>7, <1>8, <1>9, <1>10 DEF SessionsIInv

LEMMA WorkStepKeeps ==
    ASSUME SessionsIInv, NEW a \in Agent, RunAgent(a) \/ AgentChatEnds(a) \/ AgentTest(a)
    PROVE  SessionsIInv'
<1>1. /\ job[a].pc \in AtWork /\ UNCHANGED <<table, cache, late, disturbed>>
  BY DEF RunAgent, AgentChatEnds, AgentTest, Doing, AtWork
<1>2. job[a] \in AgentJob /\ a \in DOMAIN job
  BY <1>1, AtJob DEF SessionsIInv, JobsTyped, AtWork
<1>3. PICK pc \in AtWork \cup {"count"}, n \in Nat :
         /\ job' = [job EXCEPT ![a] = [job[a] EXCEPT !.pc = pc, !.tries = n]]
         /\ \/ UNCHANGED crew /\ pc # "count"
            \/ \E state \in AgentStates : SetAgent(a, state) /\ (state \in Ended <=> pc = "count")
  <2>1. job[a].tries \in Nat
    BY <1>2 DEF AgentJob
  <2>2. \A pc : [job[a] EXCEPT !.pc = pc] = [job[a] EXCEPT !.pc = pc, !.tries = job[a].tries]
    BY <1>2 DEF AgentJob
  <2>3. \A pc : To(a, pc) => job' = [job EXCEPT ![a] = [job[a] EXCEPT !.pc = pc, !.tries = job[a].tries]]
    BY <2>2 DEF To
  <2>4. CASE \E pc \in AtWork \cup {"count"} : \E state \in AgentStates :
                To(a, pc) /\ SetAgent(a, state) /\ (state \in Ended <=> pc = "count")
    BY <2>1, <2>3, <2>4
  <2>5. CASE /\ job' = [job EXCEPT ![a].pc = "run", ![a].tries = job[a].tries + 1]
             /\ UNCHANGED crew
    <3>1. job[a].tries + 1 \in Nat /\ "run" \in AtWork \cup {"count"} /\ "run" # "count"
      BY <2>1 DEF AtWork
    <3>2. job' = [job EXCEPT ![a] = [job[a] EXCEPT !.pc = "run", !.tries = job[a].tries + 1]]
      BY <2>5
    <3> QED BY <2>5, <3>1, <3>2
  <2>6. \/ To(a, "chat") /\ SetAgent(a, "running")
        \/ To(a, "count") /\ (SetAgent(a, "failed") \/ SetAgent(a, "complete"))
        \/ To(a, "test") /\ SetAgent(a, "validating")
        \/ job' = [job EXCEPT ![a].pc = "run", ![a].tries = job[a].tries + 1] /\ UNCHANGED crew
    BY DEF RunAgent, AgentChatEnds, AgentTest
  <2> QED BY <2>4, <2>5, <2>6 DEF AtWork, AgentStates, Ended
<1>4. /\ DOMAIN job' = DOMAIN job /\ \A x \in DOMAIN job \ {a} : job'[x] = job[x]
      /\ job'[a] = [job[a] EXCEPT !.pc = pc, !.tries = n]
  BY <1>2, <1>3
<1>5. job'[a] \in AgentJob /\ job'[a].session = job[a].session /\ job'[a].pc = pc
  BY <1>2, <1>3, <1>4 DEF AgentJob, AtEnd
<1>6. /\ DOMAIN crew' = DOMAIN crew /\ \A b \in DOMAIN crew \ {a} : crew'[b] = crew[b]
      /\ a \in DOMAIN crew => /\ crew'[a] \in AgentRow /\ crew'[a].session = crew[a].session
                              /\ crew'[a].state \in Ended <=> pc = "count"
  <2>1. CASE UNCHANGED crew /\ pc # "count"
    <3>1. a \in DOMAIN crew => crew[a] \in AgentRow /\ crew[a].state \notin Ended
      BY <1>1 DEF SessionsIInv, RowsTyped, Manned
    <3> QED BY <2>1, <3>1
  <2>2. ASSUME NEW state \in AgentStates, SetAgent(a, state), state \in Ended <=> pc = "count"
        PROVE  /\ DOMAIN crew' = DOMAIN crew /\ \A b \in DOMAIN crew \ {a} : crew'[b] = crew[b]
               /\ a \in DOMAIN crew => /\ crew'[a] \in AgentRow /\ crew'[a].session = crew[a].session
                                       /\ crew'[a].state \in Ended <=> pc = "count"
    <3>1. CASE a \in DOMAIN crew
      <4>1. crew[a] \in AgentRow /\ crew' = [crew EXCEPT ![a].state = state]
        BY <2>2, <3>1 DEF SessionsIInv, RowsTyped, SetAgent
      <4>2. crew'[a] = [crew[a] EXCEPT !.state = state]
        BY <3>1, <4>1
      <4>3. crew'[a] \in AgentRow /\ crew'[a].session = crew[a].session /\ crew'[a].state = state
        BY <4>1, <4>2 DEF AgentRow
      <4> QED BY <2>2, <4>1, <4>3
    <3>2. CASE a \notin DOMAIN crew
      BY <2>2, <3>2 DEF SetAgent
    <3> QED BY <3>1, <3>2
  <2> QED BY <1>3, <2>1, <2>2
<1> QED BY <1>1, <1>3, <1>4, <1>5, <1>6, WorkKeeps

\* check_session_completion: the counts are those of a moment, and decide only if no
\* agent is active then.
LEMMA CountsDecide ==
    ASSUME RowsTyped, NEW s
    PROVE  /\ Cardinality(Active(s)) \in Nat
           /\ Cardinality(InState(s, {"complete"})) \in Nat /\ Cardinality(InState(s, {"failed"})) \in Nat
           /\ Cardinality(Active(s)) = 0 <=> Active(s) = {}
           /\ Settled(s) => Verdict(Cardinality(InState(s, {"complete"})), Cardinality(InState(s, {"failed"})))
                               = FinalVerdict(s)
<1>1. /\ Active(s) \subseteq Agent /\ InState(s, {"complete"}) \subseteq Agent
      /\ InState(s, {"failed"}) \subseteq Agent
  BY DEF RowsTyped, Rows, Active, InState
<1>2. \A S \in SUBSET Agent : IsFiniteSet(S) /\ Cardinality(S) \in Nat /\ (Cardinality(S) = 0 <=> S = {})
  BY SessionAssumption, FS_Subset, FS_EmptySet, FS_CardinalityType
<1>3. ASSUME Settled(s)
      PROVE  Verdict(Cardinality(InState(s, {"complete"})), Cardinality(InState(s, {"failed"})))
                = FinalVerdict(s)
  <2>1. Rows(s) # {} /\ \A a \in Rows(s) : crew[a].state \in {"complete", "failed"}
    BY <1>3 DEF Settled, Active, InState, Ended
  <2>2. Rows(s) = InState(s, {"failed"}) <=> InState(s, {"complete"}) = {}
    BY <2>1 DEF InState
  <2>3. InState(s, {"complete"}) = {} => InState(s, {"failed"}) # {}
    BY <2>1, <2>2
  <2> QED BY <1>1, <1>2, <2>2, <2>3 DEF Verdict, FinalVerdict
<1> QED BY <1>1, <1>2, <1>3

LEMMA CountKeeps ==
    ASSUME SessionsIInv, NEW a \in Agent, CountAgents(a)
    PROVE  SessionsIInv'
<1>1. PICK s : s = job[a].session
  OBVIOUS
<1>2. PICK c : c = <<Cardinality(Active(s)), Cardinality(InState(s, {"complete"})),
                     Cardinality(InState(s, {"failed"}))>>
  OBVIOUS
<1>3. /\ c \in Nat \X Nat \X Nat /\ c # <<>>
      /\ c[1] = 0 <=> Active(s) = {}
      /\ Settled(s) => Verdict(c[2], c[3]) = FinalVerdict(s)
  BY <1>2, CountsDecide DEF SessionsIInv
<1>4. /\ job[a].pc = "count" /\ UNCHANGED <<table, cache, crew, late, disturbed>>
      /\ job' = [job EXCEPT ![a].pc = "judge", ![a].counts = c]
  BY <1>1, <1>2 DEF CountAgents, Doing
<1>5. job[a] \in AgentJob /\ SessionId \cap Agent = {} /\ DOMAIN job = SessionId \cup Agent
  BY <1>4, AtJob, SessionAssumption DEF SessionId, SessionsIInv, JobsTyped
<1>6. /\ DOMAIN job' = DOMAIN job /\ \A x \in DOMAIN job \ {a} : job'[x] = job[x]
      /\ job'[a] = [job[a] EXCEPT !.pc = "judge", !.counts = c]
  BY <1>4, <1>5
<1>7. job'[a] \in AgentJob /\ job'[a].session = s /\ job'[a].pc = "judge" /\ job'[a].counts = c
  BY <1>1, <1>3, <1>5, <1>6 DEF AgentJob, AtEnd
<1>8. JobsTyped' /\ OverStays /\ \A x \in SessionId : job'[x] = job[x]
  BY <1>4, <1>5, <1>6, <1>7, ZenonT(40) DEF SessionsIInv, JobsTyped, OverStays
<1>9. Judgements'
  <2> SUFFICES ASSUME NEW z \in (Team \cap DOMAIN table) \ disturbed
               PROVE  Verdicts(z)'
    BY <1>4 DEF Judgements
  <2>1. Verdicts(z)
    BY DEF SessionsIInv, Judgements
  <2>2. Rows(z)' = Rows(z) /\ Settled(z)' = Settled(z) /\ FinalVerdict(z)' = FinalVerdict(z)
    BY <1>4, RowsStay
  <2>3. Rows(z) \subseteq Agent
    BY DEF SessionsIInv, RowsTyped, Rows
  <2>4. \A b \in Agent \ {a} : /\ job'[b] = job[b] /\ (Crewed(b, z)' <=> Crewed(b, z))
                               /\ Concluding(b)' <=> Concluding(b)
    BY <1>5, <1>6 DEF Crewed, Concluding
  <2>5. CASE z = s
    <3>1. a \in Rows(s)
      BY <1>1, <1>4, <2>5 DEF SessionsIInv, Manned, Rows, AtEnd
    <3>2. c[1] = 0 <=> Settled(s)
      BY <1>3, <3>1 DEF Settled
    <3>3. Settled(s) => Concluding(a)'
      BY <1>7, <3>2 DEF Concluding
    <3> QED BY <1>3, <1>4, <1>7, <2>1, <2>2, <2>3, <2>4, <2>5, <3>1, <3>2, <3>3, ZenonT(40) DEF Verdicts
  <2>6. CASE z # s
    <3>1. ~Crewed(a, z)' /\ a \notin Rows(z)
      BY <1>1, <1>7, <2>6 DEF SessionsIInv, Manned, Rows, Crewed
    <3> QED BY <1>4, <2>1, <2>2, <2>3, <2>4, <3>1 DEF Verdicts
  <2> QED BY <2>5, <2>6
<1>10. \A b \in Agent : /\ job'[b].pc # "off" => job[b].pc # "off" /\ job'[b].session = job[b].session
                        /\ b # a => job'[b] = job[b]
  BY <1>1, <1>4, <1>5, <1>6, <1>7
<1>11. \A b \in DOMAIN crew : b \in Agent /\ job[b].pc \notin {"off", "create"}
  BY DEF SessionsIInv, RowsTyped, Manned
<1> QED BY <1>1, <1>4, <1>7, <1>8, <1>9, <1>10, <1>11, MovesKeep DEF AtWork, AtEnd

LEMMA JudgeKeeps ==
    ASSUME SessionsIInv, NEW a \in Agent, Judge(a)
    PROVE  SessionsIInv'
<1>1. PICK s : s = job[a].session
  OBVIOUS
<1>2. job[a].pc = "judge" /\ UNCHANGED <<table, cache, crew, late, disturbed>>
  BY DEF Judge, Doing
<1>3. /\ job[a] \in AgentJob /\ s \in Team /\ s \notin Task
      /\ SessionId \cap Agent = {} /\ DOMAIN job = SessionId \cup Agent
  BY <1>1, <1>2, AtJob, SessionAssumption DEF SessionId, SessionsIInv, JobsTyped
<1>4. PICK v : v = Judged(a)
  OBVIOUS
<1>5. v \in {"", "running", "complete", "failed"}
  BY <1>4 DEF Judged, Verdict
<1>6. PICK pc : pc = IF v = "" THEN "over" ELSE "write"
  OBVIOUS
<1>7. /\ DOMAIN job' = DOMAIN job /\ \A x \in DOMAIN job \ {a} : job'[x] = job[x]
      /\ job'[a] = [job[a] EXCEPT !.pc = pc, !.verdict = v]
  BY <1>3, <1>4, <1>6 DEF Judge
<1>8. pc \in {"over", "write"} /\ v \in {""} \cup SessionState
  BY <1>5, <1>6 DEF SessionState
<1>9. job'[a] \in AgentJob /\ job'[a].session = s /\ job'[a].pc = pc /\ job'[a].verdict = v
  BY <1>1, <1>3, <1>7, <1>8 DEF AgentJob, AtEnd
<1>10. JobsTyped' /\ OverStays /\ \A x \in SessionId : job'[x] = job[x]
  BY <1>2, <1>3, <1>6, <1>7, <1>9 DEF SessionsIInv, JobsTyped, OverStays
\* If all have ended, all of them have been counted and the session is in the cache.
<1>11. ASSUME s \in DOMAIN table, s \notin disturbed
       PROVE  IF job[a].counts[1] = 0 THEN Settled(s) /\ v = FinalVerdict(s) /\ pc = "write"
              ELSE pc = "over"
  <2>1. Crewed(a, s) /\ s \in SessionId
    BY <1>1, <1>2, <1>3 DEF Crewed, SessionId
  <2>2. Verdicts(s) /\ Copied(s)
    BY <1>3, <1>11, <2>1 DEF SessionsIInv, Judgements, Copies
  <2>3. s \in DOMAIN cache
    BY <1>11, <2>1, <2>2 DEF SessionsIInv, Births, Copied
  <2>4. cache[s].state # "running" /\ job[a].counts # <<>>
    BY <1>2, <2>1, <2>2, <2>3 DEF Verdicts
  <2>5. job[a].counts[1] \in Nat
    BY <1>3, <2>4 DEF AgentJob
  <2>6. CASE job[a].counts[1] = 0
    <3>1. Settled(s) /\ Verdict(job[a].counts[2], job[a].counts[3]) = FinalVerdict(s)
      BY <1>2, <2>1, <2>2, <2>6 DEF Verdicts
    <3>2. v = FinalVerdict(s)
      BY <1>1, <1>3, <1>4, <2>3, <2>6, <3>1 DEF Judged
    <3> QED BY <1>6, <2>6, <3>1, <3>2 DEF FinalVerdict
  <2>7. CASE job[a].counts[1] # 0
    <3>1. job[a].counts[1] > 0
      BY <2>5, <2>7
    <3>2. v = ""
      BY <1>1, <1>4, <2>3, <2>4, <3>1 DEF Judged
    <3> QED BY <1>6, <2>7, <3>2
  <2> QED BY <2>6, <2>7
<1>12. Judgements'
  <2> SUFFICES ASSUME NEW z \in (Team \cap DOMAIN table) \ disturbed
               PROVE  Verdicts(z)'
    BY <1>2 DEF Judgements
  <2>1. Verdicts(z)
    BY DEF SessionsIInv, Judgements
  <2>2. Rows(z)' = Rows(z) /\ Settled(z)' = Settled(z) /\ FinalVerdict(z)' = FinalVerdict(z)
    BY <1>2, RowsStay
  <2>3. Rows(z) \subseteq Agent
    BY DEF SessionsIInv, RowsTyped, Rows
  <2>4. \A b \in Agent \ {a} : /\ job'[b] = job[b] /\ (Crewed(b, z)' <=> Crewed(b, z))
                               /\ Concluding(b)' <=> Concluding(b)
    BY <1>3, <1>7 DEF Crewed, Concluding
  <2>5. CASE z = s
    <3>1. Concluding(a) => Concluding(a)'
      BY <1>2, <1>9, <1>11, <2>5 DEF Concluding
    <3>2. /\ job'[a].pc # "judge"
          /\ job'[a].pc = "write" => Settled(s) /\ job'[a].verdict = FinalVerdict(s)
      BY <1>8, <1>9, <1>11, <2>5
    <3> QED BY <1>2, <2>1, <2>2, <2>3, <2>4, <2>5, <3>1, <3>2 DEF Verdicts
  <2>6. CASE z # s
    <3>1. ~Crewed(a, z)' /\ a \notin Rows(z)
      BY <1>1, <1>9, <2>6 DEF SessionsIInv, Manned, Rows, Crewed
    <3> QED BY <1>2, <2>1, <2>2, <2>3, <2>4, <3>1 DEF Verdicts
  <2> QED BY <2>5, <2>6
<1>13. \A b \in Agent : /\ job'[b].pc # "off" => job[b].pc # "off" /\ job'[b].session = job[b].session
                        /\ b # a => job'[b] = job[b]
  BY <1>1, <1>2, <1>3, <1>7, <1>9
<1>14. \A b \in DOMAIN crew : b \in Agent /\ job[b].pc \notin {"off", "create"}
  BY DEF SessionsIInv, RowsTyped, Manned
<1> QED BY <1>1, <1>2, <1>8, <1>9, <1>10, <1>12, <1>13, <1>14, MovesKeep DEF AtWork, AtEnd

LEMMA WriteKeeps ==
    ASSUME SessionsIInv, NEW a \in Agent, WriteVerdict(a)
    PROVE  SessionsIInv'
<1>1. PICK s, v : s = job[a].session /\ v = job[a].verdict
  OBVIOUS
<1>2. /\ job[a].pc = "write" /\ Free(a) /\ UpdateState(a, s, v) /\ To(a, "over")
      /\ UNCHANGED <<cache, crew, disturbed>>
  BY <1>1 DEF WriteVerdict, Doing
<1>3. /\ job[a] \in AgentJob /\ s \in Team /\ s \in SessionId
      /\ SessionId \cap Agent = {} /\ DOMAIN job = SessionId \cup Agent
  BY <1>1, <1>2, AtJob, SessionAssumption DEF SessionId, SessionsIInv, JobsTyped
<1>4. v \in SessionState
  BY <1>1, <1>2, <1>3 DEF SessionsIInv, JobsTyped, AgentJob
<1>5. /\ DOMAIN job' = DOMAIN job /\ \A x \in DOMAIN job \ {a} : job'[x] = job[x]
      /\ job'[a] = [job[a] EXCEPT !.pc = "over"]
  BY <1>2, <1>3 DEF To
<1>6. job'[a] \in AgentJob /\ job'[a].session = s /\ job'[a].pc = "over"
  BY <1>1, <1>3, <1>5 DEF AgentJob
<1>7. JobsTyped' /\ OverStays /\ \A x \in SessionId : job'[x] = job[x]
  BY <1>2, <1>3, <1>5, <1>6 DEF SessionsIInv, JobsTyped, OverStays
<1>8. RowsTyped'
  BY <1>2, <1>3, <1>4, StateTyped DEF SessionsIInv
<1>9. PICK u : u = [by |-> a, session |-> s, what |-> v]
  OBVIOUS
<1>10. late' = late \cup {u} /\ u.by = a /\ u.session = s /\ u.what = v
  BY <1>2, <1>9 DEF UpdateState
<1>11. DOMAIN table' = DOMAIN table /\ \A z \in DOMAIN table \ {s} : table'[z] = table[z]
  BY <1>2 DEF UpdateState
<1>12. Crewed(a, s) /\ Crewed(a, s)'
  BY <1>1, <1>2, <1>6 DEF Crewed
<1>13. Writers'
  BY <1>2, <1>4, <1>6, <1>7, <1>10, <1>12, WritersAnd DEF Writer, SessionsIInv
<1>14. ~Pending(s, {"insert"}) /\ job[s].pc # "off"
  BY <1>3, <1>12 DEF SessionsIInv, Births
<1>15. \A b \in Agent : /\ job'[b].pc # "off" => job[b].pc # "off" /\ job'[b].session = job[b].session
                        /\ b # a => job'[b] = job[b]
  BY <1>1, <1>2, <1>3, <1>5, <1>6
<1>16. Births'
  BY <1>2, <1>4, <1>7, <1>10, <1>11, <1>14, <1>15, BirthsStay DEF SessionsIInv, SessionState
<1>17. s \in DOMAIN table /\ s \notin disturbed =>
          /\ Settled(s) /\ v = FinalVerdict(s) /\ Verdicts(s) /\ a \in Rows(s)
          /\ \A w \in late : w.session = s /\ w.what \in SessionState => w.what = v
  BY <1>1, <1>2, <1>3, <1>12 DEF SessionsIInv, Judgements, Verdicts, Manned, Rows, AtEnd
<1>18. Copies'
  BY <1>2, <1>3, <1>4, <1>14, <1>17, CopiesState DEF SessionsIInv
<1>19. Manned'
  <2>1. "write" \in AtEnd /\ "write" \notin AtWork /\ "over" \notin AtWork \cup AtEnd
    BY DEF AtWork, AtEnd
  <2> QED BY <1>1, <1>2, <1>6, <1>11, <1>15, <2>1 DEF SessionsIInv, Manned
<1>20. Judgements'
  <2> SUFFICES ASSUME NEW z \in (Team \cap DOMAIN table) \ disturbed
               PROVE  Verdicts(z)'
    BY <1>2, <1>11 DEF Judgements
  <2>1. Verdicts(z)
    BY DEF SessionsIInv, Judgements
  <2>2. Rows(z)' = Rows(z) /\ Settled(z)' = Settled(z) /\ FinalVerdict(z)' = FinalVerdict(z)
    BY <1>2, RowsStay
  <2>3. \A b \in Agent : job'[b].pc \in {"judge", "write"} =>
           job'[b] = job[b] /\ (Crewed(b, z)' <=> Crewed(b, z))
    BY <1>6, <1>15 DEF Crewed
  <2>4. CASE z = s
    <3>1. table'[s].state = v
      <4>1. table[s] \in SessionRow /\ table'[s] = [table[s] EXCEPT !.state = v]
        BY <1>2, <2>4 DEF SessionsIInv, RowsTyped, UpdateState
      <4> QED BY <4>1 DEF SessionRow
    <3>2. v # "running"
      BY <1>17, <2>4 DEF FinalVerdict
    <3> QED BY <1>2, <1>10, <1>17, <2>1, <2>2, <2>3, <2>4, <3>1, <3>2 DEF Verdicts
  <2>5. CASE z # s
    <3>1. a \notin Rows(z) /\ Rows(z) \subseteq Agent
      BY <1>1, <2>5 DEF SessionsIInv, Manned, Rows, RowsTyped
    <3>2. \A b \in Rows(z) : Concluding(b) => Concluding(b)'
      BY <1>15, <3>1 DEF Concluding
    <3>3. table'[z] = table[z] /\ \A w \in late' : w.session = z => w \in late
      BY <1>10, <1>11, <2>5
    <3> QED BY <1>2, <2>1, <2>2, <2>3, <3>2, <3>3 DEF Verdicts
  <2> QED BY <2>4, <2>5
<1> QED BY <1>7, <1>8, <1>13, <1>16, <1>18, <1>19, <1>20 DEF SessionsIInv

(***************************************************************************)
(* The theorems.                                                           *)
(***************************************************************************)
LEMMA SessionsInductive == SessionsIInv /\ [SessionsNext]_sessionVars => SessionsIInv'
<1> SUFFICES ASSUME SessionsIInv, [SessionsNext]_sessionVars
             PROVE  SessionsIInv'
  OBVIOUS
<1>1. ASSUME NEW s \in SessionId, StartTask(s) \/ CreateTeam(s)
      PROVE  SessionsIInv'
  <2>1. /\ Doing(s, "off") /\ Insert(s, s) /\ UNCHANGED <<cache, crew, disturbed>>
        /\ \E pc \in OwnPc \ {"off"} : To(s, pc)
    BY <1>1 DEF StartTask, CreateTeam, OwnPc
  <2> QED BY <2>1, InsertKeeps
<1>2. ASSUME NEW t \in Task, TaskStep(t) \/ DropTask(t)
      PROVE  SessionsIInv'
  BY <1>2, TaskStepKeeps, DropKeeps
<1>3. ASSUME NEW s \in Team, CountRetry(s)
      PROVE  SessionsIInv'
  BY <1>3, CountRetryKeeps
<1>4. ASSUME NEW a \in Agent, NEW s \in Team, RequestAgent(a, s)
      PROVE  SessionsIInv'
  BY <1>4, RequestKeeps
<1>5. ASSUME NEW a \in Agent, NEW b \in Agent \ {a}, RequestHelper(a, b)
      PROVE  SessionsIInv'
  BY <1>5, HelperKeeps
<1>6. ASSUME NEW a \in Agent, AgentStep(a)
      PROVE  SessionsIInv'
  <2>1. CASE CreateAgent(a)
    <3>1. CASE job[a].session \in DOMAIN table
      BY <2>1, <3>1, CreateAgentKeeps
    <3>2. CASE job[a].session \notin DOMAIN table
      BY <2>1, <3>2, RefusedKeeps DEF CreateAgent, Doing
    <3> QED BY <3>1, <3>2
  <2>2. CASE RefuseAgent(a)
    BY <2>2, RefusedKeeps DEF RefuseAgent, Doing
  <2>3. CASE RunAgent(a) \/ AgentChatEnds(a) \/ AgentTest(a)
    BY <2>3, WorkStepKeeps
  <2>4. CASE CountAgents(a) \/ Judge(a) \/ WriteVerdict(a)
    BY <2>4, CountKeeps, JudgeKeeps, WriteKeeps
  <2> QED BY <1>6, <2>1, <2>2, <2>3, <2>4 DEF AgentStep
<1>7. ASSUME NEW s \in SessionId, DeleteSession(s) \/ \E state \in SetTo : SetSessionState(s, state)
      PROVE  SessionsIInv'
  BY <1>7, DeleteKeeps, SetStateKeeps
<1>8. CASE SessionsNext
  <2>1. Task \subseteq SessionId /\ Team \subseteq SessionId
    BY DEF SessionId
  <2> QED
    BY <1>1, <1>2, <1>3, <1>4, <1>5, <1>6, <1>7, <1>8, <2>1, CacheKeeps, RestartKeepsSessions
    DEF SessionsNext
<1>9. CASE UNCHANGED sessionVars
  BY <1>9, Idle
<1> QED BY <1>8, <1>9

LEMMA SessionsInitially == SessionsInit => SessionsIInv
<1> SUFFICES ASSUME SessionsInit
             PROVE  SessionsIInv
  OBVIOUS
<1>1. /\ DOMAIN table = {} /\ DOMAIN cache = {} /\ DOMAIN crew = {} /\ late = {}
      /\ DOMAIN job = SessionId \cup Agent /\ \A x \in SessionId \cup Agent : job[x] = [pc |-> "off"]
  BY DEF SessionsInit
<1>2. \A x \in SessionId \cup Agent : job[x].pc = "off"
  BY <1>1
<1>3. RowsTyped /\ JobsTyped
  <2>1. [pc |-> "off"] \in [pc : OwnPc]
    BY DEF OwnPc
  <2>2. \A a \in Agent : job[a].pc # "write"
    BY <1>2
  <2> QED BY <1>1, <2>1, <2>2 DEF RowsTyped, JobsTyped
<1>4. Writers /\ Births /\ Copies /\ Judgements
  BY <1>1, <1>2 DEF Writers, Births, Pending, Crewed, Copies, Copied, Judgements
<1>5. Manned
  BY <1>1, <1>2 DEF Manned, AtWork, AtEnd
<1> QED BY <1>3, <1>4, <1>5 DEF SessionsIInv

\* CacheAgrees (OrchaStorage.sessions, storage.rs): for any number of tasks, teams and
\* agents, get_session tells what the database holds as soon as no update of the
\* session is on its way, although the agents of a team write its row and its copy in
\* any order.
THEOREM CacheIsTheTable == SessionsSpec => []CacheAgrees
<1>1. SessionsIInv => CacheAgrees
  <2> SUFFICES ASSUME SessionsIInv, NEW s \in SessionId \ disturbed, ~\E w \in late : w.session = s
               PROVE  /\ s \in DOMAIN cache <=> s \in DOMAIN table
                      /\ s \in DOMAIN table => cache[s] = table[s]
    BY DEF CacheAgrees
  <2>1. Copied(s)
    BY DEF SessionsIInv, Copies
  <2>2. /\ ~Pending(s, {"insert"}) /\ ~Pending(s, {"delete"}) /\ ~Pending(s, {"retry"})
        /\ ~Pending(s, SessionState)
    BY DEF Pending
  <2>3. s \in DOMAIN cache <=> s \in DOMAIN table
    BY <2>1, <2>2 DEF Copied
  <2>4. ASSUME s \in DOMAIN table PROVE cache[s] = table[s]
    <3>1. cache[s] \in SessionRow /\ table[s] \in SessionRow
      BY <2>3, <2>4 DEF SessionsIInv, RowsTyped
    <3>2. cache[s].state = table[s].state /\ cache[s].retries = table[s].retries
      BY <2>1, <2>2, <2>4 DEF Copied
    <3> QED BY <3>1, <3>2 DEF SessionRow
  <2> QED BY <2>3, <2>4
<1> QED BY <1>1, SessionsInitially, SessionsInductive, PTL DEF SessionsSpec

\* VerdictOnAll (check_session_completion, orchestrator.rs): for any number of agents,
\* ending, counting and judging in any order, the last judgement that is written is the
\* one on all of them.
THEOREM LastVerdictStands == SessionsSpec => []VerdictOnAll
<1>1. SessionsIInv => VerdictOnAll
  <2> SUFFICES ASSUME SessionsIInv, NEW s \in (Team \cap DOMAIN table) \ disturbed, Rows(s) # {},
                      \A a \in Rows(s) : job[a].pc = "over"
               PROVE  table[s].state = FinalVerdict(s)
    BY DEF VerdictOnAll, FinalVerdict
  <2>1. \A a \in Rows(s) : crew[a].state \in Ended /\ ~Concluding(a)
    BY DEF SessionsIInv, Manned, Rows, RowsTyped, Concluding
  <2>2. Settled(s)
    BY <2>1 DEF Settled, Active, InState
  <2> QED BY <2>1, <2>2 DEF SessionsIInv, Judgements, Verdicts
<1> QED BY <1>1, SessionsInitially, SessionsInductive, PTL DEF SessionsSpec
-----------------------------------------------------------------------------
(***************************************************************************)
(* Gates: find_upstream_tasks.                                             *)
(***************************************************************************)
\* A set in which the walk back from n has nothing left to find.
Closed(n, S) == shape[n] \subseteq S /\ \A m \in S \ Worker : shape[m] \subseteq S

\* The walk of find_upstream_tasks, for as many rounds as there are nodes, ends in
\* the smallest such set.
LEMMA UpstreamClosed ==
  ASSUME NEW n \in Node, IsFiniteSet(Node), \A m \in Node : shape[m] \subseteq Node
  PROVE  \E X \in SUBSET Node : /\ Upstream(n) = X \cap Worker /\ Closed(n, X)
                                /\ \A S \in SUBSET Node : Closed(n, S) => X \subseteq S
<1> DEFINE next == [X \in SUBSET Node |-> X \cup UNION {Through(m) : m \in X}]
           def(f) == [k \in Nat |-> IF k = 0 THEN shape[n]
                                    ELSE f[k - 1] \cup UNION {Through(m) : m \in f[k - 1]}]
<1>1. \A m \in Node : Through(m) \in SUBSET Node BY DEF Through
<1>2. \A X \in SUBSET Node : next[X] = X \cup UNION {Through(m) : m \in X} /\ next[X] \in SUBSET Node
  BY <1>1
<1>3. PICK s : s = next OBVIOUS
<1>4. s \in [SUBSET Node -> SUBSET Node] BY <1>1, <1>3
<1>5. shape[n] \in SUBSET Node OBVIOUS
<1> HIDE DEF next
<1>6. PICK f \in [Nat -> SUBSET Node] : f[0] = shape[n] /\ \A k \in Nat : f[k + 1] = s[f[k]]
  <2>1. PICK P, x : P = SUBSET Node /\ x = shape[n] OBVIOUS
  <2>2. s \in [P -> P] /\ x \in P BY <1>4, <1>5, <2>1
  <2>3. \E f : Iterating(f, P, s, x) BY <2>2, Iterates
  <2> QED BY <2>1, <2>3 DEF Iterating
<1>7. f = def(f)
  <2>1. \A k \in Nat : f[k] = IF k = 0 THEN shape[n] ELSE f[k - 1] \cup UNION {Through(m) : m \in f[k - 1]}
    <3>1. SUFFICES ASSUME NEW k \in Nat, k # 0 PROVE f[k] = f[k - 1] \cup UNION {Through(m) : m \in f[k - 1]}
      BY <1>6
    <3>2. k - 1 \in Nat /\ (k - 1) + 1 = k BY <3>1
    <3>3. f[k] = s[f[k - 1]] BY <1>6, <3>2
    <3> QED BY <1>2, <1>3, <1>6, <3>2, <3>3
  <2>2. f = [k \in Nat |-> f[k]] OBVIOUS
  <2>3. f = def(f)
    <3>1. PICK d : d = def(f) OBVIOUS
    <3>2. \A k \in Nat : d[k] = f[k] BY <2>1, <3>1
    <3>3. d = [k \in Nat |-> d[k]] BY <3>1
    <3> QED BY <2>2, <3>1, <3>2, <3>3
  <2> QED BY <2>3
<1>8. PICK h : h = def(h) /\ Upstream(n) = h[Cardinality(Node)] \cap Worker
  <2>1. \E h : h = def(h) BY <1>7
  <2> DEFINE h == CHOOSE h : h = def(h)
  <2>2. h = def(h) BY <2>1
  <2>3. Upstream(n) = h[Cardinality(Node)] \cap Worker BY DEF Upstream
  <2> HIDE DEF h
  <2> QED BY <2>2, <2>3
<1>9. h[0] = shape[n] /\ \A k \in Nat : h[k + 1] = h[k] \cup UNION {Through(m) : m \in h[k]}
  <2>1. ASSUME NEW k \in Nat PROVE h[k + 1] = h[k] \cup UNION {Through(m) : m \in h[k]}
    <3>1. k + 1 \in Nat /\ k + 1 # 0 /\ (k + 1) - 1 = k OBVIOUS
    <3> QED BY <1>8, <3>1
  <2>2. h[0] = shape[n] BY <1>8
  <2> QED BY <2>1, <2>2
<1> HIDE DEF def
<1>10. \A k \in Nat : h[k] \in SUBSET Node
  <2> DEFINE T == {k \in Nat : h[k] \in SUBSET Node}
  <2>1. 0 \in T BY <1>5, <1>9
  <2>2. \A k \in T : k + 1 \in T BY <1>1, <1>9
  <2> HIDE DEF T
  <2>3. T \in SUBSET Nat BY DEF T
  <2>4. T = Nat BY <2>1, <2>2, <2>3, InductionOnNat
  <2> QED BY <2>4 DEF T
<1>11. PICK e : e = [k \in Nat |-> h[k]] OBVIOUS
<1>12. e \in [Nat -> SUBSET Node] BY <1>10, <1>11
<1>13. \A k \in Nat : e[k + 1] = s[e[k]] /\ e[k] \subseteq e[k + 1]
  <2>1. SUFFICES ASSUME NEW k \in Nat PROVE e[k + 1] = s[e[k]] /\ e[k] \subseteq e[k + 1] OBVIOUS
  <2>2. k + 1 \in Nat OBVIOUS
  <2>3. e[k] = h[k] /\ e[k + 1] = h[k + 1] /\ h[k] \in SUBSET Node BY <1>10, <1>11, <2>2
  <2>4. h[k + 1] = h[k] \cup UNION {Through(m) : m \in h[k]} BY <1>9
  <2> QED BY <1>2, <1>3, <2>3, <2>4
<1>14. PICK c \in Nat : c = Cardinality(Node) BY FS_CardinalityType
<1>15. s[e[c]] = e[c]
  <2>1. Cardinality(Node) <= c BY <1>14
  <2>2. PICK A : A = Node OBVIOUS
  <2> QED BY <1>4, <1>12, <1>13, <2>1, <2>2, Saturates
<1>16. PICK X \in SUBSET Node : X = h[c] BY <1>10
<1>17. Upstream(n) = X \cap Worker BY <1>8, <1>14, <1>16
<1>18. \A m \in X : Through(m) \subseteq X
  <2>1. e[c] = X BY <1>11, <1>16
  <2>2. X = X \cup UNION {Through(m) : m \in X} BY <1>2, <1>3, <1>15, <2>1
  <2> QED BY <2>2
<1>19. \A k \in Nat : shape[n] \subseteq h[k]
  <2> DEFINE T == {k \in Nat : shape[n] \subseteq h[k]}
  <2>1. 0 \in T BY <1>9
  <2>2. \A k \in T : k + 1 \in T BY <1>9
  <2> HIDE DEF T
  <2>3. T \in SUBSET Nat BY DEF T
  <2>4. T = Nat BY <2>1, <2>2, <2>3, InductionOnNat
  <2> QED BY <2>4 DEF T
<1>20. Closed(n, X) BY <1>16, <1>18, <1>19 DEF Closed, Through
<1>21. ASSUME NEW S \in SUBSET Node, Closed(n, S) PROVE X \subseteq S
  <2> DEFINE T == {k \in Nat : h[k] \subseteq S}
  <2>1. 0 \in T BY <1>9, <1>21 DEF Closed
  <2>2. ASSUME NEW k \in T PROVE k + 1 \in T
    <3>1. \A m \in h[k] : Through(m) \subseteq S BY <1>21 DEF Closed, Through
    <3> QED BY <1>9, <3>1
  <2> HIDE DEF T
  <2>3. T \in SUBSET Nat BY DEF T
  <2>4. T = Nat BY <2>1, <2>2, <2>3, InductionOnNat
  <2> QED BY <1>16, <2>4 DEF T
<1> QED BY <1>17, <1>20, <1>21

\* So what it finds are the contributors.
LEMMA UpstreamIsContributors ==
  ASSUME NEW n \in Node, IsFiniteSet(Node), \A m \in Node : shape[m] \subseteq Node
  PROVE  Upstream(n) = Contributors(n)
<1>1. PICK X \in SUBSET Node : /\ Upstream(n) = X \cap Worker /\ Closed(n, X)
                                /\ \A S \in SUBSET Node : Closed(n, S) => X \subseteq S
  BY UpstreamClosed
<1>2. Contributors(n) = {w \in Worker : \A S \in SUBSET Node : Closed(n, S) => w \in S}
  BY DEF Contributors, Closed
<1> QED BY <1>1, <1>2
-----------------------------------------------------------------------------
(***************************************************************************)
(* Gates: the invariant.                                                   *)
(***************************************************************************)
Stations == {"pending", "chat", "child", "command", "rerun", "review", "complete", "failed"}
All == DOMAIN Kind

GatesTyped ==
    /\ shape \in Shapes
    /\ at \in [All -> Stations] /\ tries \in [All -> Nat] /\ work \in [All -> Nat]
    /\ told \in [All -> SUBSET All] /\ todo \in [All -> SUBSET All] /\ redone \in [All -> SUBSET All]
    /\ outs \in [All -> [All -> Nat]] /\ answers \in [All -> {"none", "complete", "failed"}]

\* Who does what.
Employed ==
    \A n \in Node :
        /\ at[n] \in {"command", "rerun"} => Kind[n] = "validate"
        /\ at[n] = "child" => Kind[n] = "subgraph"
        /\ at[n] = "review" => Kind[n] = "review"
        /\ at[n] = "chat" => n \in Worker

\* Nothing begins before all that it waits for is complete, and what is complete stays so.
InOrder == \A n \in Node : at[n] # "pending" => \A m \in shape[n] : at[m] = "complete"

\* Nodes whose chat or command is about to be tried again have asked all of theirs.
Asking(n) ==
    /\ at[n] = "pending" => tries[n] = 0
    /\ at[n] = "command" /\ tries[n] > 0 => redone[n] = Contributors(n)
    /\ at[n] = "rerun" => todo[n] \cup redone[n] = Contributors(n)
    /\ at[n] = "chat" /\ Kind[n] = "synthesize" => told[n] = Contributors(n)

\* A validation that has begun, and may have had w run again.
Judging(m, w) == Kind[m] = "validate" /\ at[m] # "pending" /\ w \in Contributors(m)

\* A worker has produced one text when it completes its node, and more only if a
\* validation had it run again.
WorkedOnce ==
    \A w \in Worker :
        /\ at[w] \in {"pending", "chat"} => work[w] = 0
        /\ at[w] = "complete" => work[w] = 1 \/ \E m \in Node : Judging(m, w)

\* A validation that has begun has the latest text of each contributor, unless it
\* shares it.
Latest ==
    \A n \in Node : \A w \in Contributors(n) :
        Kind[n] = "validate" /\ at[n] # "pending" =>
            outs[n][w] = work[w] \/ \E m \in Node : Shares(n, m, w)

Asked == \A n \in Node : Asking(n)
GatesIInv == GatesTyped /\ Employed /\ InOrder /\ Asked /\ WorkedOnce /\ Latest

\* What the invariant says of the graph.
LEMMA GatesFacts ==
  ASSUME GatesIInv
  PROVE  /\ IsFiniteSet(Node) /\ Node \subseteq All /\ Worker \subseteq Node
         /\ \A m \in Node : shape[m] \subseteq Node
         /\ \A n \in Node : Upstream(n) = Contributors(n) /\ Contributors(n) \subseteq Worker
         /\ \A n \in Node : Kind[n] \in {"task", "synthesize", "validate", "review", "gather", "subgraph"}
         /\ \A n \in Node : at[n] \in Stations
<1>1. IsFiniteSet(Node) /\ Node \subseteq All /\ \A m \in Node : shape[m] \subseteq Node
  BY GatesAssumption DEF GatesIInv, GatesTyped, Node, All
<1>2. Worker \subseteq Node BY DEF Worker
<1>3. \A n \in Node : Upstream(n) = Contributors(n) BY <1>1, UpstreamIsContributors
<1>4. \A n \in Node : Contributors(n) \subseteq Worker BY DEF Contributors
<1>5. \A n \in Node : at[n] \in Stations BY <1>1 DEF GatesIInv, GatesTyped
<1>6. \A n \in Node : Kind[n] \in {"task", "synthesize", "validate", "review", "gather", "subgraph"}
  BY <1>1, GatesAssumption DEF All
<1> QED BY <1>1, <1>2, <1>3, <1>4, <1>5, <1>6

\* What has begun waits for nobody: all that contribute to it are complete.
LEMMA ContributorsAreComplete ==
  ASSUME GatesIInv, NEW n \in Node, \A m \in shape[n] : at[m] = "complete", NEW w \in Contributors(n)
  PROVE  at[w] = "complete"
<1> DEFINE S == {m \in Node : at[m] = "complete"}
<1>1. shape[n] \subseteq S BY GatesFacts
<1>2. \A m \in S : shape[m] \subseteq S BY GatesFacts DEF GatesIInv, InOrder
<1>3. S \in SUBSET Node OBVIOUS
<1>4. w \in S
  <2> HIDE DEF S
  <2> QED BY <1>1, <1>2, <1>3 DEF Contributors
<1> QED BY <1>4

LEMMA SameGraph ==
  ASSUME shape' = shape
  PROVE  /\ Node' = Node /\ Worker' = Worker
         /\ \A n \in Node : Contributors(n)' = Contributors(n)
<1>1. Node' = Node /\ Worker' = Worker BY DEF Node, Worker
<1> QED BY <1>1 DEF Contributors

LEMMA JudgesStay ==
  ASSUME shape' = shape, \A m \in Node : at[m] # "pending" => at'[m] # "pending", NEW m \in Node, NEW w
  PROVE  Judging(m, w) => Judging(m, w)'
BY SameGraph DEF Judging

LEMMA SharesStay ==
  ASSUME shape' = shape, \A m \in Node : at[m] # "pending" => at'[m] # "pending",
         NEW n, NEW m \in Node, NEW w
  PROVE  Shares(n, m, w) => Shares(n, m, w)'
BY SameGraph DEF Shares

LEMMA AtMoves ==
  ASSUME GatesIInv, NEW n \in Node, NEW q \in Stations, Move(n, q)
  PROVE  at' \in [All -> Stations] /\ at'[n] = q /\ \A m \in Node : m # n => at'[m] = at[m]
BY GatesFacts DEF GatesIInv, GatesTyped, Move

LEMMA OrderStays ==
  ASSUME GatesIInv, shape' = shape, NEW n \in Node, NEW q \in Stations, Move(n, q),
         at[n] # "complete", \A m \in shape[n] : at[m] = "complete"
  PROVE  InOrder'
<1>1. Node' = Node BY SameGraph
<1>2. \A m \in Node : at[m] = "complete" => at'[m] = "complete" BY AtMoves
<1>3. \A k \in Node : at'[k] # "pending" => \A m \in shape[k] : at[m] = "complete"
  BY AtMoves DEF GatesIInv, InOrder
<1> QED BY <1>1, <1>2, <1>3, GatesFacts DEF InOrder

\* A step that produces no text.
LEMMA QuietWork ==
  ASSUME GatesIInv, shape' = shape, work' = work, outs' = outs,
         \A m \in Node : at[m] # "pending" => at'[m] # "pending",
         \A m \in Node : Kind[m] = "validate" /\ at'[m] # "pending" => at[m] # "pending",
         \A w \in Worker : \/ at'[w] = at[w] \/ at'[w] = "failed"
                           \/ at'[w] = "chat" /\ at[w] = "pending"
  PROVE  WorkedOnce' /\ Latest'
<1>1. /\ Node' = Node /\ Worker' = Worker
      /\ \A n \in Node : Contributors(n)' = Contributors(n) BY SameGraph
<1>2. WorkedOnce'
  <2>1. SUFFICES ASSUME NEW w \in Worker
                 PROVE  /\ at'[w] \in {"pending", "chat"} => work[w] = 0
                        /\ at'[w] = "complete" => work[w] = 1 \/ \E m \in Node : Judging(m, w)'
    BY <1>1 DEF WorkedOnce
  <2>2. /\ at[w] \in {"pending", "chat"} => work[w] = 0
        /\ at[w] = "complete" => work[w] = 1 \/ \E m \in Node : Judging(m, w)
    BY DEF GatesIInv, WorkedOnce
  <2> QED BY <2>2, JudgesStay
<1>3. Latest'
  <2>1. SUFFICES ASSUME NEW n \in Node, NEW w \in Contributors(n), Kind[n] = "validate", at'[n] # "pending"
                 PROVE  outs[n][w] = work[w] \/ \E m \in Node : Shares(n, m, w)'
    BY <1>1 DEF Latest
  <2>2. outs[n][w] = work[w] \/ \E m \in Node : Shares(n, m, w) BY <2>1 DEF GatesIInv, Latest
  <2> QED BY <2>2, SharesStay
<1> QED BY <1>2, <1>3

\* A step that changes nothing of what the invariant is about.
LEMMA GatesStutter ==
  ASSUME GatesIInv, UNCHANGED <<shape, at, tries, told, work, outs, todo, redone>>,
         answers' \in [All -> {"none", "complete", "failed"}]
  PROVE  GatesIInv'
<1>1. /\ Node' = Node /\ Worker' = Worker
      /\ \A n \in Node : Contributors(n)' = Contributors(n) BY SameGraph
<1>2. WorkedOnce' /\ Latest' BY QuietWork
<1>3. GatesTyped' BY DEF GatesIInv, GatesTyped
<1>4. Employed' /\ InOrder' BY <1>1 DEF GatesIInv, Employed, InOrder
<1>5. Asked' BY <1>1 DEF GatesIInv, Asked, Asking
<1> QED BY <1>2, <1>3, <1>4, <1>5 DEF GatesIInv

LEMMA AskedStays ==
  ASSUME GatesIInv, shape' = shape, NEW n \in Node, NEW q \in Stations, Move(n, q),
         \A m \in Node \ {n} : tries'[m] = tries[m] /\ told'[m] = told[m]
                                /\ todo'[m] = todo[m] /\ redone'[m] = redone[m],
         Asking(n)'
  PROVE  Asked'
<1>1. Node' = Node /\ \A m \in Node : Contributors(m)' = Contributors(m) BY SameGraph
<1>2. \A m \in Node \ {n} : at'[m] = at[m] BY AtMoves
<1>3. ASSUME NEW m \in Node \ {n} PROVE Asking(m)'
  BY <1>1, <1>2 DEF GatesIInv, Asked, Asking
<1> QED BY <1>1, <1>3 DEF Asked

LEMMA EmployedStays ==
  ASSUME GatesIInv, shape' = shape, NEW n \in Node, NEW q \in Stations, Move(n, q),
         q \in {"command", "rerun"} => Kind[n] = "validate", q = "child" => Kind[n] = "subgraph",
         q = "review" => Kind[n] = "review",
         q = "chat" => n \in Worker
  PROVE  Employed'
<1>1. Node' = Node /\ Worker' = Worker BY SameGraph
<1>2. at'[n] = q /\ \A m \in Node \ {n} : at'[m] = at[m] BY AtMoves
<1> QED BY <1>1, <1>2 DEF GatesIInv, Employed

\* A node goes from one place to another, and nothing else changes.
LEMMA PlaceChanges ==
  ASSUME GatesIInv, NEW n \in Node, NEW q \in Stations, Move(n, q),
         UNCHANGED <<shape, tries, work, outs, todo, redone, answers>>,
         at[n] # "complete", \A m \in shape[n] : at[m] = "complete",
         told' \in [All -> SUBSET All], \A m \in Node \ {n} : told'[m] = told[m],
         \/ q = "failed" /\ at[n] # "pending"
         \/ q = "complete" /\ n \notin Worker /\ (Kind[n] = "validate" => at[n] # "pending")
         \/ q = "child" /\ Kind[n] = "subgraph"
         \/ q = "review" /\ Kind[n] = "review"
         \/ q = "chat" /\ n \in Worker /\ at[n] = "pending" /\ (Kind[n] = "synthesize" => told'[n] = Contributors(n))
  PROVE  GatesIInv'
<1>1. /\ Node' = Node /\ Worker' = Worker
      /\ \A m \in Node : Contributors(m)' = Contributors(m) BY SameGraph
<1>2. at' \in [All -> Stations] /\ at'[n] = q /\ \A m \in Node : m # n => at'[m] = at[m] BY AtMoves
<1>3. GatesTyped' BY <1>2 DEF GatesIInv, GatesTyped
<1>4. InOrder' BY OrderStays
<1>5. Employed' BY EmployedStays
<1>6. Asking(n)' BY <1>1, <1>2 DEF Asking
<1>7. Asked' BY <1>6, AskedStays
<1>8. \A w \in Worker : Kind[w] \in {"task", "synthesize"} BY DEF Worker
<1>9. \A m \in Node : at[m] # "pending" => at'[m] # "pending" BY <1>2
<1>10. \A m \in Node : Kind[m] = "validate" /\ at'[m] # "pending" => at[m] # "pending"
  BY <1>2, <1>8
<1>11. \A w \in Worker : at'[w] = at[w] \/ at'[w] = "failed" \/ (at'[w] = "chat" /\ at[w] = "pending")
  <2>1. Worker \subseteq Node BY GatesFacts
  <2> QED BY <1>2, <1>8, <2>1
<1>12. WorkedOnce' /\ Latest' BY <1>9, <1>10, <1>11, QuietWork
<1> QED BY <1>3, <1>4, <1>5, <1>7, <1>12 DEF GatesIInv

LEMMA DescribeTyped ==
  ASSUME GatesIInv, NEW n \in Node, Describe(n)
  PROVE  /\ told' \in [All -> SUBSET All] /\ \A m \in Node \ {n} : told'[m] = told[m]
         /\ Kind[n] = "synthesize" => told'[n] = Contributors(n)
<1>1. told \in [All -> SUBSET All] BY DEF GatesIInv, GatesTyped
<1>2. Upstream(n) = Contributors(n) /\ Contributors(n) \in SUBSET All /\ n \in All /\ Node \subseteq All
  BY GatesFacts
<1> QED BY <1>1, <1>2 DEF Describe

\* A validation begins, with what the lattice has stored.
LEMMA ValidationBegins ==
  ASSUME GatesIInv, NEW n \in Node, Begin(n), Kind[n] = "validate"
  PROVE  GatesIInv'
<1>1. /\ Move(n, "command") /\ outs' = [outs EXCEPT ![n] = Stored(n)] /\ at[n] = "pending"
      /\ UNCHANGED <<shape, tries, told, work, todo, redone, answers>>
      /\ \A m \in shape[n] : at[m] = "complete"
  BY DEF Begin, Start
<1>2. /\ Node' = Node /\ Worker' = Worker
      /\ \A m \in Node : Contributors(m)' = Contributors(m) BY <1>1, SameGraph
<1>3. at' \in [All -> Stations] /\ at'[n] = "command" /\ \A m \in Node : m # n => at'[m] = at[m]
  BY <1>1, AtMoves DEF Stations
<1>4. PICK s : s = Stored(n) OBVIOUS
<1>5. s \in [All -> Nat] /\ \A w \in Contributors(n) : s[w] = 1
  <2>1. \A w \in Contributors(n) : at[w] = "complete" /\ w \in Upstream(n) /\ w \in All
    BY <1>1, GatesFacts, ContributorsAreComplete
  <2> QED BY <1>4, <2>1 DEF Stored, All
<1>6. outs' \in [All -> [All -> Nat]] /\ outs'[n] = s /\ \A m \in Node \ {n} : outs'[m] = outs[m]
  BY <1>1, <1>4, <1>5, GatesFacts DEF GatesIInv, GatesTyped
<1>7. GatesTyped' BY <1>1, <1>3, <1>6 DEF GatesIInv, GatesTyped
<1>8. "command" \in Stations BY DEF Stations
<1>9. InOrder' BY <1>1, <1>8, OrderStays
<1>10. Employed' BY <1>1, <1>8, EmployedStays
<1>11. Asked'
  <2>1. tries[n] = 0 BY <1>1 DEF GatesIInv, Asked, Asking
  <2>2. Asking(n)' BY <1>1, <1>3, <2>1 DEF Asking
  <2> QED BY <1>1, <1>8, <2>2, AskedStays
<1>12. \A m \in Node : at[m] # "pending" => at'[m] # "pending" BY <1>1, <1>3
<1>13. n \notin Worker /\ \A w \in Worker : at'[w] = at[w]
  <2>1. n \notin Worker BY DEF Worker
  <2> QED BY <1>3, <2>1, GatesFacts
<1>14. WorkedOnce'
  <2>1. SUFFICES ASSUME NEW w \in Worker
                 PROVE  /\ at[w] \in {"pending", "chat"} => work[w] = 0
                        /\ at[w] = "complete" => work[w] = 1 \/ \E m \in Node : Judging(m, w)'
    BY <1>1, <1>2, <1>13 DEF WorkedOnce
  <2>2. /\ at[w] \in {"pending", "chat"} => work[w] = 0
        /\ at[w] = "complete" => work[w] = 1 \/ \E m \in Node : Judging(m, w)
    BY DEF GatesIInv, WorkedOnce
  <2> QED BY <1>1, <1>12, <2>2, JudgesStay
<1>15. Latest'
  <2>1. SUFFICES ASSUME NEW k \in Node, NEW w \in Contributors(k), Kind[k] = "validate", at'[k] # "pending"
                 PROVE  outs'[k][w] = work[w] \/ \E m \in Node : Shares(k, m, w)'
    BY <1>1, <1>2 DEF Latest
  <2>2. CASE k = n
    <3>1. at[w] = "complete" /\ w \in Worker BY <1>1, <2>2, GatesFacts, ContributorsAreComplete
    <3>2. work[w] = 1 \/ \E m \in Node : Judging(m, w) BY <3>1 DEF GatesIInv, WorkedOnce
    <3>3. CASE work[w] = 1 BY <1>5, <1>6, <2>2, <3>3
    <3>4. ASSUME NEW m \in Node, Judging(m, w) PROVE Shares(k, m, w)
      BY <1>1, <2>2, <3>4 DEF Judging, Shares
    <3> QED BY <1>1, <1>12, <3>2, <3>3, <3>4, SharesStay
  <2>3. CASE k # n
    <3>1. outs'[k] = outs[k] /\ at[k] # "pending" BY <1>3, <1>6, <2>1, <2>3
    <3>2. outs[k][w] = work[w] \/ \E m \in Node : Shares(k, m, w) BY <2>1, <3>1 DEF GatesIInv, Latest
    <3> QED BY <1>1, <1>12, <3>1, <3>2, SharesStay
  <2> QED BY <2>2, <2>3
<1> QED BY <1>7, <1>9, <1>10, <1>11, <1>14, <1>15 DEF GatesIInv

LEMMA BeginKeeps == ASSUME GatesIInv, NEW n \in Node, Begin(n) PROVE GatesIInv'
<1>1. /\ at[n] = "pending" /\ \A m \in shape[n] : at[m] = "complete"
      /\ UNCHANGED <<shape, tries, work, todo, redone, answers>> /\ Start(n)
  BY DEF Begin
<1>2. Kind[n] \in {"task", "synthesize", "validate", "review", "gather", "subgraph"} BY GatesFacts
<1>3. CASE Kind[n] = "validate" BY <1>3, ValidationBegins
<1>4. CASE Kind[n] \in {"review", "subgraph", "gather"}
  <2>1. PICK q \in Stations : /\ Move(n, q) /\ UNCHANGED <<outs, told>>
                              /\ \/ q = "review" /\ Kind[n] = "review"
                                 \/ q = "child" /\ Kind[n] = "subgraph"
                                 \/ q = "complete" /\ Kind[n] = "gather"
    BY <1>1, <1>4 DEF Start, Stations
  <2>2. q = "complete" => n \notin Worker BY <2>1 DEF Worker
  <2>3. told' \in [All -> SUBSET All] BY <2>1 DEF GatesIInv, GatesTyped
  <2> QED BY <1>1, <1>4, <2>1, <2>2, <2>3, PlaceChanges
<1>5. CASE Kind[n] \in {"task", "synthesize"}
  <2>1. Move(n, "chat") /\ Describe(n) /\ outs' = outs BY <1>1, <1>5 DEF Start
  <2>2. "chat" \in Stations /\ n \in Worker BY <1>5 DEF Stations, Worker
  <2> QED BY <1>1, <2>1, <2>2, DescribeTyped, PlaceChanges
<1> QED BY <1>2, <1>3, <1>4, <1>5

\* A task or a synthesis has its answer.
LEMMA WorkerAnswers ==
  ASSUME GatesIInv, NEW n \in Node, at[n] = "chat", Answers(n, n), Move(n, "complete"),
         UNCHANGED <<shape, tries, told, outs, todo, redone, answers>>
  PROVE  GatesIInv'
<1>1. n \in Worker /\ n \in All /\ \A m \in shape[n] : at[m] = "complete"
  BY GatesFacts DEF GatesIInv, Employed, InOrder
<1>2. work[n] = 0 BY <1>1 DEF GatesIInv, WorkedOnce
<1>3. work' \in [All -> Nat] /\ work'[n] = 1 /\ \A m \in All \ {n} : work'[m] = work[m]
  BY <1>1, <1>2 DEF Answers, GatesIInv, GatesTyped
<1>4. /\ Node' = Node /\ Worker' = Worker
      /\ \A m \in Node : Contributors(m)' = Contributors(m) BY SameGraph
<1>5. "complete" \in Stations BY DEF Stations
<1>6. at' \in [All -> Stations] /\ at'[n] = "complete" /\ \A m \in Node : m # n => at'[m] = at[m]
  BY <1>5, AtMoves
<1>7. GatesTyped' BY <1>3, <1>6 DEF GatesIInv, GatesTyped
<1>8. InOrder' /\ Employed' BY <1>1, <1>5, OrderStays, EmployedStays
<1>9. Asked'
  <2>1. Asking(n)' BY <1>6 DEF Asking
  <2> QED BY <1>5, <2>1, AskedStays
<1>10. \A m \in Node : at[m] # "pending" => at'[m] # "pending" BY <1>6
<1>11. WorkedOnce'
  <2>1. SUFFICES ASSUME NEW w \in Worker, w # n
                 PROVE  /\ at'[w] \in {"pending", "chat"} => work'[w] = 0
                        /\ at'[w] = "complete" => work'[w] = 1 \/ \E m \in Node : Judging(m, w)'
    BY <1>3, <1>4, <1>6 DEF WorkedOnce
  <2>2. at'[w] = at[w] /\ work'[w] = work[w] BY <1>3, <1>6, <2>1, GatesFacts
  <2>3. /\ at[w] \in {"pending", "chat"} => work[w] = 0
        /\ at[w] = "complete" => work[w] = 1 \/ \E m \in Node : Judging(m, w)
    BY DEF GatesIInv, WorkedOnce
  <2> QED BY <1>10, <2>2, <2>3, JudgesStay
<1>12. Latest'
  <2>1. SUFFICES ASSUME NEW k \in Node, NEW w \in Contributors(k), Kind[k] = "validate", at'[k] # "pending"
                 PROVE  outs[k][w] = work'[w] \/ \E m \in Node : Shares(k, m, w)'
    BY <1>4 DEF Latest
  <2>2. k # n BY <1>1, <2>1 DEF Worker
  <2>3. at[k] # "pending" BY <1>6, <2>1, <2>2
  <2>4. \A m \in shape[k] : at[m] = "complete" BY <2>3 DEF GatesIInv, InOrder
  <2>5. at[w] = "complete" /\ w \in All BY <2>4, GatesFacts, ContributorsAreComplete
  <2>6. work'[w] = work[w] BY <1>3, <2>5
  <2>7. outs[k][w] = work[w] \/ \E m \in Node : Shares(k, m, w) BY <2>1, <2>3 DEF GatesIInv, Latest
  <2> QED BY <1>10, <2>6, <2>7, SharesStay
<1> QED BY <1>7, <1>8, <1>9, <1>11, <1>12 DEF GatesIInv

LEMMA WorkKeepsGates == ASSUME GatesIInv, NEW n \in Node, Work(n) PROVE GatesIInv'
<1>1. at[n] = "chat" /\ UNCHANGED <<shape, outs, todo, redone, answers>> BY DEF Work
<1>2. \A m \in shape[n] : at[m] = "complete" BY <1>1 DEF GatesIInv, InOrder
<1>3. told \in [All -> SUBSET All] BY DEF GatesIInv, GatesTyped
<1>4. CASE Answers(n, n) /\ Move(n, "complete") /\ UNCHANGED <<tries, told>>
  BY <1>1, <1>4, WorkerAnswers
<1>5. CASE /\ Errs(n, n) /\ tries' = [tries EXCEPT ![n] = @ + 1] /\ Describe(n) /\ at' = at
  <2>1. /\ Node' = Node /\ Worker' = Worker
        /\ \A m \in Node : Contributors(m)' = Contributors(m) BY <1>1, SameGraph
  <2>2. work' = work BY <1>5 DEF Errs
  <2>3. WorkedOnce' /\ Latest' BY <1>1, <1>5, <2>2, QuietWork
  <2>4. /\ told' \in [All -> SUBSET All] /\ \A m \in Node \ {n} : told'[m] = told[m]
        /\ Kind[n] = "synthesize" => told'[n] = Contributors(n)
    BY <1>5, DescribeTyped
  <2>5. tries' \in [All -> Nat] /\ \A m \in Node \ {n} : tries'[m] = tries[m]
    BY <1>5, GatesFacts DEF GatesIInv, GatesTyped
  <2>6. GatesTyped' BY <1>1, <1>5, <2>2, <2>4, <2>5 DEF GatesIInv, GatesTyped
  <2>7. Employed' /\ InOrder' BY <1>1, <1>5, <2>1 DEF GatesIInv, Employed, InOrder
  <2>8. Asked'
    <3>1. Asking(n)' BY <1>1, <1>5, <2>1, <2>4 DEF Asking
    <3>2. \A m \in Node \ {n} : Asking(m)' BY <1>1, <1>5, <2>1, <2>4, <2>5 DEF GatesIInv, Asked, Asking
    <3> QED BY <2>1, <3>1, <3>2 DEF Asked
  <2> QED BY <2>3, <2>6, <2>7, <2>8 DEF GatesIInv
<1>6. CASE Errs(n, n) /\ Move(n, "failed") /\ UNCHANGED <<tries, told>>
  <2>1. work' = work /\ "failed" \in Stations BY <1>6 DEF Errs, Stations
  <2> QED BY <1>1, <1>2, <1>3, <1>6, <2>1, PlaceChanges
<1> QED BY <1>4, <1>5, <1>6 DEF Work

LEMMA ChildKeepsGates == ASSUME GatesIInv, NEW n \in Node, Child(n) PROVE GatesIInv'
<1>1. at[n] = "child" /\ UNCHANGED <<shape, tries, told, outs, todo, redone, answers>> BY DEF Child
<1>2. \A m \in shape[n] : at[m] = "complete" BY <1>1 DEF GatesIInv, InOrder
<1>3. Kind[n] = "subgraph" /\ n \notin Worker BY <1>1 DEF GatesIInv, Employed, Worker
<1>4. told \in [All -> SUBSET All] BY DEF GatesIInv, GatesTyped
<1>5. CASE Errs(n, n) /\ Move(n, "failed")
  <2>1. work' = work /\ "failed" \in Stations BY <1>5 DEF Errs, Stations
  <2> QED BY <1>1, <1>2, <1>4, <1>5, <2>1, PlaceChanges
<1>6. CASE Answers(n, n) /\ Move(n, "complete")
  <2>1. work' \in [All -> Nat] /\ \A w \in Worker : work'[w] = work[w]
    BY <1>3, <1>6, GatesFacts DEF Answers, GatesIInv, GatesTyped
  <2>2. /\ Node' = Node /\ Worker' = Worker
        /\ \A m \in Node : Contributors(m)' = Contributors(m) BY <1>1, SameGraph
  <2>3. "complete" \in Stations BY DEF Stations
  <2>4. at' \in [All -> Stations] /\ at'[n] = "complete" /\ \A m \in Node : m # n => at'[m] = at[m]
    BY <1>6, <2>3, AtMoves
  <2>5. GatesTyped' BY <1>1, <2>1, <2>4 DEF GatesIInv, GatesTyped
  <2>6. InOrder' /\ Employed' BY <1>1, <1>2, <1>6, <2>3, OrderStays, EmployedStays
  <2>7. Asked'
    <3>1. Asking(n)' BY <2>4 DEF Asking
    <3> QED BY <1>1, <1>6, <2>3, <3>1, AskedStays
  <2>8. \A m \in Node : at[m] # "pending" => at'[m] # "pending" BY <2>4
  <2>9. \A w \in Worker : at'[w] = at[w] BY <1>3, <2>4, GatesFacts
  <2>10. WorkedOnce'
    <3>1. SUFFICES ASSUME NEW w \in Worker
                   PROVE  /\ at[w] \in {"pending", "chat"} => work[w] = 0
                          /\ at[w] = "complete" => work[w] = 1 \/ \E m \in Node : Judging(m, w)'
      BY <2>1, <2>2, <2>9 DEF WorkedOnce
    <3>2. /\ at[w] \in {"pending", "chat"} => work[w] = 0
          /\ at[w] = "complete" => work[w] = 1 \/ \E m \in Node : Judging(m, w)
      BY DEF GatesIInv, WorkedOnce
    <3> QED BY <1>1, <2>8, <3>2, JudgesStay
  <2>11. Latest'
    <3>1. SUFFICES ASSUME NEW k \in Node, NEW w \in Contributors(k), Kind[k] = "validate", at'[k] # "pending"
                   PROVE  outs[k][w] = work[w] \/ \E m \in Node : Shares(k, m, w)'
      <4>1. \A k \in Node : Contributors(k) \subseteq Worker BY GatesFacts
      <4> QED BY <1>1, <2>1, <2>2, <4>1 DEF Latest
    <3>2. at[k] # "pending" BY <1>1, <2>4, <3>1
    <3>3. outs[k][w] = work[w] \/ \E m \in Node : Shares(k, m, w) BY <3>1, <3>2 DEF GatesIInv, Latest
    <3> QED BY <1>1, <2>8, <3>3, SharesStay
  <2> QED BY <2>5, <2>6, <2>7, <2>10, <2>11 DEF GatesIInv
<1> QED BY <1>5, <1>6 DEF Child

LEMMA CommandKeepsGates == ASSUME GatesIInv, NEW n \in Node, Command(n) PROVE GatesIInv'
<1>1. at[n] = "command" /\ UNCHANGED <<shape, told, work, outs, answers>>
  BY DEF Command, Passes, Refused
<1>2. \A m \in shape[n] : at[m] = "complete" BY <1>1 DEF GatesIInv, InOrder
<1>3. Kind[n] = "validate" /\ n \notin Worker BY <1>1 DEF GatesIInv, Employed, Worker
<1>4. told \in [All -> SUBSET All] BY DEF GatesIInv, GatesTyped
<1>5. CASE (Move(n, "complete") \/ Move(n, "failed")) /\ UNCHANGED <<tries, todo, redone>>
  <2>1. "complete" \in Stations /\ "failed" \in Stations BY DEF Stations
  <2>2. ASSUME Move(n, "complete") PROVE GatesIInv'
    BY <1>1, <1>2, <1>3, <1>4, <1>5, <2>1, <2>2, PlaceChanges
  <2>3. ASSUME Move(n, "failed") PROVE GatesIInv'
    BY <1>1, <1>2, <1>4, <1>5, <2>1, <2>3, PlaceChanges
  <2> QED BY <1>5, <2>2, <2>3
<1>6. CASE /\ Move(n, "rerun") /\ tries' = [tries EXCEPT ![n] = @ + 1]
           /\ todo' = [todo EXCEPT ![n] = Again(n)] /\ redone' = [redone EXCEPT ![n] = {}]
  <2>1. "rerun" \in Stations /\ n \in All BY GatesFacts DEF Stations
  <2>2. Again(n) = Contributors(n) /\ Contributors(n) \in SUBSET All BY GatesFacts DEF Again
  <2>3. at' \in [All -> Stations] /\ at'[n] = "rerun" /\ \A m \in Node : m # n => at'[m] = at[m]
    BY <1>6, <2>1, AtMoves
  <2>4. tries' \in [All -> Nat] /\ todo' \in [All -> SUBSET All] /\ redone' \in [All -> SUBSET All]
    BY <1>6, <2>1, <2>2 DEF GatesIInv, GatesTyped
  <2>5. todo'[n] \cup redone'[n] = Contributors(n)
        /\ \A m \in Node \ {n} : tries'[m] = tries[m] /\ todo'[m] = todo[m] /\ redone'[m] = redone[m]
    BY <1>6, <2>1, <2>2, GatesFacts DEF GatesIInv, GatesTyped
  <2>6. GatesTyped' BY <1>1, <2>3, <2>4 DEF GatesIInv, GatesTyped
  <2>7. InOrder' /\ Employed' BY <1>1, <1>2, <1>3, <1>6, <2>1, OrderStays, EmployedStays
  <2>8. Asked'
    <3>1. Asking(n)' BY <1>1, <2>3, <2>5, SameGraph DEF Asking
    <3> QED BY <1>1, <1>6, <2>1, <2>5, <3>1, AskedStays
  <2>9. WorkedOnce' /\ Latest'
    <3>1. \A m \in Node : at[m] # "pending" => at'[m] # "pending" BY <2>3
    <3>2. \A m \in Node : Kind[m] = "validate" /\ at'[m] # "pending" => at[m] # "pending" BY <1>1, <2>3
    <3>3. \A w \in Worker : at'[w] = at[w] BY <1>3, <2>3, GatesFacts
    <3> QED BY <1>1, <3>1, <3>2, <3>3, QuietWork
  <2> QED BY <2>6, <2>7, <2>8, <2>9 DEF GatesIInv
<1> QED BY <1>5, <1>6 DEF Command, Passes, Refused

\* A validation has one of its contributors run again.
LEMMA RerunKeeps == ASSUME GatesIInv, NEW n \in Node, Rerun(n) PROVE GatesIInv'
<1>1. PICK w \in todo[n] :
         /\ \/ Answers(n, w) /\ Obtained(n, w)
            \/ Errs(n, w) /\ outs' = outs
         /\ todo' = [todo EXCEPT ![n] = @ \ {w}] /\ redone' = [redone EXCEPT ![n] = @ \cup {w}]
         /\ IF todo[n] = {w} THEN Move(n, "command") ELSE at' = at
  BY DEF Rerun
<1>2. at[n] = "rerun" /\ UNCHANGED <<shape, tries, told, answers>> BY DEF Rerun
<1>3. \A m \in shape[n] : at[m] = "complete" BY <1>2 DEF GatesIInv, InOrder
<1>4. Kind[n] = "validate" /\ n \notin Worker BY <1>2 DEF GatesIInv, Employed, Worker
<1>5. todo[n] \cup redone[n] = Contributors(n) /\ w \in Contributors(n)
  BY <1>2 DEF GatesIInv, Asked, Asking
<1>6. w \in Worker /\ w \in Node /\ w \in All /\ n \in All BY <1>5, GatesFacts
<1>7. /\ Node' = Node /\ Worker' = Worker
      /\ \A m \in Node : Contributors(m)' = Contributors(m) BY <1>2, SameGraph
<1>8. PICK q \in {"rerun", "command"} : /\ at'[n] = q /\ (q = "command" => todo[n] = {w})
                                        /\ at' \in [All -> Stations] /\ \A m \in Node : m # n => at'[m] = at[m]
  <2>1. CASE todo[n] = {w}
    <3>1. Move(n, "command") /\ "command" \in Stations BY <1>1, <2>1 DEF Stations
    <3> QED BY <2>1, <3>1, AtMoves
  <2>2. CASE todo[n] # {w} BY <1>1, <1>2, <2>2 DEF GatesIInv, GatesTyped
  <2> QED BY <2>1, <2>2
<1>9. /\ todo' \in [All -> SUBSET All] /\ redone' \in [All -> SUBSET All]
      /\ todo'[n] = todo[n] \ {w} /\ redone'[n] = redone[n] \cup {w}
      /\ \A m \in Node \ {n} : todo'[m] = todo[m] /\ redone'[m] = redone[m]
  BY <1>1, <1>6, GatesFacts DEF GatesIInv, GatesTyped
<1>10. /\ work' \in [All -> Nat] /\ outs' \in [All -> [All -> Nat]]
       /\ \A x \in All \ {w} : work'[x] = work[x]
       /\ \A m \in All : \A x \in All : m # n \/ x # w => outs'[m][x] = outs[m][x]
       /\ outs'[n][w] = work'[w] \/ (outs' = outs /\ work' = work)
  <2>1. work \in [All -> Nat] /\ outs \in [All -> [All -> Nat]] BY DEF GatesIInv, GatesTyped
  <2>2. CASE Errs(n, w) /\ outs' = outs
    <3>1. work' = work BY <2>2 DEF Errs
    <3> QED BY <2>1, <2>2, <3>1
  <2>3. CASE Answers(n, w) /\ Obtained(n, w)
    <3>1. work' = [work EXCEPT ![w] = @ + 1] /\ outs' = [outs EXCEPT ![n][w] = work'[w]]
      BY <2>3 DEF Answers, Obtained
    <3>2. work' \in [All -> Nat] /\ \A x \in All \ {w} : work'[x] = work[x]
      BY <1>6, <2>1, <3>1
    <3>3. PICK k \in Nat : k = work'[w] BY <1>6, <3>2
    <3>4. outs' = [outs EXCEPT ![n] = [outs[n] EXCEPT ![w] = k]] BY <3>1, <3>3
    <3>5. PICK row : row = [outs[n] EXCEPT ![w] = k] OBVIOUS
    <3>6. row \in [All -> Nat] /\ row[w] = k /\ \A x \in All \ {w} : row[x] = outs[n][x]
      BY <1>6, <2>1, <3>3, <3>5
    <3>7. outs' = [outs EXCEPT ![n] = row] BY <3>4, <3>5
    <3>8. outs' \in [All -> [All -> Nat]] /\ outs'[n] = row /\ \A m \in All \ {n} : outs'[m] = outs[m]
      BY <1>6, <2>1, <3>6, <3>7
    <3> QED BY <3>2, <3>3, <3>6, <3>8
  <2> QED BY <1>1, <2>2, <2>3
<1>11. GatesTyped' BY <1>2, <1>8, <1>9, <1>10 DEF GatesIInv, GatesTyped
<1>12. InOrder'
  <2>1. \A m \in Node : at[m] = "complete" => at'[m] = "complete" BY <1>2, <1>8
  <2>2. \A m \in Node : at'[m] # "pending" => at[m] # "pending" BY <1>2, <1>8
  <2> QED BY <1>2, <1>7, <2>1, <2>2, GatesFacts DEF GatesIInv, InOrder
<1>13. Employed' BY <1>4, <1>7, <1>8 DEF GatesIInv, Employed
<1>14. Asked'
  <2>1. Asking(n)' BY <1>5, <1>7, <1>8, <1>9 DEF Asking
  <2>2. \A m \in Node \ {n} : Asking(m)' BY <1>2, <1>7, <1>8, <1>9 DEF GatesIInv, Asked, Asking
  <2> QED BY <1>7, <2>1, <2>2 DEF Asked
<1>15. \A m \in Node : at[m] # "pending" => at'[m] # "pending" BY <1>8
<1>16. \A m \in Node : at'[m] # "pending" => at[m] # "pending" BY <1>2, <1>8
<1>17. at[w] = "complete" BY <1>3, <1>5, ContributorsAreComplete
<1>18. Judging(n, w)' BY <1>4, <1>5, <1>7, <1>8 DEF Judging
<1>19. WorkedOnce'
  <2>1. SUFFICES ASSUME NEW x \in Worker
                 PROVE  /\ at'[x] \in {"pending", "chat"} => work'[x] = 0
                        /\ at'[x] = "complete" => work'[x] = 1 \/ \E m \in Node : Judging(m, x)'
    BY <1>7 DEF WorkedOnce
  <2>2. at'[x] = at[x] BY <1>4, <1>8, GatesFacts
  <2>3. CASE x = w BY <1>17, <1>18, <2>2, <2>3
  <2>4. CASE x # w
    <3>1. work'[x] = work[x] BY <1>10, <2>4, GatesFacts
    <3>2. /\ at[x] \in {"pending", "chat"} => work[x] = 0
          /\ at[x] = "complete" => work[x] = 1 \/ \E m \in Node : Judging(m, x)
      BY DEF GatesIInv, WorkedOnce
    <3> QED BY <1>2, <1>15, <2>2, <3>1, <3>2, JudgesStay
  <2> QED BY <2>3, <2>4
<1>20. Latest'
  <2>1. SUFFICES ASSUME NEW k \in Node, NEW x \in Contributors(k), Kind[k] = "validate", at'[k] # "pending"
                 PROVE  outs'[k][x] = work'[x] \/ \E m \in Node : Shares(k, m, x)'
    BY <1>7 DEF Latest
  <2>2. at[k] # "pending" /\ x \in All /\ k \in All BY <1>16, <2>1, GatesFacts
  <2>3. outs[k][x] = work[x] \/ \E m \in Node : Shares(k, m, x) BY <2>1, <2>2 DEF GatesIInv, Latest
  <2>4. CASE x # w
    <3>1. work'[x] = work[x] /\ outs'[k][x] = outs[k][x] BY <1>10, <2>2, <2>4
    <3> QED BY <1>2, <1>15, <2>3, <3>1, SharesStay
  <2>5. CASE x = w /\ k = n
    <3>1. CASE outs'[n][w] = work'[w] BY <2>5, <3>1
    <3>2. CASE outs' = outs /\ work' = work BY <1>2, <1>15, <2>3, <3>2, SharesStay
    <3> QED BY <1>10, <3>1, <3>2
  <2>6. CASE x = w /\ k # n
    <3>1. Shares(k, n, x)' BY <1>18, <2>6 DEF Judging, Shares
    <3> QED BY <3>1
  <2> QED BY <2>4, <2>5, <2>6
<1> QED BY <1>11, <1>12, <1>13, <1>14, <1>19, <1>20 DEF GatesIInv

LEMMA ReviewKeeps == ASSUME GatesIInv, NEW n \in Node, Review(n) PROVE GatesIInv'
<1>1. at[n] = "review" /\ UNCHANGED <<shape, tries, told, work, outs, todo, redone, answers>> BY DEF Review
<1>2. \A m \in shape[n] : at[m] = "complete" BY <1>1 DEF GatesIInv, InOrder
<1>3. told \in [All -> SUBSET All] BY DEF GatesIInv, GatesTyped
<1>4. PICK q \in {"complete", "failed"} : Move(n, q)
  <2>1. answers[n] \in {"none", "complete", "failed"} BY GatesFacts DEF GatesIInv, GatesTyped
  <2> QED BY <2>1 DEF Review
<1>5. "complete" \in Stations /\ "failed" \in Stations BY DEF Stations
<1>6. q = "complete" => n \notin Worker BY <1>1 DEF GatesIInv, Employed, Worker
<1> QED BY <1>1, <1>2, <1>3, <1>4, <1>5, <1>6, PlaceChanges

\* The invariant holds at first, and every step keeps it.
LEMMA GatesInitially == GatesInit => GatesIInv
<1> SUFFICES ASSUME GatesInit PROVE GatesIInv OBVIOUS
<1>1. PICK none, zero : none = [n \in All |-> {}] /\ zero = [n \in All |-> 0] OBVIOUS
<1>2. /\ shape \in Shapes
      /\ at = [n \in All |-> "pending"] /\ tries = zero /\ told = none
      /\ work = zero /\ outs = [n \in All |-> zero] /\ todo = none /\ redone = none
      /\ answers = [n \in All |-> "none"]
  BY <1>1 DEF GatesInit, All
<1>3. zero \in [All -> Nat] /\ none \in [All -> SUBSET All] BY <1>1
<1>4. GatesTyped BY <1>2, <1>3 DEF GatesTyped, Stations
<1>5. Node \subseteq All BY <1>2, GatesAssumption DEF Node, All
<1>6. \A n \in Node : at[n] = "pending" /\ tries[n] = 0 /\ work[n] = 0 BY <1>1, <1>2, <1>5
<1>7. Employed /\ InOrder /\ Asked /\ Latest BY <1>6 DEF Employed, InOrder, Asked, Asking, Latest
<1>8. WorkedOnce BY <1>6 DEF WorkedOnce, Worker
<1> QED BY <1>4, <1>7, <1>8 DEF GatesIInv

LEMMA GatesInductive == GatesIInv /\ [GatesNext]_gateVars => GatesIInv'
<1> SUFFICES ASSUME GatesIInv, [GatesNext]_gateVars PROVE GatesIInv' OBVIOUS
<1>0. answers \in [All -> {"none", "complete", "failed"}] BY DEF GatesIInv, GatesTyped
<1>1. ASSUME NEW n \in Node, NodeStep(n) PROVE GatesIInv'
  BY <1>1, BeginKeeps, WorkKeepsGates, ChildKeepsGates, CommandKeepsGates, RerunKeeps, ReviewKeeps DEF NodeStep
<1>2. ASSUME NEW n \in Node, NEW verdict \in {"complete", "failed"}, Answer(n, verdict) PROVE GatesIInv'
  <2>1. UNCHANGED <<shape, at, tries, told, work, outs, todo, redone>> BY <1>2 DEF Answer
  <2>2. answers' \in [All -> {"none", "complete", "failed"}] BY <1>0, <1>2 DEF Answer
  <2> QED BY <2>1, <2>2, GatesStutter
<1>3. ASSUME NEW n \in Node, NEW w \in Node, Hang(n, w) PROVE GatesIInv'
  BY <1>0, <1>3, GatesStutter DEF Hang
<1>4. ASSUME Cancel \/ End \/ UNCHANGED gateVars PROVE GatesIInv'
  <2>1. UNCHANGED <<shape, at, tries, told, work, outs, todo, redone, answers>>
    BY <1>4 DEF Cancel, End, gateVars
  <2> QED BY <1>0, <2>1, GatesStutter
<1> QED BY <1>1, <1>2, <1>3, <1>4 DEF GatesNext

\* AskedAll (find_upstream_tasks, graph_runner.rs): in every graph, with any number
\* of retries, a command is never tried again before every contributor across
\* gathers, validations, reviews and subgraphs has run again, and a synthesis is told
\* of all it joins.
THEOREM ContributorsAreAsked == GatesSpec => []AskedAll
<1>1. GatesIInv => AskedAll BY DEF GatesIInv, Asked, Asking, AskedAll
<1> QED BY <1>1, GatesInitially, GatesInductive, PTL DEF GatesSpec

\* TokenIsLatest (dispatch_validate_with_retry): the token of a validation carries
\* the latest text of every contributor that no other validation shares.
THEOREM TokensAreLatest == GatesSpec => []TokenIsLatest
<1>1. GatesIInv => TokenIsLatest BY DEF GatesIInv, Latest, TokenIsLatest
<1> QED BY <1>1, GatesInitially, GatesInductive, PTL DEF GatesSpec
=============================================================================
