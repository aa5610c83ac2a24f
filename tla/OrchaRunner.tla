----------------------------- MODULE OrchaRunner -----------------------------
(***************************************************************************)
(* Orcha's dispatcher on top of the lattice engine (orcha/graph_runner.rs, *)
(* graph_runtime.rs and the recovery, run and cancel methods of            *)
(* orcha/activation.rs).                                                   *)
(*                                                                         *)
(* The dispatcher reads the durable event log of one graph through a       *)
(* stream (execute_stream) and spawns a tokio task for each NodeReady; the *)
(* task runs the node and reports with advance_graph.  The dispatcher, the *)
(* tasks and other readers of the log are concurrent.  A restart of the    *)
(* substrate keeps the tables of Lattice and loses everything else.        *)
(***************************************************************************)
EXTENDS Lattice

CONSTANTS
    Runner,         \* the dispatcher's stream
    Watcher,        \* other streams of the graph: subscribe_graph
    Copy,           \* bound: tasks of one node alive at once, {1, ..., k}
    MaxAttempt,     \* attempts of each node: its max_retries + 1
    Patient,        \* nodes that ignore the cancel token: Validate
    Hang,           \* nodes whose agent never answers
    Tracked,        \* whether pm knows the graph: only such graphs are recovered
    MaxRestart,     \* bound: restarts of the substrate
    RestartInCall   \* whether a restart may cut an engine call short

Task == Node \X Copy
Stream == {Runner} \cup Watcher

ASSUME RunnerAssumption ==
    /\ Worker = {Runner} \cup Task
    /\ Runner \notin Watcher \cup Task
    /\ Copy = 1..Cardinality(Copy)
    /\ MaxAttempt \in [Node -> Nat \ {0}]
    /\ Patient \subseteq Node /\ Hang \subseteq Node
    /\ MaxRestart \in Nat
    /\ Tracked \in BOOLEAN /\ RestartInCall \in BOOLEAN

VARIABLES
    stream,      \* position of each stream in the log
    waiters,     \* streams waiting on the graph's Notify, first come first
    permit,      \* its stored permit, "absent" until a stream creates the Notify
    dispatched,  \* nodes the dispatcher does not dispatch (again)
    task,        \* spawned tasks that have not reported yet
    token,       \* the graph's entry in the cancel registry
    left,        \* nodes that recovery has still to inspect
    restarts

lattice == <<topology, nodeStatus, output, graphStatus, tokens, log, frame, reported>>
notify  == <<stream, waiters, permit>>
orcha   == <<dispatched, task, token, left, restarts>>
runnerVars == <<lattice, notify, orcha>>

\* A cancel token is a watch channel: "armed" while its sender is in the
\* registry, "fired" once true was sent, "dropped" when the sender went unused.
Signal == {"none", "armed", "fired", "dropped"}

TaskState == [pc : {"none", "spawned", "started", "working"}, attempt : Nat, rx : Signal]
NoTask == [pc |-> "none", attempt |-> 0, rx |-> "none"]

StreamState == [pc : {"off", "recover", "reemit", "start", "open", "fetch", "batch", "wait",
                      "closed"},
                cursor : Nat, upto : Nat]
AtStart(p) == [pc |-> p, cursor |-> 0, upto |-> 0]

Live(t) == task[t].pc # "none" \/ ~ At(t, "idle")
Terminal == {n \in nodes : IsTerminal(nodeStatus[n])}
Driving == stream[Runner].pc \in {"start", "open", "fetch", "batch", "wait"}
-----------------------------------------------------------------------------
(***************************************************************************)
(* tokio's Notify: notify_one wakes the first waiter, or leaves one permit *)
(* when nobody waits.  notify_graph does nothing while the graph has none. *)
(* (It follows the last statement of a call at once: a stream that reads   *)
(* in between is only woken once more.)                                    *)
(***************************************************************************)
Notify_NoPermit ==
    IF waiters = <<>>
    THEN UNCHANGED notify
    ELSE /\ stream' = [stream EXCEPT ![Head(waiters)].pc = "fetch"]
         /\ waiters' = Tail(waiters)
         /\ UNCHANGED permit
Notify ==
    IF waiters = <<>>
    THEN /\ permit' = IF permit = "absent" THEN "absent" ELSE "stored"
         /\ UNCHANGED <<stream, waiters>>
    ELSE /\ stream' = [stream EXCEPT ![Head(waiters)].pc = "fetch"]
         /\ waiters' = Tail(waiters)
         /\ UNCHANGED permit

\* A step of an engine call; the call notifies as it returns, except where it
\* ends with an error.
Engine(w) ==
    /\ Step(w)
    /\ IF frame'[w] = IdleFrame /\ ~ At(w, "deliver") THEN Notify ELSE UNCHANGED notify
    /\ UNCHANGED orcha
-----------------------------------------------------------------------------
(***************************************************************************)
(* The log streams.                                                        *)
(***************************************************************************)
\* get_or_create_notifier, once start_graph has returned.
Open(s) ==
    /\ stream[s].pc = "open"
    /\ s = Runner => At(Runner, "idle")
    /\ stream' = [stream EXCEPT ![s].pc = "fetch"]
    /\ permit' = IF permit = "absent" THEN "empty" ELSE permit
    /\ UNCHANGED <<lattice, waiters, orcha>>

\* get_events_after(cursor).
Fetch(s) ==
    /\ stream[s].pc = "fetch"
    /\ stream' = [stream EXCEPT ![s].pc = "batch", ![s].upto = Len(log)]
    /\ UNCHANGED <<lattice, waiters, permit, orcha>>

\* The events of the batch that its reader acts on: the end of the graph and,
\* for the dispatcher, NodeReady of a node that is not yet dispatched.
Ends(e) == e.type \in {"GraphDone", "GraphFailed"}
ToDispatch(e) == e.type = "NodeReady" /\ e.node \notin dispatched
Relevant(s) ==
    {i \in (stream[s].cursor + 1)..stream[s].upto :
        Ends(log[i]) \/ (s = Runner /\ ToDispatch(log[i]))}

\* The first of them is consumed, with the ones before it, which change nothing.
Position(s, i) == i
Consume(s, i) ==
    /\ stream[s].pc = "batch"
    /\ i \in Relevant(s) /\ \A j \in Relevant(s) : i <= j
    /\ stream' = [stream EXCEPT ![s].cursor = Position(s, i),
                                ![s].pc = IF Ends(log[i]) THEN "closed" ELSE @]
    /\ UNCHANGED <<lattice, waiters, permit>>

\* notifier.notified(), once the batch is used up.
Wait(s) ==
    /\ stream[s].pc = "batch"
    /\ Relevant(s) = {}
    /\ permit' = "empty"
    /\ stream' = [stream EXCEPT ![s].cursor = stream[s].upto,
                                ![s].pc = IF permit = "stored" THEN "fetch" ELSE "wait"]
    /\ waiters' = IF permit = "stored" THEN waiters ELSE Append(waiters, s)
    /\ UNCHANGED <<lattice, orcha>>

Observe(s) ==
    /\ s \in Watcher
    /\ \E i \in DOMAIN log : Consume(s, i)
    /\ UNCHANGED orcha

\* run_graph_execution: a NodeReady spawns a task, which gets a receiver of the
\* dispatcher's cancel token.
Remember_Nothing(n) == dispatched
Remember(n) == dispatched \cup {n}
FreeCopy(n) == {k \in Copy : ~ Live(<<n, k>>)}

Spawn(n) ==
    /\ dispatched' = Remember(n)
    /\ \E k \in FreeCopy(n) :
          /\ \A j \in FreeCopy(n) : k <= j
          /\ task' = [task EXCEPT ![<<n, k>>] =
                         [pc |-> "spawned", attempt |-> 0, rx |-> token]]
    /\ UNCHANGED <<token, left, restarts>>

\* The receivers of a cancel token whose sender goes away.
Orphan(ts) == [t \in Task |-> IF ts[t].rx = "armed" THEN [ts[t] EXCEPT !.rx = "dropped"]
                                                    ELSE ts[t]]

\* The dispatcher ends with the graph: its caller drops the token.
Finished ==
    /\ token' = "none"
    /\ task' = Orphan(task)
    /\ UNCHANGED <<dispatched, left, restarts>>

Dispatch ==
    \E i \in DOMAIN log :
        /\ Consume(Runner, i)
        /\ IF Ends(log[i]) THEN Finished ELSE Spawn(log[i].node)

Subscribe(s) ==
    /\ s \in Watcher
    /\ stream[s].pc = "off"
    /\ graphStatus # "pending"
    /\ stream' = [stream EXCEPT ![s] = AtStart("open")]
    /\ UNCHANGED <<lattice, waiters, permit, orcha>>
-----------------------------------------------------------------------------
(***************************************************************************)
(* A spawned task: start_node, the attempts of dispatch_node, and          *)
(* complete_node or fail_node.                                             *)
(***************************************************************************)
StartNode(t) ==
    /\ task[t].pc = "spawned"
    /\ SetNode(t[1], "running", {})
    /\ task' = [task EXCEPT ![t].pc = "started"]
    /\ UNCHANGED <<topology, graphStatus, tokens, log, frame, reported, notify,
                   dispatched, token, left, restarts>>

LogStarted(t) ==
    /\ task[t].pc = "started"
    /\ Persist(Ev("NodeStarted", t[1]))
    /\ Notify
    /\ task' = [task EXCEPT ![t].pc = "working"]
    /\ UNCHANGED <<topology, nodeStatus, output, graphStatus, tokens, frame, reported,
                   dispatched, token, left, restarts>>

\* Only the receiver's value is looked at: a dropped sender is not a cancel.
Stopped(t) == task[t].rx = "fired" /\ t[1] \notin Patient

ReportResult(t, failed) ==
    /\ Advance(t, t[1], {Fresh(1, IF failed THEN "error" ELSE "ok")}, failed)
    /\ task' = [task EXCEPT ![t] = NoTask]

Retry(t) == t[1] \notin Gather /\ task[t].attempt + 1 < MaxAttempt[t[1]]

AttemptFails(t) ==
    IF Retry(t)
    THEN /\ task' = [task EXCEPT ![t].attempt = @ + 1]
         /\ UNCHANGED frame
    ELSE ReportResult(t, TRUE)

taskUnchanged == <<topology, nodeStatus, output, graphStatus, tokens, log, reported,
                   notify, dispatched, token, left, restarts>>

\* An answer that arrives together with a cancel may win the select; that is
\* the same as its arriving first.
Succeed(t) ==
    /\ task[t].pc = "working"
    /\ t[1] \notin Gather
    /\ ~ Stopped(t)
    /\ ReportResult(t, FALSE)
    /\ UNCHANGED taskUnchanged

\* A gather does not belong here: "Engine-internal node type".
Fail(t) ==
    /\ task[t].pc = "working"
    /\ t[1] \in MayFail \cup Gather
    /\ AttemptFails(t)
    /\ UNCHANGED taskUnchanged

\* The cancel token interrupts the chat, and keeps dispatch_task from starting
\* another one in the next attempt.
Abort(t) ==
    /\ task[t].pc = "working"
    /\ Stopped(t)
    /\ AttemptFails(t)
    /\ UNCHANGED taskUnchanged

Run(t) == StartNode(t) \/ LogStarted(t) \/ Abort(t)
Result(t) == Succeed(t) \/ Fail(t)
-----------------------------------------------------------------------------
(***************************************************************************)
(* run_graph, run_tickets, cancel_graph.                                   *)
(***************************************************************************)
\* The nodes a new dispatcher does not dispatch.
Known_None == {}
Known_NotPending == {n \in nodes : nodeStatus[n] # "pending"}
Known == Terminal

Attach(p) ==
    /\ stream' = [stream EXCEPT ![Runner] = AtStart(p)]
    /\ dispatched' = Known
    /\ token' = "armed"
    /\ task' = Orphan(task)

Launch ==
    /\ stream[Runner].pc = "off"
    /\ At(Runner, "idle")
    /\ graphStatus = "pending"
    /\ Attach("start")
    /\ UNCHANGED <<lattice, waiters, permit, left, restarts>>

StartGraph ==
    /\ stream[Runner].pc = "start"
    /\ stream' = [stream EXCEPT ![Runner].pc = "open"]
    /\ Start(Runner)
    /\ UNCHANGED <<waiters, permit, orcha>>

Fire_Working(ts) == [t \in Task |-> IF ts[t].rx = "armed" /\ ts[t].pc = "working"
                                    THEN [ts[t] EXCEPT !.rx = "fired"] ELSE ts[t]]
Fire(ts) == [t \in Task |-> IF ts[t].rx = "armed" THEN [ts[t] EXCEPT !.rx = "fired"]
                                                  ELSE ts[t]]

\* A restart forgets a cancel, so none is made while one may follow.
CancelGraph ==
    /\ token = "armed"
    /\ restarts = MaxRestart
    /\ token' = "fired"
    /\ task' = Fire(task)
    /\ UNCHANGED <<lattice, notify, dispatched, left, restarts>>
-----------------------------------------------------------------------------
(***************************************************************************)
(* The substrate restarts, and recover_running_graphs looks at the nodes   *)
(* of each graph that is running and known to pm, in no specified order    *)
(* (created_at has a resolution of one second).                            *)
(***************************************************************************)
Cuttable(w) == At(w, "idle") \/ frame[w].op = "node" \/ RestartInCall
Restart ==
    /\ restarts < MaxRestart
    /\ \A w \in Worker : Cuttable(w)
    /\ stream' = [s \in Stream |-> AtStart(IF s = Runner /\ Tracked /\ graphStatus = "running"
                                          THEN "recover" ELSE "off")]
    /\ left' = {n \in nodes : nodeStatus[n] \in {"ready", "running"}}
    /\ frame' = [w \in Worker |-> IdleFrame]
    /\ task' = [t \in Task |-> NoTask]
    /\ waiters' = <<>> /\ permit' = "absent"
    /\ dispatched' = {} /\ token' = "none"
    /\ restarts' = restarts + 1
    /\ UNCHANGED <<topology, nodeStatus, output, graphStatus, tokens, log, reported>>

EmitReady(n) ==
    frame' = [frame EXCEPT ![Runner] =
                 [IdleFrame EXCEPT !.pc = "ready", !.op = "node", !.target = n]]

\* reset_running_to_ready; the engine's LogReady is its second statement.
ResetRunning ==
    /\ stream[Runner].pc = "recover"
    /\ At(Runner, "idle")
    /\ \E n \in left :
          /\ nodeStatus[n] = "running"
          /\ SetNode(n, "ready", {})
          /\ EmitReady(n)
          /\ left' = left \ {n}
    /\ UNCHANGED <<topology, graphStatus, tokens, log, reported, notify,
                   dispatched, task, token, restarts>>

\* The first ready node ends the inspection: reemit_ready_nodes emits an event
\* for every node that is ready by then.
FindReady ==
    /\ stream[Runner].pc = "recover"
    /\ At(Runner, "idle")
    /\ \E n \in left : nodeStatus[n] = "ready"
    /\ left' = {n \in nodes : nodeStatus[n] = "ready"}
    /\ stream' = [stream EXCEPT ![Runner].pc = "reemit"]
    /\ UNCHANGED <<lattice, waiters, permit, dispatched, task, token, restarts>>

ReemitReady ==
    /\ stream[Runner].pc = "reemit"
    /\ At(Runner, "idle")
    /\ \E n \in left : EmitReady(n) /\ left' = left \ {n}
    /\ UNCHANGED <<topology, nodeStatus, output, graphStatus, tokens, log, reported, notify,
                   dispatched, task, token, restarts>>

Reattach ==
    /\ stream[Runner].pc \in {"recover", "reemit"}
    /\ At(Runner, "idle")
    /\ left = {}
    /\ Attach("open")
    /\ UNCHANGED <<lattice, waiters, permit, left, restarts>>

Recover == ResetRunning \/ FindReady \/ ReemitReady \/ Reattach
-----------------------------------------------------------------------------
OrchaInit ==
    /\ Init
    /\ stream = [s \in Stream |-> AtStart("off")]
    /\ waiters = <<>> /\ permit = "absent"
    /\ dispatched = {} /\ token = "none" /\ left = {} /\ restarts = 0
    /\ task = [t \in Task |-> NoTask]

Read(s) == Open(s) \/ Fetch(s) \/ Wait(s)

OrchaNext ==
    \/ \E w \in Worker : Engine(w)
    \/ \E t \in Task : Run(t) \/ Result(t)
    \/ Read(Runner) \/ Dispatch
    \/ Launch \/ StartGraph \/ CancelGraph \/ Restart \/ Recover

(***************************************************************************)
(* Fairness.  Spawned tasks and the calls they make run on; an agent of a  *)
(* node outside Hang answers.  Nobody owes a cancel, nothing a restart.    *)
(***************************************************************************)
OrchaFairness ==
    /\ \A w \in Worker : WF_runnerVars(Engine(w))
    /\ \A t \in Task : WF_runnerVars(Run(t))
    /\ \A t \in Task : t[1] \notin Hang => WF_runnerVars(Result(t))
    /\ WF_runnerVars(Read(Runner) \/ Dispatch)
    /\ WF_runnerVars(StartGraph)
    /\ WF_runnerVars(Recover)

OrchaSpec == OrchaInit /\ [][OrchaNext]_runnerVars /\ OrchaFairness

\* Clients that watch the graph with subscribe_graph.
ObservedNext == OrchaNext \/ \E s \in Watcher : Subscribe(s) \/ Read(s) \/ Observe(s)
ObservedSpec == OrchaInit /\ [][ObservedNext]_runnerVars

\* A client of run_graph drops its stream, and with it the dispatcher, but not
\* the tasks it has spawned; a later run_graph reconnects.
Disconnect ==
    /\ stream[Runner].pc \in {"batch", "wait"}
    /\ stream' = [stream EXCEPT ![Runner] = AtStart("off")]
    /\ waiters' = SelectSeq(waiters, LAMBDA s : s # Runner)
    /\ UNCHANGED <<lattice, permit, orcha>>

Reconnect ==
    /\ stream[Runner].pc = "off"
    /\ graphStatus = "running"
    /\ Attach("open")
    /\ UNCHANGED <<lattice, waiters, permit, left, restarts>>

ReconnectSpec == OrchaInit /\ [][OrchaNext \/ Disconnect \/ Reconnect]_runnerVars
-----------------------------------------------------------------------------
(***************************************************************************)
(* Properties.                                                             *)
(***************************************************************************)
\* The dispatcher's variables hold values of their types, and a task makes no
\* more attempts than its node's max_retries allows.
OrchaTypeOK ==
    /\ stream \in [Stream -> StreamState]
    /\ waiters \in Seq(Stream)
    /\ permit \in {"absent", "empty", "stored"}
    /\ dispatched \subseteq Node /\ left \subseteq Node
    /\ task \in [Task -> TaskState]
    /\ \A t \in Task : task[t].attempt < MaxAttempt[t[1]]
    /\ token \in Signal
    /\ restarts \in 0..MaxRestart

\* No node is run by two tasks at once, across any number of reconnections:
\* the dispatched set of run_graph_execution.
OneTaskPerNode ==
    \A n \in Node : \A j, k \in Copy : Live(<<n, j>>) /\ Live(<<n, k>>) => j = k

\* No node is left behind: while a dispatcher runs, a node that is ready or
\* running is in the hands of a task, or of a call about to log NodeReady, or
\* waits in the part of the log that the dispatcher has still to read.
Unread(n) == \E i \in DOMAIN log : i > stream[Runner].cursor /\ log[i] = Ev("NodeReady", n)
AboutToLog(n) == \E w \in Worker : At(w, "ready") /\ frame[w].target = n
NothingAbandoned ==
    Driving => \A n \in nodes \ Gather :
        nodeStatus[n] \in {"ready", "running"} =>
            \/ \E k \in Copy : Live(<<n, k>>)
            \/ AboutToLog(n)
            \/ Unread(n) /\ n \notin dispatched

\* No lost wake-up: the dispatcher does not sleep through the work of a graph;
\* when no task and no call is left to wake it up, it has read the whole log.
NoStall ==
    (/\ \A t \in Task : ~ Live(t)
     /\ At(Runner, "idle")
     /\ stream[Runner].pc = "wait")
    => stream[Runner].cursor = Len(log)

\* No dead end: a dispatcher that waits with nothing left to read waits for a
\* task; a graph without one has reported its outcome, which closes the stream.
NoDeadEnd ==
    (stream[Runner].pc = "wait" /\ stream[Runner].cursor = Len(log))
    => \E t \in Task : Live(t)

\* A restart does not repeat finished work: a task is spawned only for a node
\* that has neither completed nor failed, although the whole log is replayed.
FinishedNotRerun ==
    [][\A n \in nodes :
          (\E k \in Copy : task[<<n, k>>].pc = "none" /\ task'[<<n, k>>].pc = "spawned")
          => ~ IsTerminal(nodeStatus[n])]_runnerVars

\* A graph that has started reports an outcome, through any restart between two engine
\* calls (after which pm has to know it), unless an agent that nobody cancels never
\* answers, or every end of the graph succeeded although another node had failed: no
\* outcome is defined for that (check_graph_complete, advance_graph).
Reported == \E e \in Events : Ends(e)
Hung == \E t \in Task : task[t].pc = "working" /\ t[1] \in Hang /\ ~ Stopped(t)
IsEnd(n) == \A e \in edges : From[e] # n
Swallowed ==
    /\ \A n \in nodes : IsTerminal(nodeStatus[n])
    /\ \A n \in nodes : IsEnd(n) => nodeStatus[n] = "complete"
    /\ \E n \in nodes : nodeStatus[n] = "failed"
Forgotten == ~ Tracked /\ restarts > 0
GraphReports == graphStatus = "running" ~> Reported \/ Hung \/ Swallowed \/ Forgotten

\* A cancelled graph settles even if agents never answer: cancel_graph reaches every
\* running task and every task spawned later.  It then reports an outcome, unless every
\* end of it succeeded: a validation ignores the cancel, and gets the error token of a
\* cancelled agent over an unconditioned edge.
CancelReports == token = "fired" ~> Reported \/ Swallowed
-----------------------------------------------------------------------------
(***************************************************************************)
(* The inductive invariant of OrchaProofs.  The nodes of live tasks are in *)
(* the dispatched set, which only Attach empties; it does so after a       *)
(* restart or before the start of the graph, when no task is alive.        *)
(***************************************************************************)
ReadyNamesNode == \A i \in DOMAIN log : log[i].type = "NodeReady" => log[i].node \in Node
LiveIsDispatched == \A t \in Task : Live(t) => t[1] \in dispatched
Detached == stream[Runner].pc \in {"off", "recover", "reemit"} => \A t \in Task : ~ Live(t)

OrchaTyped == Typed /\ OrchaTypeOK /\ ReadyNamesNode
OrchaIInv == OrchaTyped /\ LiveIsDispatched /\ Detached /\ OneTaskPerNode

(***************************************************************************)
(* What FinishedStaysDone adds to it. A call works on the node of its task *)
(* and on gathers. A gather is dispatched only if recovery has reset it;   *)
(* no call touches it then before a task does. All other nodes that are    *)
(* terminal are known to the dispatcher.                                   *)
(***************************************************************************)
Holds(f, n) == \/ \E i \in DOMAIN f.queue : f.queue[i].node = n
               \/ f.pc = "mark" /\ f.node = n
Enables(f, n) == f.pc = "enable" /\ f.target = n
Announced(n) == Ev("NodeReady", n) \in Events \/ AboutToLog(n)
Attached == stream[Runner].pc \notin {"off", "recover", "reemit"}

Sleeper == waiters \in {<<>>, <<Runner>>} /\ (waiters # <<>> => stream[Runner].pc = "wait")

OwnWork ==
    \A w \in Worker :
        /\ At(w, "idle") => frame[w].queue = <<>>
        /\ frame[w].roots \cap Gather = {}
        /\ \A n \in Node : Holds(frame[w], n) => n \in Gather \/ (w \in Task /\ n = w[1])

NeverPendingAgain ==
    /\ \A g \in Gather : Announced(g) => nodeStatus[g] # "pending"
    /\ \A n \in left : nodeStatus[n] # "pending"

ResetWaits ==
    Attached => \A g \in (Gather \cap nodes) \ dispatched :
        Announced(g) => /\ nodeStatus[g] \in {"ready", "running"}
                        /\ \A w \in Worker : ~Holds(frame[w], g) /\ ~Enables(frame[w], g)

TerminalKnown ==
    Attached => \A n \in nodes :
        IsTerminal(nodeStatus[n]) => n \in dispatched \/ (n \in Gather /\ ~Announced(n))

Settling == Sleeper /\ OwnWork /\ NeverPendingAgain /\ ResetWaits /\ TerminalKnown
RecoveryIInv == OrchaIInv /\ Settling
=============================================================================
