----------------------------- MODULE OrchaProofs -----------------------------
(***************************************************************************)
(* Theorems about OrchaRunner, for every graph, any number of concurrent   *)
(* tasks and any number of restarts, also in the middle of a call.         *)
(***************************************************************************)
EXTENDS OrchaRunner, LatticeProofs

Resting == {"off", "recover", "reemit"}

LEMMA WorkerKinds ==
  /\ Runner \in Worker /\ Runner \notin Task
  /\ \A t \in Task : t \in Worker /\ t[1] \in Node
  /\ Runner \in Stream
  BY RunnerAssumption DEF Task, Stream

(***************************************************************************)
(* What a statement of the engine does to the frames and to the log.       *)
(***************************************************************************)
LEMMA StepIsLocal ==
  ASSUME Typed, NEW w \in Worker, Step(w)
  PROVE  /\ ~ At(w, "idle")
         /\ \A u \in Worker \ {w} : frame'[u] = frame[u]
<1>1. ~ At(w, "idle")
  BY DEF Step, ReadRoots, Seed, Seeded, Pop, Mark, LogNode, Route, Deliver, Routed,
         FailGraph, LogGraphFailed, Finish, CompleteGraph, LogGraphDone, Check,
         NotEnabled, EnableTask, EnableGather, LogReady, At
<1>2. ASSUME NEW g, frame' = [frame EXCEPT ![w] = g]
      PROVE  \A u \in Worker \ {w} : frame'[u] = frame[u]
  BY <1>2 DEF Typed
<1>3. \E g : frame' = [frame EXCEPT ![w] = g]
  BY DEF Step, ReadRoots, Seed, Seeded, Pop, Mark, LogNode, Route, Deliver, Routed,
         FailGraph, LogGraphFailed, Finish, CompleteGraph, LogGraphDone, Check,
         NotEnabled, EnableTask, EnableGather, LogReady, Goto, Return
<1> QED BY <1>1, <1>2, <1>3

LEMMA AppendNamesNode ==
  ASSUME Typed, ReadyNamesNode, NEW e \in Event, log' = Append(log, e),
         e.type = "NodeReady" => e.node \in Node
  PROVE  ReadyNamesNode'
<1> SUFFICES ASSUME NEW i \in DOMAIN log', log'[i].type = "NodeReady"
             PROVE  log'[i].node \in Node
  BY DEF ReadyNamesNode
<1>1. i \in DOMAIN log \/ i = Len(log) + 1 BY AppendKeeps
<1> QED BY <1>1, AppendKeeps DEF ReadyNamesNode

LEMMA StepNamesNode ==
  ASSUME Typed, ReadyNamesNode, NEW w \in Worker, Step(w)
  PROVE  ReadyNamesNode'
<1>1. CASE UNCHANGED log BY <1>1 DEF ReadyNamesNode
<1>2. frame[w] \in TypedFrame BY CallFrame
<1>3. ASSUME NEW t \in EventType, NEW n \in Node \cup {NoNode}, Persist(Ev(t, n)),
             t = "NodeReady" => n \in Node
      PROVE  ReadyNamesNode'
  BY <1>3, AppendNamesNode DEF Persist, Ev, Event
<1>4. CASE LogNode(w)
  BY <1>2, <1>3, <1>4, FrameFields DEF LogNode, EventType
<1>5. CASE LogGraphFailed(w)
  BY <1>2, <1>3, <1>5, FrameFields DEF LogGraphFailed, EventType
<1>6. CASE LogGraphDone(w) BY <1>3, <1>6 DEF LogGraphDone, EventType
<1>7. CASE LogReady(w)
  <2>1. frame[w].target \in Node BY <1>2, <1>7 DEF LogReady, At, TypedFrame
  <2> QED BY <1>3, <1>7, <2>1 DEF LogReady, EventType
<1> QED
  BY <1>1, <1>4, <1>5, <1>6, <1>7
  DEF Step, ReadRoots, Seed, Seeded, Pop, Mark, Route, Deliver, Routed, FailGraph,
      Finish, CompleteGraph, Check, NotEnabled, EnableTask, EnableGather

(***************************************************************************)
(* The streams and the Notify.                                             *)
(***************************************************************************)
NotifyTyped == /\ stream \in [Stream -> StreamState]
               /\ waiters \in Seq(Stream)
               /\ permit \in {"absent", "empty", "stored"}

LEMMA NotifyKeeps ==
  ASSUME NotifyTyped, Notify
  PROVE  /\ NotifyTyped'
         /\ stream'[Runner].pc \in Resting => stream[Runner].pc \in Resting
<1>1. CASE waiters = <<>> BY <1>1 DEF Notify, NotifyTyped
<1>2. CASE waiters # <<>>
  <2> DEFINE h == Head(waiters)
  <2>1. h \in Stream /\ Tail(waiters) \in Seq(Stream) BY <1>2 DEF NotifyTyped
  <2>2. /\ stream' = [stream EXCEPT ![h].pc = "fetch"]
        /\ waiters' = Tail(waiters) /\ permit' = permit
    BY <1>2 DEF Notify
  <2> HIDE DEF h
  <2>3. stream' \in [Stream -> StreamState]
    BY <2>1, <2>2 DEF NotifyTyped, StreamState
  <2>4. stream'[Runner].pc \in {"fetch", stream[Runner].pc}
    BY <2>1, <2>2, WorkerKinds DEF NotifyTyped, StreamState
  <2> QED BY <2>1, <2>2, <2>3, <2>4 DEF NotifyTyped, Resting
<1> QED BY <1>1, <1>2
-----------------------------------------------------------------------------
(***************************************************************************)
(* The invariant is kept by a step that starts no task, forgets no node    *)
(* and does not detach the dispatcher; and by one that leaves no task.     *)
(***************************************************************************)
Exclusive == LiveIsDispatched /\ Detached /\ OneTaskPerNode

LEMMA NoNewTask ==
  ASSUME Exclusive, dispatched' = dispatched,
         stream'[Runner].pc \in Resting => stream[Runner].pc \in Resting,
         \A t \in Task : Live(t)' => Live(t)
  PROVE  Exclusive'
<1>1. LiveIsDispatched' BY DEF Exclusive, LiveIsDispatched
<1>2. Detached' BY DEF Exclusive, Detached, Resting
<1>3. OneTaskPerNode' BY DEF Exclusive, OneTaskPerNode, Task
<1> QED BY <1>1, <1>2, <1>3 DEF Exclusive

LEMMA NoTaskLeft == ASSUME \A t \in Task : ~ Live(t)' PROVE Exclusive'
  BY DEF Exclusive, LiveIsDispatched, Detached, OneTaskPerNode, Task
-----------------------------------------------------------------------------
(***************************************************************************)
(* Every action keeps the invariant.                                       *)
(***************************************************************************)
TasksTyped == /\ task \in [Task -> TaskState]
              /\ \A t \in Task : task[t].attempt < MaxAttempt[t[1]]
SetsTyped == /\ dispatched \subseteq Node /\ left \subseteq Node
             /\ token \in Signal
             /\ restarts \in 0..MaxRestart

Parts == /\ Typed /\ ReadyNamesNode
         /\ NotifyTyped /\ TasksTyped /\ SetsTyped
         /\ Exclusive

LEMMA TypeParts == (OrchaIInv <=> Parts) /\ (OrchaIInv' <=> Parts')
  BY DEF OrchaIInv, OrchaTyped, OrchaTypeOK, Parts,
         NotifyTyped, TasksTyped, SetsTyped, Exclusive

LEMMA TypedUnchanged == ASSUME Typed, UNCHANGED lattice PROVE Typed'
  BY DEF Typed, TypeOK, lattice, topology

\* Steps that leave the engine and its callers alone.
LEMMA LatticeUnchanged ==
  ASSUME Typed, ReadyNamesNode, UNCHANGED lattice
  PROVE  /\ Typed' /\ ReadyNamesNode'
         /\ \A t \in Task : task'[t].pc = "none" /\ task[t].pc = "none"
                               => Live(t)' = Live(t)
         /\ \A t \in Task : task[t].pc # "none" => Live(t)
<1>1. Typed' BY TypedUnchanged
<1>2. ReadyNamesNode' BY DEF ReadyNamesNode, lattice
<1>3. ASSUME NEW t \in Task, task'[t].pc = "none", task[t].pc = "none"
      PROVE  Live(t)' = Live(t)
  BY <1>3 DEF Live, At, lattice
<1> QED BY <1>1, <1>2, <1>3 DEF Live

LEMMA EngineKeeps ==
  ASSUME OrchaIInv, NEW w \in Worker, Engine(w) PROVE OrchaIInv'
<1> USE TypeParts DEF Parts
<1>1. Typed' /\ ReadyNamesNode' BY StepTyped, StepNamesNode DEF Engine
<1>2. /\ NotifyTyped'
      /\ stream'[Runner].pc \in Resting => stream[Runner].pc \in Resting
  <2>1. Notify \/ UNCHANGED notify BY DEF Engine
  <2> QED BY <2>1, NotifyKeeps DEF notify, NotifyTyped
<1>3. \A t \in Task : Live(t)' => Live(t)
  BY StepIsLocal, WorkerKinds DEF Engine, Live, At, orcha
<1>4. Exclusive' BY <1>2, <1>3, NoNewTask DEF Engine, orcha
<1>5. TasksTyped' /\ SetsTyped' BY DEF Engine, orcha, TasksTyped, SetsTyped
<1> QED BY <1>1, <1>2, <1>4, <1>5

LEMMA ReadKeeps == ASSUME OrchaIInv, Read(Runner) PROVE OrchaIInv'
<1> USE TypeParts DEF Parts
<1>1. UNCHANGED <<lattice, orcha>> BY DEF Read, Open, Fetch, Wait
<1>2. Typed' /\ ReadyNamesNode' BY <1>1, LatticeUnchanged
<1>3. Len(log) \in Nat BY DEF Typed, TypeOK
<1>4. /\ NotifyTyped'
      /\ stream'[Runner].pc \in Resting => stream[Runner].pc \in Resting
  <2>1. CASE Fetch(Runner)
    BY <1>3, <2>1, WorkerKinds, ZenonT(40) DEF Fetch, NotifyTyped, StreamState, Resting
  <2>2. CASE Open(Runner)
    BY <2>2, WorkerKinds DEF Open, NotifyTyped, StreamState, Resting
  <2>3. CASE Wait(Runner)
    <3>1. stream' \in [Stream -> StreamState]
      BY <2>3, WorkerKinds DEF Wait, NotifyTyped, StreamState
    <3>2. stream'[Runner].pc \in {"fetch", "wait"}
      BY <2>3, WorkerKinds DEF Wait, NotifyTyped, StreamState
    <3>3. waiters' \in {waiters, Append(waiters, Runner)} /\ permit' = "empty"
      BY <2>3 DEF Wait
    <3>4. waiters' \in Seq(Stream) BY <3>3, WorkerKinds DEF NotifyTyped
    <3> QED BY <3>1, <3>2, <3>3, <3>4 DEF NotifyTyped, Resting
  <2> QED BY <2>1, <2>2, <2>3 DEF Read
<1>5. \A t \in Task : Live(t)' => Live(t) BY <1>1 DEF Live, At, lattice, orcha
<1>6. Exclusive' BY <1>1, <1>4, <1>5, NoNewTask DEF orcha
<1>7. TasksTyped' /\ SetsTyped' BY <1>1 DEF orcha, TasksTyped, SetsTyped
<1> QED BY <1>2, <1>4, <1>6, <1>7

\* Dropping or sending a cancel token changes no task but its receiver.
LEMMA ReceiversChange ==
  ASSUME TasksTyped, task' = Orphan(task) \/ task' = Fire(task)
  PROVE  TasksTyped' /\ \A t \in Task : task'[t].pc = task[t].pc
<1>1. ASSUME NEW t \in Task
      PROVE  /\ task'[t] \in TaskState /\ task'[t].attempt = task[t].attempt
             /\ task'[t].pc = task[t].pc
  BY DEF Orphan, Fire, TasksTyped, TaskState, Signal
<1>2. task' \in [Task -> TaskState] BY <1>1 DEF Orphan, Fire
<1> QED BY <1>1, <1>2 DEF TasksTyped

LEMMA SpawnKeeps ==
  ASSUME TasksTyped, SetsTyped, Exclusive, UNCHANGED frame,
         stream'[Runner].pc \notin Resting,
         NEW n \in Node, n \notin dispatched, Spawn(n)
  PROVE  TasksTyped' /\ SetsTyped' /\ Exclusive'
<1>1. PICK k \in Copy : task' = [task EXCEPT ![<<n, k>>] =
                                     [pc |-> "spawned", attempt |-> 0, rx |-> token]]
  BY DEF Spawn, FreeCopy
<1>2. <<n, k>> \in Task BY DEF Task
<1>3. TasksTyped'
  <2>1. MaxAttempt[n] \in Nat \ {0} BY RunnerAssumption
  <2> QED BY <1>1, <1>2, <2>1 DEF TasksTyped, TaskState, SetsTyped, Signal
<1>4. SetsTyped' BY DEF Spawn, Remember, SetsTyped
<1>5. ASSUME NEW t \in Task, Live(t)', t # <<n, k>> PROVE Live(t)
  BY <1>1, <1>5 DEF Live, At, TasksTyped
<1>6. \A j \in Copy : ~ Live(<<n, j>>)
  BY DEF Exclusive, LiveIsDispatched, Task
<1>7. LiveIsDispatched'
  <2> SUFFICES ASSUME NEW t \in Task, Live(t)' PROVE t[1] \in dispatched'
    BY DEF LiveIsDispatched
  <2>1. CASE t = <<n, k>> BY <2>1 DEF Spawn, Remember
  <2>2. CASE t # <<n, k>>
    BY <1>5, <2>2 DEF Spawn, Remember, Exclusive, LiveIsDispatched
  <2> QED BY <2>1, <2>2
<1>8. Detached' BY DEF Detached, Resting
<1>9. OneTaskPerNode'
  <2> SUFFICES ASSUME NEW m \in Node, NEW i \in Copy, NEW j \in Copy,
                      Live(<<m, i>>)', Live(<<m, j>>)'
               PROVE  i = j
    BY DEF OneTaskPerNode
  <2>1. <<m, i>> \in Task /\ <<m, j>> \in Task BY DEF Task
  <2>2. CASE m = n BY <1>5, <1>6, <2>1, <2>2
  <2>3. CASE m # n BY <1>5, <2>1, <2>3 DEF Exclusive, OneTaskPerNode
  <2> QED BY <2>2, <2>3
<1> QED BY <1>3, <1>4, <1>7, <1>8, <1>9 DEF Exclusive

LEMMA DispatchKeeps == ASSUME OrchaIInv, Dispatch PROVE OrchaIInv'
<1> USE TypeParts DEF Parts
<1>1. PICK i \in DOMAIN log :
         /\ Consume(Runner, i)
         /\ IF Ends(log[i]) THEN Finished ELSE Spawn(log[i].node)
  BY DEF Dispatch
<1>2. UNCHANGED lattice BY <1>1 DEF Consume
<1>3. Typed' /\ ReadyNamesNode' BY <1>2, LatticeUnchanged
<1>4. i \in Nat BY DEF Typed, TypeOK
<1>5. NotifyTyped' /\ stream'[Runner].pc \notin Resting
  <2>1. stream'[Runner].pc \in {"closed", "batch"}
    BY <1>1, WorkerKinds DEF Consume, Position, NotifyTyped, StreamState
  <2>2. stream' \in [Stream -> StreamState]
    BY <1>1, <1>4, WorkerKinds DEF Consume, Position, NotifyTyped, StreamState
  <2> QED BY <1>1, <2>1, <2>2 DEF Consume, NotifyTyped, Resting
<1>6. CASE Finished
  <2>1. TasksTyped' /\ \A t \in Task : task'[t].pc = task[t].pc
    BY <1>6, ReceiversChange DEF Finished
  <2>2. Exclusive'
    BY <1>2, <1>5, <1>6, <2>1, NoNewTask DEF Finished, Live, At, lattice
  <2> QED BY <1>3, <1>5, <1>6, <2>1, <2>2 DEF Finished, SetsTyped, Signal
<1>7. CASE ~ Ends(log[i]) /\ Spawn(log[i].node)
  <2>1. ToDispatch(log[i]) BY <1>1, <1>7 DEF Consume, Relevant
  <2>2. log[i].node \in Node /\ log[i].node \notin dispatched
    BY <2>1 DEF ToDispatch, ReadyNamesNode
  <2>3. TasksTyped' /\ SetsTyped' /\ Exclusive'
    BY <1>2, <1>5, <1>7, <2>2, SpawnKeeps DEF lattice
  <2> QED BY <1>3, <1>5, <2>3
<1> QED BY <1>1, <1>6, <1>7

\* A step in which a task at most changes its own frame and its own record.
LEMMA OwnStep ==
  ASSUME Typed, TasksTyped, NEW t \in Task, Live(t),
         NEW g, frame' = [frame EXCEPT ![t] = g],
         NEW r, task' = [task EXCEPT ![t] = r]
  PROVE  \A u \in Task : Live(u)' => Live(u)
<1> SUFFICES ASSUME NEW u \in Task, u # t, Live(u)' PROVE Live(u)
  OBVIOUS
<1>1. task'[u] = task[u] BY DEF TasksTyped
<1>2. frame'[u] = frame[u] BY WorkerKinds DEF Typed
<1> QED BY <1>1, <1>2 DEF Live, At

LEMMA StartNodeKeeps ==
  ASSUME OrchaIInv, NEW t \in Task, StartNode(t) PROVE OrchaIInv'
<1> USE TypeParts DEF Parts
<1>1. t[1] \in Node BY WorkerKinds
<1>2. nodeStatus' \in [Node -> Status] /\ output' \in [Node -> SUBSET Token]
  BY <1>1, SetNodeType DEF StartNode, Status, Typed
<1>3. Typed' /\ ReadyNamesNode'
  BY <1>2 DEF StartNode, Typed, TypeOK, topology, ReadyNamesNode
<1>4. TasksTyped' BY DEF StartNode, TasksTyped, TaskState
<1>5. \A u \in Task : Live(u)' => Live(u)
  <2>1. ASSUME NEW u \in Task, u # t PROVE task'[u] = task[u]
    BY <2>1 DEF StartNode, TasksTyped
  <2> QED BY <2>1 DEF StartNode, Live, At
<1>6. Exclusive' BY <1>5, NoNewTask DEF StartNode, notify
<1> QED BY <1>3, <1>4, <1>6 DEF StartNode, notify, NotifyTyped, SetsTyped

LEMMA LogStartedKeeps ==
  ASSUME OrchaIInv, NEW t \in Task, LogStarted(t) PROVE OrchaIInv'
<1> USE TypeParts DEF Parts
<1>1. t[1] \in Node BY WorkerKinds
<1>2. Typed'
  <2>1. log' \in Seq(Event)
    BY <1>1, PersistType DEF LogStarted, EventType, Typed
  <2> QED BY <2>1 DEF LogStarted, Typed, TypeOK, topology
<1>3. ReadyNamesNode'
  BY <1>1, AppendNamesNode DEF LogStarted, Persist, Ev, Event, EventType
<1>4. /\ NotifyTyped'
      /\ stream'[Runner].pc \in Resting => stream[Runner].pc \in Resting
  BY NotifyKeeps DEF LogStarted
<1>5. TasksTyped' BY DEF LogStarted, TasksTyped, TaskState
<1>6. \A u \in Task : Live(u)' => Live(u)
  <2>1. ASSUME NEW u \in Task, u # t PROVE task'[u] = task[u]
    BY <2>1 DEF LogStarted, TasksTyped
  <2> QED BY <2>1 DEF LogStarted, Live, At
<1>7. Exclusive' BY <1>4, <1>6, NoNewTask DEF LogStarted
<1> QED BY <1>2, <1>3, <1>4, <1>5, <1>7 DEF LogStarted, SetsTyped

\* Succeed, Fail and Abort: the task tries again, or reports.
LEMMA ReportResultKeeps ==
  ASSUME Typed, TasksTyped, NEW t \in Task, Live(t), NEW failed \in BOOLEAN,
         ReportResult(t, failed)
  PROVE  /\ frame' \in [Worker -> TypedFrame]
         /\ TasksTyped'
         /\ \A u \in Task : Live(u)' => Live(u)
<1>1. t \in Worker /\ t[1] \in Node BY WorkerKinds
<1>2. {Fresh(1, IF failed THEN "error" ELSE "ok")} \in SUBSET Token
  BY FreshType DEF Color
<1>3. frame' \in [Worker -> TypedFrame] BY <1>1, <1>2, AdvanceType DEF ReportResult
<1>4. TasksTyped'
  <2>1. MaxAttempt[t[1]] \in Nat \ {0} BY <1>1, RunnerAssumption
  <2>2. NoTask \in TaskState BY DEF NoTask, TaskState, Signal
  <2> QED BY <2>1, <2>2 DEF ReportResult, TasksTyped, NoTask
<1>5. \A u \in Task : Live(u)' => Live(u)
  BY OwnStep DEF ReportResult, Advance
<1> QED BY <1>3, <1>4, <1>5

LEMMA AttemptFailsKeeps ==
  ASSUME Typed, TasksTyped, NEW t \in Task, Live(t), AttemptFails(t)
  PROVE  /\ frame' \in [Worker -> TypedFrame]
         /\ TasksTyped'
         /\ \A u \in Task : Live(u)' => Live(u)
<1>1. CASE ~ Retry(t) BY <1>1, ReportResultKeeps DEF AttemptFails
<1>2. CASE Retry(t)
  <2>1. task' = [task EXCEPT ![t].attempt = @ + 1] /\ UNCHANGED frame
    BY <1>2 DEF AttemptFails
  <2>2. task[t].attempt \in Nat /\ task[t].attempt + 1 < MaxAttempt[t[1]]
    BY <1>2 DEF Retry, TasksTyped, TaskState
  <2>3. TasksTyped' BY <2>1, <2>2 DEF TasksTyped, TaskState
  <2>4. \A u \in Task : u # t => task'[u] = task[u] BY <2>1 DEF TasksTyped
  <2> QED BY <2>1, <2>3, <2>4 DEF Typed, Live, At
<1> QED BY <1>1, <1>2

LEMMA AnswerKeeps ==
  ASSUME OrchaIInv, NEW t \in Task, Succeed(t) \/ Fail(t) \/ Abort(t)
  PROVE  OrchaIInv'
<1> USE TypeParts DEF Parts
<1>1. Live(t) BY DEF Succeed, Fail, Abort, Live
<1>2. AttemptFails(t) \/ ReportResult(t, FALSE) BY DEF Succeed, Fail, Abort
<1>3. UNCHANGED taskUnchanged BY DEF Succeed, Fail, Abort
<1>4. /\ frame' \in [Worker -> TypedFrame]
      /\ TasksTyped'
      /\ \A u \in Task : Live(u)' => Live(u)
  BY <1>1, <1>2, AttemptFailsKeeps, ReportResultKeeps
<1>5. Typed' BY <1>3, <1>4, FramesAreFrames DEF taskUnchanged, Typed, TypeOK, topology
<1>6. ReadyNamesNode' BY <1>3 DEF taskUnchanged, ReadyNamesNode
<1>7. Exclusive' BY <1>3, <1>4, NoNewTask DEF taskUnchanged, notify
<1> QED BY <1>3, <1>4, <1>5, <1>6, <1>7 DEF taskUnchanged, notify, NotifyTyped, SetsTyped

LEMMA AttachKeeps ==
  ASSUME Typed, NotifyTyped, TasksTyped, Exclusive, UNCHANGED lattice,
         NEW p \in {"start", "open"}, Attach(p),
         stream[Runner].pc \in Resting, UNCHANGED <<waiters, permit>>
  PROVE  /\ NotifyTyped' /\ TasksTyped' /\ Exclusive'
         /\ dispatched' \subseteq Node /\ token' \in Signal
<1>1. NotifyTyped'
  BY WorkerKinds DEF Attach, AtStart, NotifyTyped, StreamState
<1>2. TasksTyped' /\ \A t \in Task : task'[t].pc = task[t].pc
  BY ReceiversChange DEF Attach
<1>3. \A t \in Task : ~ Live(t) BY DEF Exclusive, Detached, Resting
<1>4. \A t \in Task : ~ Live(t)' BY <1>2, <1>3 DEF Live, At, lattice
<1>5. dispatched' \subseteq Node BY DEF Attach, Known, Terminal, Typed, TypeOK
<1> QED BY <1>1, <1>2, <1>4, <1>5, NoTaskLeft DEF Attach, Signal

LEMMA AttachmentKeeps ==
  ASSUME OrchaIInv, Launch \/ Reattach PROVE OrchaIInv'
<1> USE TypeParts DEF Parts
<1>1. /\ UNCHANGED lattice /\ stream[Runner].pc \in Resting
      /\ UNCHANGED <<waiters, permit, left, restarts>>
      /\ \E p \in {"start", "open"} : Attach(p)
  BY DEF Launch, Reattach, Resting
<1>2. Typed' /\ ReadyNamesNode' BY <1>1, LatticeUnchanged
<1> QED BY <1>1, <1>2, AttachKeeps DEF SetsTyped

\* Steps of the dispatcher's own calls leave the frames of the tasks alone.
LEMMA RunnerFrame ==
  ASSUME Typed, NEW g, frame' = [frame EXCEPT ![Runner] = g], UNCHANGED task
  PROVE  \A t \in Task : Live(t)' => Live(t)
<1>1. \A t \in Task : frame'[t] = frame[t] BY WorkerKinds DEF Typed
<1> QED BY <1>1 DEF Live, At

LEMMA StartGraphKeeps == ASSUME OrchaIInv, StartGraph PROVE OrchaIInv'
<1> USE TypeParts DEF Parts
<1>1. Typed' BY WorkerKinds, StartTyped DEF StartGraph
<1>2. ReadyNamesNode' BY DEF StartGraph, Start, ReadyNamesNode
<1>3. NotifyTyped' /\ stream'[Runner].pc \notin Resting
  BY WorkerKinds DEF StartGraph, NotifyTyped, StreamState, Resting
<1>4. \A t \in Task : Live(t)' => Live(t)
  BY RunnerFrame DEF StartGraph, Start, orcha
<1>5. Exclusive' BY <1>3, <1>4, NoNewTask DEF StartGraph, orcha
<1> QED BY <1>1, <1>2, <1>3, <1>5 DEF StartGraph, orcha, TasksTyped, SetsTyped

LEMMA CancelGraphKeeps == ASSUME OrchaIInv, CancelGraph PROVE OrchaIInv'
<1> USE TypeParts DEF Parts
<1>1. Typed' /\ ReadyNamesNode' BY LatticeUnchanged DEF CancelGraph
<1>2. TasksTyped' /\ \A t \in Task : task'[t].pc = task[t].pc
  BY ReceiversChange DEF CancelGraph
<1>3. \A t \in Task : Live(t)' => Live(t)
  BY <1>2 DEF CancelGraph, Live, At, lattice
<1>4. Exclusive' BY <1>3, NoNewTask DEF CancelGraph, notify
<1> QED BY <1>1, <1>2, <1>4 DEF CancelGraph, notify, NotifyTyped, SetsTyped, Signal

LEMMA AtStartType ==
  ASSUME NEW p \in {"off", "recover", "start", "open"} PROVE AtStart(p) \in StreamState
  BY DEF AtStart, StreamState

LEMMA RestartKeeps == ASSUME OrchaIInv, Restart PROVE OrchaIInv'
<1> USE TypeParts DEF Parts
<1>1. frame' \in [Worker -> TypedFrame] BY IdleFrameType DEF Restart
<1>2. Typed' BY <1>1, FramesAreFrames DEF Restart, Typed, TypeOK, topology
<1>3. ReadyNamesNode' BY DEF Restart, ReadyNamesNode
<1>4. NotifyTyped'
  <2>1. stream' \in [Stream -> StreamState] BY AtStartType DEF Restart
  <2> QED BY <2>1 DEF Restart, NotifyTyped
<1>5. TasksTyped'
  <2>1. NoTask \in TaskState /\ NoTask.attempt = 0
    BY DEF NoTask, TaskState, Signal
  <2>2. \A t \in Task : MaxAttempt[t[1]] > 0 BY WorkerKinds, RunnerAssumption
  <2> QED BY <2>1, <2>2 DEF Restart, TasksTyped
<1>6. \A t \in Task : ~ Live(t)'
  <2>1. \A t \in Task : frame'[t].pc = "idle" /\ task'[t].pc = "none"
    BY WorkerKinds DEF Restart, IdleFrame, NoTask
  <2> QED BY <2>1 DEF Live, At
<1>7. SetsTyped'
  <2>1. restarts' \in 0..MaxRestart BY RunnerAssumption DEF Restart, SetsTyped
  <2> QED BY <2>1 DEF Restart, SetsTyped, Signal, Typed, TypeOK
<1> QED BY <1>2, <1>3, <1>4, <1>5, <1>6, <1>7, NoTaskLeft

LEMMA EmitReadyType ==
  ASSUME Typed, NEW n \in Node, EmitReady(n)
  PROVE  frame' \in [Worker -> TypedFrame]
<1>1. [IdleFrame EXCEPT !.pc = "ready", !.op = "node", !.target = n] \in TypedFrame
  BY IdleFrameType, ZenonT(40) DEF TypedFrame, Frame, Pc, Op
<1> QED BY <1>1, WorkerKinds, FrameUpdate DEF EmitReady

\* ResetRunning and ReemitReady: the dispatcher starts to log a NodeReady.
LEMMA ReemissionKeeps ==
  ASSUME OrchaIInv, ResetRunning \/ ReemitReady PROVE OrchaIInv'
<1> USE TypeParts DEF Parts
<1>1. PICK n \in left : EmitReady(n) /\ left' = left \ {n}
  BY DEF ResetRunning, ReemitReady
<1>2. n \in Node BY DEF SetsTyped
<1>3. frame' \in [Worker -> TypedFrame] BY <1>1, <1>2, EmitReadyType
<1>4. nodeStatus' \in [Node -> Status] /\ output' \in [Node -> SUBSET Token]
  <2>1. CASE ReemitReady BY <2>1 DEF ReemitReady, Typed, TypeOK
  <2>2. CASE ResetRunning
    <3>1. PICK m \in left : SetNode(m, "ready", {}) BY <2>2 DEF ResetRunning
    <3>2. m \in Node BY DEF SetsTyped
    <3> QED BY <3>1, <3>2, SetNodeType DEF Status, Typed
  <2> QED BY <2>1, <2>2
<1>5. /\ UNCHANGED <<topology, graphStatus, tokens, log, reported, notify>>
      /\ UNCHANGED <<dispatched, task, token, restarts>>
  BY DEF ResetRunning, ReemitReady
<1>6. Typed' BY <1>3, <1>4, <1>5, FramesAreFrames DEF Typed, TypeOK, topology
<1>7. \A t \in Task : Live(t)' => Live(t)
  BY <1>1, <1>5, RunnerFrame DEF EmitReady
<1>8. Exclusive' BY <1>5, <1>7, NoNewTask DEF notify
<1> QED BY <1>1, <1>5, <1>6, <1>8
        DEF ReadyNamesNode, notify, NotifyTyped, TasksTyped, SetsTyped

LEMMA FindReadyKeeps == ASSUME OrchaIInv, FindReady PROVE OrchaIInv'
<1> USE TypeParts DEF Parts
<1>1. Typed' /\ ReadyNamesNode' BY LatticeUnchanged DEF FindReady
<1>2. NotifyTyped' BY WorkerKinds DEF FindReady, NotifyTyped, StreamState
<1>3. stream[Runner].pc \in Resting BY DEF FindReady, Resting
<1>4. \A t \in Task : Live(t)' => Live(t) BY DEF FindReady, Live, At, lattice
<1>5. Exclusive' BY <1>3, <1>4, NoNewTask DEF FindReady
<1> QED BY <1>1, <1>2, <1>5 DEF FindReady, TasksTyped, SetsTyped, Typed, TypeOK
-----------------------------------------------------------------------------
(***************************************************************************)
(* The theorems.                                                           *)
(***************************************************************************)
LEMMA OrchaInitIInv == OrchaInit => OrchaIInv
<1> SUFFICES ASSUME OrchaInit PROVE OrchaIInv OBVIOUS
<1> USE TypeParts DEF Parts
<1>1. Typed /\ ReadyNamesNode BY InitTyped DEF OrchaInit, Init, ReadyNamesNode
<1>2. NotifyTyped
  <2>1. stream \in [Stream -> StreamState] BY AtStartType DEF OrchaInit
  <2> QED BY <2>1 DEF OrchaInit, NotifyTyped
<1>3. TasksTyped
  <2>1. NoTask \in TaskState /\ NoTask.attempt = 0
    BY DEF NoTask, TaskState, Signal
  <2>2. \A t \in Task : MaxAttempt[t[1]] > 0 BY WorkerKinds, RunnerAssumption
  <2> QED BY <2>1, <2>2 DEF OrchaInit, TasksTyped
<1>4. SetsTyped BY RunnerAssumption DEF OrchaInit, SetsTyped, Signal
<1>5. \A t \in Task : ~ Live(t)
  BY WorkerKinds DEF OrchaInit, Init, Live, At, NoTask, IdleFrame
<1>6. Exclusive
  BY <1>5 DEF Exclusive, LiveIsDispatched, Detached, OneTaskPerNode, Task
<1> QED BY <1>1, <1>2, <1>3, <1>4, <1>6

LEMMA OrchaNextIInv == OrchaIInv /\ [OrchaNext]_runnerVars => OrchaIInv'
<1> SUFFICES ASSUME OrchaIInv, [OrchaNext]_runnerVars PROVE OrchaIInv'
  OBVIOUS
<1>1. CASE UNCHANGED runnerVars
  <2> USE TypeParts DEF Parts
  <2>1. Typed' /\ ReadyNamesNode' BY <1>1, LatticeUnchanged DEF runnerVars
  <2>2. \A t \in Task : Live(t)' => Live(t)
    BY <1>1 DEF runnerVars, lattice, orcha, Live, At
  <2>3. Exclusive' BY <1>1, <2>2, NoNewTask DEF runnerVars, notify, orcha
  <2> QED BY <1>1, <2>1, <2>3
          DEF runnerVars, notify, orcha, NotifyTyped, TasksTyped, SetsTyped
<1>2. CASE \E w \in Worker : Engine(w) BY <1>2, EngineKeeps
<1>3. CASE \E t \in Task : Run(t) \/ Result(t)
  BY <1>3, StartNodeKeeps, LogStartedKeeps, AnswerKeeps DEF Run, Result
<1>4. CASE Read(Runner) \/ Dispatch BY <1>4, ReadKeeps, DispatchKeeps
<1>5. CASE Launch \/ StartGraph \/ CancelGraph
  BY <1>5, AttachmentKeeps, StartGraphKeeps, CancelGraphKeeps
<1>6. CASE Restart \/ Recover
  BY <1>6, RestartKeeps, ReemissionKeeps, FindReadyKeeps, AttachmentKeeps DEF Recover
<1> QED BY <1>1, <1>2, <1>3, <1>4, <1>5, <1>6 DEF OrchaNext

LEMMA OrchaAlwaysIInv == OrchaSpec => []OrchaIInv
  BY OrchaInitIInv, OrchaNextIInv, PTL DEF OrchaSpec

\* The dispatcher's state keeps its types, and no task makes more attempts
\* than its node's max_retries allows: the loops of dispatch_task_with_retry,
\* dispatch_synthesize_with_retry and dispatch_validate_with_retry.
THEOREM OrchaTypeCorrect == OrchaSpec => []OrchaTypeOK
<1>1. OrchaIInv => OrchaTypeOK BY DEF OrchaIInv, OrchaTyped
<1> QED BY <1>1, OrchaAlwaysIInv, PTL

\* run_graph_execution never has two tasks of one node alive, for every graph
\* and across any number of restarts, even ones that cut an engine call short:
\* the log replays every NodeReady, but its dispatched set covers all nodes
\* with a live task, and a restart leaves none.
THEOREM NodesRunOnce == OrchaSpec => []OneTaskPerNode
<1>1. OrchaIInv => OneTaskPerNode BY DEF OrchaIInv
<1> QED BY <1>1, OrchaAlwaysIInv, PTL
-----------------------------------------------------------------------------
(***************************************************************************)
(* The dispatcher's sleep.  Whenever the log holds more than the batch in  *)
(* hand, a permit is stored or somebody will still notify.                 *)
(***************************************************************************)
\* Call w is about to find the position it has read taken: it ends with an error and
\* notifies nobody.
Doomed(w) ==
    At(w, "deliver") /\ \E r \in tokens : r.edge = frame[w].hop.edge /\ r.seq = frame[w].seq

\* Somebody will still notify the graph's streams.
Rousing ==
    \/ \E t \in Task : task[t].pc # "none"
    \/ \E w \in Worker : ~ At(w, "idle") /\ ~ Doomed(w)

Awake ==
    /\ waiters = IF stream[Runner].pc = "wait" THEN <<Runner>> ELSE <<>>
    /\ stream[Runner].pc \in {"fetch", "batch", "wait"} => permit # "absent"
    /\ stream[Runner].cursor <= stream[Runner].upto
    /\ stream[Runner].upto <= Len(log)
    /\ stream[Runner].pc = "wait" =>
          stream[Runner].cursor = stream[Runner].upto /\ permit # "stored"
    /\ stream[Runner].pc \in {"batch", "wait"} /\ stream[Runner].upto < Len(log) =>
          permit = "stored" \/ Rousing

(***************************************************************************)
(* Positions.  The rows of an edge are numbered from 1 without a gap.      *)
(***************************************************************************)
Numbered ==
    /\ \A r \in tokens : r.seq <= CountOn(r.edge)
    /\ \A w \in Worker : At(w, "deliver") => frame[w].seq <= CountOn(frame[w].hop.edge) + 1

LEMMA NumberedQuiet ==
  ASSUME Numbered, UNCHANGED tokens,
         \A w \in Worker : frame'[w] = frame[w] \/ frame'[w].pc # "deliver"
  PROVE  Numbered'
<1>1. \A e : CountOn(e)' = CountOn(e) BY DEF CountOn
<1> QED BY <1>1 DEF Numbered, At

\* What a statement that is neither Route nor Deliver makes of its frame and its log.
LEMMA PlainStep ==
  ASSUME Typed, NEW w \in Worker, Step(w), ~ Route(w), ~ Deliver(w)
  PROVE  /\ UNCHANGED tokens /\ frame[w].pc # "deliver"
         /\ frame'[w] = IdleFrame \/ frame'[w].pc \notin {"idle", "deliver"}
<1> DEFINE f == frame[w]
<1>1. f \in TypedFrame BY CallFrame
<1>2. UNCHANGED tokens
  BY DEF Step, ReadRoots, Seed, Seeded, Pop, Mark, LogNode, Routed, FailGraph,
         LogGraphFailed, Finish, CompleteGraph, LogGraphDone, Check,
         NotEnabled, EnableTask, EnableGather, LogReady
<1>3. f.pc # "deliver"
  BY DEF Step, ReadRoots, Seed, Seeded, Pop, Mark, LogNode, Routed, FailGraph,
         LogGraphFailed, Finish, CompleteGraph, LogGraphDone, Check,
         NotEnabled, EnableTask, EnableGather, LogReady, At
<1> SUFFICES frame'[w] = IdleFrame \/ frame'[w].pc \notin {"idle", "deliver"}
  BY <1>2, <1>3
<1>4. Resume(f) = IdleFrame \/ Resume(f).pc \in {"route", "seed"}
  BY <1>1 DEF Resume, TypedFrame, Frame
<1>5. ASSUME NEW p, Goto(w, p) PROVE frame'[w].pc = p
  BY <1>1, <1>5 DEF Goto, Typed, TypedFrame, Frame
<1>6. ASSUME Return(w) PROVE frame'[w] = IdleFrame
  BY <1>6 DEF Return, Typed
<1>7. CASE ReadRoots(w) BY <1>1, <1>7 DEF ReadRoots, Typed, TypedFrame, Frame
<1>8. CASE Seed(w) BY <1>1, <1>8 DEF Seed, Typed, TypedFrame, Frame
<1>9. CASE Seeded(w) \/ LogGraphFailed(w) \/ LogGraphDone(w)
  BY <1>6, <1>9 DEF Seeded, LogGraphFailed, LogGraphDone
<1>10. CASE Pop(w)
  <2>1. frame'[w].pc \in {"pop", "mark"}
    BY <1>1, <1>10 DEF Pop, At, Typed, TypedFrame, Frame
  <2> QED BY <2>1
<1>11. CASE Mark(w) \/ FailGraph(w) \/ CompleteGraph(w) \/ EnableTask(w)
  <2>1. \E p \in {"log", "failevent", "doneevent", "ready"} : Goto(w, p)
    BY <1>11 DEF Mark, FailGraph, CompleteGraph, EnableTask
  <2> QED BY <1>5, <2>1
<1>12. CASE LogNode(w) BY <1>1, <1>12 DEF LogNode, Typed, TypedFrame, Frame
<1>13. CASE Routed(w)
  <2>1. Goto(w, AfterRouting(f)) BY <1>13 DEF Routed
  <2>2. AfterRouting(f) \in {"check", "failgraph", "pop"} BY DEF AfterRouting
  <2> QED BY <1>5, <2>1, <2>2
<1>14. CASE Finish(w)
  <2>1. Goto(w, "done") \/ Return(w) BY <1>14 DEF Finish
  <2> QED BY <1>5, <1>6, <2>1
<1>15. CASE frame' = [frame EXCEPT ![w] = Resume(f)]
  BY <1>4, <1>15 DEF Typed
<1>16. CASE frame' = [frame EXCEPT ![w] = [f EXCEPT !.pc = "enable"]]
  BY <1>1, <1>16 DEF Typed, TypedFrame, Frame
<1>17. CASE EnableGather(w)
  <2>1. PICK out : frame' = [frame EXCEPT ![w] = Enqueue(f, f.target, out)]
    BY <1>17 DEF EnableGather
  <2>2. Enqueue(f, f.target, out) = Resume(f) \/ Enqueue(f, f.target, out).pc = "route"
    BY <1>1 DEF Enqueue, Resume, TypedFrame, Frame
  <2> QED BY <1>4, <2>1, <2>2 DEF Typed
<1> QED
  BY <1>7, <1>8, <1>9, <1>10, <1>11, <1>12, <1>13, <1>14, <1>15, <1>16, <1>17
     DEF Step, Check, NotEnabled, LogReady

LEMMA RouteNumbered ==
  ASSUME Typed, Numbered, NEW w \in Worker, Route(w)
  PROVE  Numbered' /\ ~ Doomed(w)' /\ frame'[w].pc = "deliver" /\ UNCHANGED <<tokens, log>>
<1> DEFINE f == frame[w]
           g == frame'[w]
<1>1. f \in TypedFrame BY CallFrame
<1>2. PICK h : /\ h \in f.todo
               /\ frame' = [frame EXCEPT ![w] = [f EXCEPT !.pc = "deliver", !.hop = h,
                                     !.todo = @ \ {h}, !.seq = NextSeq(h.edge)]]
  BY DEF Route, NextHops
<1> PICK e : e = h.edge OBVIOUS
<1>3. /\ frame' = [frame EXCEPT ![w] = g]
      /\ g.pc = "deliver" /\ g.hop.edge = e /\ g.seq = NextSeq(e)
  BY <1>1, <1>2 DEF Typed, TypedFrame, Frame
<1>4. UNCHANGED <<tokens, log>> BY DEF Route
<1>5. \A x : CountOn(x)' = CountOn(x) BY <1>4 DEF CountOn
<1>6. CountOn(e) \in Nat /\ \A r \in tokens : r.seq \in Nat
  BY CountType DEF Typed, TypeOK, Row
<1>7. ~ Doomed(w)'
  <2> SUFFICES ASSUME NEW r \in tokens, r.edge = e PROVE r.seq # NextSeq(e)
    BY <1>3, <1>4 DEF Doomed
  <2>1. r.seq <= CountOn(e) BY DEF Numbered
  <2> QED BY <1>6, <2>1 DEF NextSeq
<1>8. \A u \in Worker : frame'[u] = IF u = w THEN g ELSE frame[u] BY <1>3 DEF Typed
<1> HIDE DEF f, g
<1>9. Numbered' BY <1>3, <1>4, <1>5, <1>6, <1>8 DEF Numbered, At, NextSeq
<1> QED BY <1>3, <1>4, <1>7, <1>9 DEF g

LEMMA DeliverNumbered ==
  ASSUME Typed, Numbered, NEW w \in Worker, Deliver(w)
  PROVE  /\ Numbered' /\ UNCHANGED log
         /\ \/ frame'[w] = IdleFrame /\ Doomed(w) /\ UNCHANGED tokens
            \/ frame'[w].pc \in {"check", "route"}
<1> DEFINE f == frame[w]
           g == frame'[w]
<1>1. f \in TypedFrame BY CallFrame
<1>2. f.pc = "deliver" /\ UNCHANGED log BY DEF Deliver, At
<1>3. f.hop \in Hop /\ f.seq \in Nat /\ f.seq > 0 BY <1>1, <1>2, FrameFields DEF TypedFrame
<1> PICK e : e = f.hop.edge OBVIOUS
<1>4. CASE \E r \in tokens : r.edge = e /\ r.seq = f.seq
  <2>1. frame' = [frame EXCEPT ![w] = IdleFrame] /\ UNCHANGED tokens
    BY <1>4 DEF Deliver, Return
  <2>2. \A u \in Worker : frame'[u] = IF u = w THEN IdleFrame ELSE frame[u]
    BY <2>1 DEF Typed
  <2>3. IdleFrame.pc # "deliver" BY DEF IdleFrame
  <2>4. Doomed(w) BY <1>2, <1>4 DEF Doomed, At
  <2> QED BY <1>2, <2>1, <2>2, <2>3, <2>4, NumberedQuiet
<1>5. CASE ~ \E r \in tokens : r.edge = e /\ r.seq = f.seq
  <2>0. PICK row : row = [edge |-> e, seq |-> f.seq, color |-> f.hop.tok.color] OBVIOUS
  <2>1. row \in Row /\ row \notin tokens /\ row.edge = e /\ row.seq = f.seq
    <3>1. row \in Row
      <4> HIDE DEF f
      <4> QED BY <1>3, <2>0 DEF Row, Hop, Token
    <3> QED BY <1>5, <2>0, <3>1
  <2>2. tokens' = tokens \cup {row} BY <1>5, <2>0 DEF Deliver
  <2>3. frame' = [frame EXCEPT ![w] = g] /\ g.pc \in {"check", "route"}
    <3> DEFINE p == IF f.op = "advance" THEN "check" ELSE "route"
    <3>1. frame' = [frame EXCEPT ![w] = [f EXCEPT !.any = TRUE, !.target = To[e], !.pc = p]]
      BY <1>5 DEF Deliver
    <3>2. p \in {"check", "route"} OBVIOUS
    <3> HIDE DEF p
    <3> QED BY <1>1, <3>1, <3>2 DEF Typed, TypedFrame, Frame
  <2>4. \A u \in Worker : frame'[u] = IF u = w THEN g ELSE frame[u] BY <2>3 DEF Typed
  <2>5. \A x : CountOn(x) \in Nat /\ CountOn(x)' \in Nat /\ CountOn(x) <= CountOn(x)'
    BY <2>1, <2>2, NewRow, CountType
  <2>6. CountOn(e)' = CountOn(e) + 1 /\ f.seq <= CountOn(e) + 1
    BY <1>2, <2>1, <2>2, NewRow DEF Numbered, At
  <2> HIDE DEF f, g
  <2>7. \A r \in tokens' : r.seq <= CountOn(r.edge)'
    <3>1. \A r \in tokens : r.seq \in Nat /\ r.seq <= CountOn(r.edge)
      BY DEF Typed, TypeOK, Row, Numbered
    <3>2. row.seq <= CountOn(row.edge)' BY <1>3, <2>1, <2>6
    <3> QED BY <2>2, <2>5, <3>1, <3>2
  <2>8. ASSUME NEW u \in Worker, At(u, "deliver")'
        PROVE  (frame[u].seq <= CountOn(frame[u].hop.edge) + 1)'
    <3>1. u # w BY <2>3, <2>4, <2>8 DEF At
    <3>2. At(u, "deliver") /\ frame'[u] = frame[u] BY <2>4, <2>8, <3>1 DEF At
    <3> PICK x : x = frame[u].hop.edge OBVIOUS
    <3>3. frame[u].seq <= CountOn(x) + 1 BY <3>2 DEF Numbered
    <3>4. frame[u].seq \in Nat BY CallFrame, FrameFields
    <3>5. frame[u].seq <= CountOn(x)' + 1 BY <2>5, <3>3, <3>4
    <3> QED BY <3>2, <3>5
  <2>9. Numbered' BY <2>7, <2>8 DEF Numbered
  <2> QED BY <1>2, <2>3, <2>9 DEF g
<1> QED BY <1>4, <1>5

LEMMA LogGrows ==
  ASSUME Typed, NEW w \in Worker, Step(w)
  PROVE  Len(log) \in Nat /\ Len(log') \in Nat /\ Len(log) <= Len(log')
<1>1. log \in Seq(Event) BY DEF Typed, TypeOK
<1>2. UNCHANGED log \/ \E e : log' = Append(log, e)
  BY DEF Step, ReadRoots, Seed, Seeded, Pop, Mark, LogNode, Route, Deliver, Routed,
         FailGraph, LogGraphFailed, Finish, CompleteGraph, LogGraphDone, Check,
         NotEnabled, EnableTask, EnableGather, LogReady, Persist
<1>3. CASE UNCHANGED log BY <1>1, <1>3
<1>4. CASE \E e : log' = Append(log, e)
  <2>1. PICK e : log' = Append(log, e) BY <1>4
  <2>2. Len(Append(log, e)) = Len(log) + 1 BY <1>1
  <2> QED BY <1>1, <2>1, <2>2
<1> QED BY <1>2, <1>3, <1>4

LEMMA StepNumbered ==
  ASSUME Typed, Numbered, NEW w \in Worker, Step(w)
  PROVE  /\ Numbered'
         /\ frame'[w] = IdleFrame \/ (~ At(w, "idle")' /\ ~ Doomed(w)')
         /\ frame'[w] = IdleFrame /\ At(w, "deliver") =>
               Doomed(w) /\ UNCHANGED <<tokens, log>>
<1>1. CASE Route(w)
  <2>1. IdleFrame.pc = "idle" BY DEF IdleFrame
  <2> QED BY <1>1, <2>1, RouteNumbered DEF At
<1>2. CASE Deliver(w)
  <2>1. frame[w].pc = "deliver" BY <1>2 DEF Deliver, At
  <2>2. IdleFrame.pc = "idle" BY DEF IdleFrame
  <2> QED BY <1>2, <2>1, <2>2, DeliverNumbered DEF At, Doomed
<1>3. CASE ~ Route(w) /\ ~ Deliver(w)
  <2>1. /\ UNCHANGED tokens /\ frame[w].pc # "deliver"
        /\ frame'[w] = IdleFrame \/ frame'[w].pc \notin {"idle", "deliver"}
    BY <1>3, PlainStep
  <2>2. IdleFrame.pc = "idle" BY DEF IdleFrame
  <2>3. Numbered' BY <2>1, <2>2, StepIsLocal, NumberedQuiet
  <2> QED BY <2>1, <2>3 DEF At, Doomed
<1> QED BY <1>1, <1>2, <1>3

(***************************************************************************)
(* The streams and the sleep.                                              *)
(***************************************************************************)
LEMMA RunnerStream ==
  ASSUME OrchaIInv
  PROVE  /\ stream[Runner] \in StreamState /\ stream \in [Stream -> StreamState]
         /\ Runner \in Stream /\ Len(log) \in Nat
  BY WorkerKinds DEF OrchaIInv, OrchaTyped, OrchaTypeOK, Typed, TypeOK

\* A step that leaves the dispatcher's stream and the Notify alone.
LEMMA AwakeKept ==
  ASSUME OrchaIInv, Awake, UNCHANGED notify,
         Len(log') \in Nat, Len(log) <= Len(log'),
         Rousing' \/ ((Rousing => Rousing') /\ log' = log)
  PROVE  Awake'
  BY RunnerStream DEF Awake, notify, StreamState

LEMMA NotifyAwake ==
  ASSUME OrchaIInv, Awake, Notify, Len(log') \in Nat, Len(log) <= Len(log')
  PROVE  Awake'
<1>1. CASE stream[Runner].pc = "wait"
  <2>1. waiters = <<Runner>> BY <1>1 DEF Awake
  <2>2. Head(waiters) = Runner /\ Tail(waiters) = <<>> /\ waiters # <<>> BY <2>1
  <2>3. /\ stream' = [stream EXCEPT ![Runner].pc = "fetch"]
        /\ waiters' = <<>> /\ permit' = permit
    BY <2>2 DEF Notify
  <2>4. /\ stream'[Runner].pc = "fetch" /\ stream'[Runner].cursor = stream[Runner].cursor
        /\ stream'[Runner].upto = stream[Runner].upto
    BY <2>3, RunnerStream DEF StreamState
  <2> QED BY <1>1, <2>3, <2>4, RunnerStream DEF Awake, StreamState
<1>2. CASE stream[Runner].pc # "wait"
  <2>1. waiters = <<>> BY <1>2 DEF Awake
  <2>2. /\ permit' = IF permit = "absent" THEN "absent" ELSE "stored"
        /\ UNCHANGED <<stream, waiters>>
    BY <2>1 DEF Notify
  <2> QED BY <1>2, <2>1, <2>2, RunnerStream DEF Awake, StreamState
<1> QED BY <1>1, <1>2

LEMMA EngineAwake ==
  ASSUME OrchaIInv, Numbered, Awake, NEW w \in Worker, Engine(w)
  PROVE  Numbered' /\ Awake'
<1>1. Typed /\ Step(w) /\ UNCHANGED task
  BY DEF OrchaIInv, OrchaTyped, Engine, orcha
<1>2. /\ Numbered'
      /\ frame'[w] = IdleFrame \/ (~ At(w, "idle")' /\ ~ Doomed(w)')
      /\ frame'[w] = IdleFrame /\ At(w, "deliver") =>
            Doomed(w) /\ UNCHANGED <<tokens, log>>
  BY <1>1, StepNumbered
<1>3. Len(log) \in Nat /\ Len(log') \in Nat /\ Len(log) <= Len(log') BY <1>1, LogGrows
<1>4. CASE Notify BY <1>2, <1>3, <1>4, NotifyAwake
<1>5. CASE UNCHANGED notify /\ frame'[w] # IdleFrame
  <2>1. Rousing' BY <1>2, <1>5 DEF Rousing
  <2> QED BY <1>2, <1>3, <1>5, <2>1, AwakeKept
<1>6. CASE UNCHANGED notify /\ frame'[w] = IdleFrame /\ At(w, "deliver")
  <2>1. Doomed(w) /\ UNCHANGED <<tokens, log>> BY <1>2, <1>6
  <2>2. \A u \in Worker \ {w} : frame'[u] = frame[u] BY <1>1, StepIsLocal
  <2>3. Rousing => Rousing'
    <3>1. ASSUME NEW u \in Worker, ~ At(u, "idle"), ~ Doomed(u) PROVE Rousing'
      <4>1. u # w BY <2>1, <3>1
      <4> QED BY <2>1, <2>2, <3>1, <4>1 DEF Rousing, At, Doomed
    <3>2. ASSUME NEW t \in Task, task[t].pc # "none" PROVE Rousing'
      BY <1>1, <3>2 DEF Rousing
    <3> QED BY <3>1, <3>2 DEF Rousing
  <2> QED BY <1>2, <1>3, <1>6, <2>1, <2>3, AwakeKept
<1> QED BY <1>4, <1>5, <1>6 DEF Engine

\* A step that starts, ends and advances no engine call.
LEMMA QuietNumbered == ASSUME Numbered, UNCHANGED <<frame, tokens>> PROVE Numbered'
  BY NumberedQuiet

LEMMA RousingKept ==
  ASSUME UNCHANGED <<frame, tokens>>,
         \A t \in Task : task[t].pc # "none" => task'[t].pc # "none"
  PROVE  Rousing => Rousing'
<1>1. \A w : (At(w, "idle")' <=> At(w, "idle")) /\ (Doomed(w)' <=> Doomed(w))
  BY DEF At, Doomed
<1> QED BY <1>1 DEF Rousing

LEMMA ReadAwake ==
  ASSUME OrchaIInv, Numbered, Awake, Read(Runner) PROVE Numbered' /\ Awake'
<1> DEFINE s == stream[Runner]
           z == stream'[Runner]
<1>1. UNCHANGED <<lattice, orcha>> BY DEF Read, Open, Fetch, Wait
<1>2. UNCHANGED <<frame, tokens, log, task>> BY <1>1 DEF lattice, orcha
<1>3. Numbered' /\ (Rousing => Rousing') BY <1>2, QuietNumbered, RousingKept
<1>4. CASE Open(Runner)
  <2>1. /\ s.pc = "open" /\ z.pc = "fetch" /\ z.cursor = s.cursor /\ z.upto = s.upto
        /\ UNCHANGED waiters /\ permit' # "absent"
    BY <1>4, RunnerStream DEF Open, StreamState
  <2> QED BY <1>2, <1>3, <2>1 DEF Awake
<1>5. CASE Fetch(Runner)
  <2>1. /\ s.pc = "fetch" /\ z.pc = "batch" /\ z.cursor = s.cursor /\ z.upto = Len(log)
        /\ UNCHANGED <<waiters, permit>>
    BY <1>5, RunnerStream DEF Fetch, StreamState
  <2> QED BY <1>2, <1>3, <2>1, RunnerStream DEF Awake, StreamState
<1>6. CASE Wait(Runner)
  <2>1. /\ s.pc = "batch" /\ z.cursor = s.upto /\ z.upto = s.upto /\ permit' = "empty"
        /\ z.pc = IF permit = "stored" THEN "fetch" ELSE "wait"
        /\ waiters' = IF permit = "stored" THEN waiters ELSE Append(waiters, Runner)
    BY <1>6, RunnerStream DEF Wait, StreamState
  <2>2. waiters = <<>> BY <2>1 DEF Awake
  <2>3. Append(waiters, Runner) = <<Runner>> BY <2>2
  <2>4. s.upto \in Nat /\ s.upto <= Len(log) BY RunnerStream DEF Awake, StreamState
  <2>5. s.upto < Len(log) => permit = "stored" \/ Rousing BY <2>1 DEF Awake
  <2>6. waiters' = IF z.pc = "wait" THEN <<Runner>> ELSE <<>> BY <2>1, <2>2, <2>3
  <2>7. z.cursor <= z.upto /\ z.upto <= Len(log) BY <2>1, <2>4
  <2>8. z.pc = "wait" \/ z.pc = "fetch" BY <2>1
  <2>9. z.pc = "wait" => permit # "stored" BY <2>1
  <2>10. z.upto < Len(log) /\ z.pc = "wait" => Rousing' BY <1>3, <2>1, <2>5, <2>9
  <2> HIDE DEF s, z
  <2> QED BY <1>2, <1>3, <2>1, <2>6, <2>7, <2>8, <2>10 DEF Awake, z
<1> QED BY <1>4, <1>5, <1>6 DEF Read

LEMMA DispatchAwake ==
  ASSUME OrchaIInv, Numbered, Awake, Dispatch PROVE Numbered' /\ Awake'
<1> DEFINE s == stream[Runner]
           z == stream'[Runner]
<1>1. PICK i \in DOMAIN log :
         /\ Consume(Runner, i)
         /\ IF Ends(log[i]) THEN Finished ELSE Spawn(log[i].node)
  BY DEF Dispatch
<1>2. UNCHANGED <<frame, tokens, log, waiters, permit>> BY <1>1 DEF Consume, lattice
<1>3. TasksTyped BY TypeParts DEF Parts
<1>4. \A t \in Task : task[t].pc # "none" => task'[t].pc # "none"
  <2>1. CASE Finished BY <1>3, <2>1, ReceiversChange DEF Finished
  <2>2. CASE Spawn(log[i].node) BY <1>3, <2>2 DEF Spawn, TasksTyped
  <2> QED BY <1>1, <2>1, <2>2
<1>5. Numbered' /\ (Rousing => Rousing') BY <1>2, <1>4, QuietNumbered, RousingKept
<1>6. /\ s.pc = "batch" /\ z.pc \in {"closed", "batch"} /\ z.cursor = i /\ z.upto = s.upto
      /\ i \in (s.cursor + 1)..s.upto
  BY <1>1, RunnerStream DEF Consume, Position, Relevant, StreamState
<1> QED BY <1>2, <1>5, <1>6, RunnerStream DEF Awake, StreamState

LEMMA TaskAwake ==
  ASSUME OrchaIInv, Numbered, Awake, NEW t \in Task, Run(t) \/ Result(t)
  PROVE  Numbered' /\ Awake'
<1>1. Typed /\ TasksTyped /\ t \in Worker BY TypeParts, WorkerKinds DEF Parts
<1>2. CASE StartNode(t)
  <2>1. UNCHANGED <<frame, tokens, log, notify>> BY <1>2 DEF StartNode
  <2>2. task'[t].pc = "started" BY <1>1, <1>2 DEF StartNode, TasksTyped, TaskState
  <2> QED BY <2>1, <2>2, QuietNumbered, AwakeKept, RunnerStream DEF Rousing
<1>3. CASE LogStarted(t)
  <2>1. UNCHANGED <<frame, tokens>> /\ Notify /\ log' = Append(log, Ev("NodeStarted", t[1]))
    BY <1>3 DEF LogStarted, Persist
  <2>2. Len(log') = Len(log) + 1
    <3>1. log \in Seq(Event) BY <1>1 DEF Typed, TypeOK
    <3> QED BY <2>1, <3>1
  <2> QED BY <2>1, <2>2, QuietNumbered, NotifyAwake, RunnerStream
<1>4. CASE Succeed(t) \/ Fail(t) \/ Abort(t)
  <2>1. AttemptFails(t) \/ ReportResult(t, FALSE) BY <1>4 DEF Succeed, Fail, Abort
  <2>2. UNCHANGED <<tokens, log, notify>> /\ task[t].pc = "working"
    BY <1>4 DEF Succeed, Fail, Abort, taskUnchanged
  <2>3. CASE Retry(t) /\ AttemptFails(t)
    <3>1. UNCHANGED frame /\ task'[t].pc = "working"
      BY <1>1, <2>2, <2>3 DEF AttemptFails, TasksTyped, TaskState
    <3> QED BY <2>2, <3>1, QuietNumbered, AwakeKept, RunnerStream DEF Rousing
  <2>4. CASE \E failed \in BOOLEAN : ReportResult(t, failed)
    <3>1. /\ frame' = [frame EXCEPT ![t] = frame'[t]] /\ frame'[t].pc = "pop"
      BY <1>1, <2>4 DEF ReportResult, Advance, IdleFrame, Typed
    <3>2. Numbered' BY <1>1, <2>2, <3>1, NumberedQuiet DEF Typed
    <3>3. Rousing' BY <1>1, <3>1 DEF Rousing, Doomed, At
    <3> QED BY <2>2, <3>2, <3>3, AwakeKept, RunnerStream
  <2> QED BY <2>1, <2>3, <2>4 DEF AttemptFails
<1> QED BY <1>2, <1>3, <1>4 DEF Run, Result

\* A step that attaches or detaches the dispatcher, or prepares to.
LEMMA DetachedAwake ==
  ASSUME Numbered, UNCHANGED tokens, Len(log') \in Nat,
         \A w \in Worker : frame'[w] = frame[w] \/ frame'[w].pc # "deliver",
         waiters' = <<>>, stream'[Runner].pc \notin {"fetch", "batch", "wait"},
         stream'[Runner].cursor <= stream'[Runner].upto, stream'[Runner].upto <= Len(log')
  PROVE  Numbered' /\ Awake'
  BY NumberedQuiet DEF Awake

LEMMA AttachAwake ==
  ASSUME OrchaIInv, Numbered, Awake, Launch \/ StartGraph \/ Restart \/ Recover
  PROVE  Numbered' /\ Awake'
<1> DEFINE s == stream[Runner]
           z == stream'[Runner]
<1>1. UNCHANGED <<tokens, log>>
  BY DEF Launch, StartGraph, Start, Restart, Recover, ResetRunning, FindReady,
         ReemitReady, Reattach, lattice
<1>2. Len(log') \in Nat BY <1>1, RunnerStream
<1>3. waiters' = <<>>
  BY DEF Awake, Launch, StartGraph, Restart, Recover, ResetRunning,
         FindReady, ReemitReady, Reattach, notify
<1>4. \A w \in Worker : frame'[w] = frame[w] \/ frame'[w].pc # "deliver"
  <2>1. CASE Launch \/ FindReady \/ Reattach
    BY <2>1 DEF Launch, FindReady, Reattach, lattice
  <2>2. CASE StartGraph
    BY <2>2, WorkerKinds DEF StartGraph, Start, IdleFrame, OrchaIInv, OrchaTyped, Typed
  <2>3. CASE Restart BY <2>3 DEF Restart, IdleFrame
  <2>4. CASE ResetRunning \/ ReemitReady
    <3>1. PICK n : EmitReady(n) BY <2>4 DEF ResetRunning, ReemitReady
    <3> QED BY <3>1, WorkerKinds DEF EmitReady, IdleFrame, OrchaIInv, OrchaTyped, Typed
  <2> QED BY <2>1, <2>2, <2>3, <2>4 DEF Recover
<1>5. z.pc \notin {"fetch", "batch", "wait"} /\ z.cursor <= z.upto /\ z.upto <= Len(log')
  <2>1. CASE Launch \/ Reattach
    <3>1. PICK p \in {"start", "open"} : Attach(p) BY <2>1 DEF Launch, Reattach
    <3>2. z = AtStart(p) BY <3>1, RunnerStream DEF Attach
    <3> QED BY <1>2, <3>2 DEF AtStart
  <2>2. CASE StartGraph \/ FindReady
    <3>1. z.pc \in {"open", "reemit"} /\ z.cursor = s.cursor /\ z.upto = s.upto
      BY <2>2, RunnerStream DEF StartGraph, FindReady, StreamState
    <3> QED BY <1>1, <3>1 DEF Awake
  <2>3. CASE Restart
    <3>1. PICK p \in {"off", "recover"} : z = AtStart(p) BY <2>3, RunnerStream DEF Restart
    <3> QED BY <1>2, <3>1 DEF AtStart
  <2>4. CASE ResetRunning \/ ReemitReady
    BY <1>1, <2>4 DEF ResetRunning, ReemitReady, notify, Awake
  <2> QED BY <2>1, <2>2, <2>3, <2>4 DEF Recover
<1> QED BY <1>1, <1>2, <1>3, <1>4, <1>5, DetachedAwake

LEMMA CancelAwake ==
  ASSUME OrchaIInv, Numbered, Awake, CancelGraph \/ UNCHANGED runnerVars
  PROVE  Numbered' /\ Awake'
<1>1. UNCHANGED <<frame, tokens, log, notify>>
  BY DEF CancelGraph, lattice, runnerVars
<1>2. \A t \in Task : task[t].pc # "none" => task'[t].pc # "none"
  <2>1. TasksTyped BY TypeParts DEF Parts
  <2> QED BY <2>1, ReceiversChange DEF CancelGraph, runnerVars, orcha
<1>3. Numbered' /\ (Rousing => Rousing') BY <1>1, <1>2, QuietNumbered, RousingKept
<1> QED BY <1>1, <1>3, AwakeKept, RunnerStream

LEMMA OrchaNextAwake ==
  OrchaIInv /\ Numbered /\ Awake /\ [OrchaNext]_runnerVars => Numbered' /\ Awake'
  BY EngineAwake, TaskAwake, ReadAwake, DispatchAwake, AttachAwake, CancelAwake
     DEF OrchaNext

LEMMA OrchaInitAwake == OrchaInit => Numbered /\ Awake
<1> SUFFICES ASSUME OrchaInit PROVE Numbered /\ Awake OBVIOUS
<1>1. Numbered BY DEF OrchaInit, Init, Numbered, At, IdleFrame
<1>2. stream[Runner] = AtStart("off") /\ waiters = <<>> /\ log = <<>>
  BY WorkerKinds DEF OrchaInit, Init
<1> QED BY <1>1, <1>2 DEF Awake, AtStart

\* The dispatcher is not left asleep while the log holds what it has not read: it went to
\* sleep on a batch that was all there was, or somebody will notify it.  A call that finds
\* its position taken ends without a notification, but the call that took it is still on
\* its way.  (With a second stream of the same graph the property fails.)
THEOREM DispatcherWakes == OrchaSpec => []NoStall
<1>1. OrchaIInv /\ Awake => NoStall
  <2> SUFFICES ASSUME OrchaIInv, Awake, \A t \in Task : ~ Live(t), At(Runner, "idle"),
                      stream[Runner].pc = "wait"
               PROVE  stream[Runner].cursor = Len(log)
    BY DEF NoStall
  <2>1. \A w \in Worker : At(w, "idle") BY RunnerAssumption DEF Live
  <2>2. ~ Rousing BY <2>1 DEF Rousing, Live
  <2> QED BY <2>2, RunnerStream DEF Awake, StreamState
<1> QED BY <1>1, OrchaInitAwake, OrchaNextAwake, OrchaAlwaysIInv, PTL DEF OrchaSpec
-----------------------------------------------------------------------------
(***************************************************************************)
(* What is finished is not run again, whatever restarts.  RecoveryIInv is  *)
(* the inductive invariant.                                                *)
(***************************************************************************)
(***************************************************************************)
(* The frames: what a statement makes of its call's record.                *)
(***************************************************************************)
\* It keeps the queue or drops it, and is not about to mark, enable or announce.
Quiet(f, g) ==
    /\ \/ g.queue = f.queue /\ g.pc # "idle"
       \/ g.queue = <<>>
    /\ g.pc \notin {"mark", "enable", "ready"}
    /\ g.roots \cap Gather \subseteq f.roots

LEMMA QuietHolds ==
  ASSUME NEW f, NEW g, Quiet(f, g), NEW n
  PROVE  /\ Holds(g, n) => Holds(f, n)
         /\ ~Enables(g, n)
  BY DEF Quiet, Holds, Enables

LEMMA GoesOn ==
  ASSUME NEW f, NEW g, g.queue = f.queue, g.roots = f.roots,
         g.pc \in {"pop", "log", "route", "deliver", "check", "done", "doneevent",
                   "failgraph", "failevent"}
  PROVE  Quiet(f, g)
  BY DEF Quiet

LEMMA IdleQuiet == ASSUME NEW f PROVE Quiet(f, IdleFrame)
  BY DEF Quiet, IdleFrame

LEMMA PcQuiet ==
  ASSUME NEW f \in TypedFrame,
         NEW p \in {"pop", "log", "check", "done", "doneevent", "failgraph", "failevent"}
  PROVE  Quiet(f, [f EXCEPT !.pc = p])
<1>1. f \in Frame BY FrameFields
<1> QED BY <1>1 DEF Quiet, Frame

LEMMA ResumeQuiet == ASSUME NEW f \in TypedFrame PROVE Quiet(f, Resume(f))
<1>1. f \in Frame BY FrameFields
<1>2. CASE f.op = "advance" BY <1>1, <1>2 DEF Resume, Quiet, Frame
<1>3. CASE f.op = "start" BY <1>1, <1>3 DEF Resume, Quiet, Frame
<1>4. CASE f.op \notin {"advance", "start"} BY <1>4, IdleQuiet DEF Resume
<1> QED BY <1>2, <1>3, <1>4

QuietAction(w) ==
    \/ ReadRoots(w) \/ Seeded(w) \/ Mark(w) \/ LogNode(w) \/ Route(w) \/ Deliver(w) \/ Routed(w)
    \/ FailGraph(w) \/ LogGraphFailed(w) \/ Finish(w) \/ CompleteGraph(w) \/ LogGraphDone(w)
    \/ NotEnabled(w) \/ LogReady(w)

LEMMA FrameIs ==
  ASSUME Typed, NEW w \in Worker, NEW g, frame' = [frame EXCEPT ![w] = g]
  PROVE  frame'[w] = g
  BY DEF Typed

LEMMA QuietSteps ==
  ASSUME Typed, NEW w \in Worker, QuietAction(w)
  PROVE  Quiet(frame[w], frame'[w])
<1> DEFINE f == frame[w]
<1>1. f \in TypedFrame /\ f \in Frame BY CallFrame, FrameFields
<1>2. CASE Return(w) BY <1>2, FrameIs, IdleQuiet DEF Return
<1>3. ASSUME NEW p \in {"pop", "log", "check", "done", "doneevent", "failgraph", "failevent"},
             Goto(w, p)
      PROVE  Quiet(frame[w], frame'[w])
  <2>1. frame' = [frame EXCEPT ![w] = [f EXCEPT !.pc = p]] BY <1>3 DEF Goto
  <2>2. frame'[w] = [f EXCEPT !.pc = p] BY <2>1, FrameIs
  <2>3. Quiet(f, [f EXCEPT !.pc = p])
    <3> HIDE DEF f
    <3> QED BY <1>1, <1>3, PcQuiet
  <2> QED BY <2>2, <2>3
<1>4. CASE ReadRoots(w)
  <2>1. CASE Roots = {}
    <3>1. frame' = [frame EXCEPT ![w] = [f EXCEPT !.pc = "done"]] BY <1>4, <2>1 DEF ReadRoots
    <3> QED BY <1>1, <3>1, FrameIs, PcQuiet
  <2>2. CASE Roots # {}
    <3>1. frame' = [frame EXCEPT ![w] = [f EXCEPT !.pc = "seed", !.roots = Roots \ Gather]]
      BY <1>4, <2>2 DEF ReadRoots
    <3>2. Quiet(f, [f EXCEPT !.pc = "seed", !.roots = Roots \ Gather])
      <4> HIDE DEF f
      <4> QED BY <1>1 DEF Quiet, Frame
    <3> QED BY <3>1, <3>2, FrameIs
  <2> QED BY <2>1, <2>2
<1>5. CASE LogNode(w)
  <2>1. PICK todo : frame' = [frame EXCEPT ![w] =
            [f EXCEPT !.pc = "route", !.any = FALSE, !.hop = NoHop, !.todo = todo]]
    BY <1>5 DEF LogNode
  <2>2. frame'[w] = [f EXCEPT !.pc = "route", !.any = FALSE, !.hop = NoHop, !.todo = todo]
    BY <2>1, FrameIs
  <2>3. frame'[w].queue = f.queue /\ frame'[w].roots = f.roots /\ frame'[w].pc = "route"
    <3> HIDE DEF f
    <3> QED BY <1>1, <2>2 DEF Frame
  <2> QED BY <2>3, GoesOn
<1>6. CASE Route(w)
  <2>1. PICK h, todo, seq : frame' = [frame EXCEPT ![w] =
            [f EXCEPT !.pc = "deliver", !.hop = h, !.todo = todo, !.seq = seq]]
    BY <1>6 DEF Route
  <2>2. frame'[w] = [f EXCEPT !.pc = "deliver", !.hop = h, !.todo = todo, !.seq = seq]
    BY <2>1, FrameIs
  <2>3. frame'[w].queue = f.queue /\ frame'[w].roots = f.roots /\ frame'[w].pc = "deliver"
    <3> HIDE DEF f
    <3> QED BY <1>1, <2>2 DEF Frame
  <2> QED BY <2>3, GoesOn
<1>7. CASE Deliver(w)
  <2>1. CASE Return(w) BY <1>2, <2>1
  <2>2. CASE ~Return(w)
    <3>1. PICK target : \E p \in {"check", "route"} : frame' = [frame EXCEPT ![w] =
              [f EXCEPT !.any = TRUE, !.target = target, !.pc = p]]
      BY <1>7, <2>2 DEF Deliver
    <3>2. PICK p \in {"check", "route"} :
              frame'[w] = [f EXCEPT !.any = TRUE, !.target = target, !.pc = p]
      BY <3>1, FrameIs
    <3>3. frame'[w].queue = f.queue /\ frame'[w].roots = f.roots /\ frame'[w].pc = p
      <4> HIDE DEF f
      <4> QED BY <1>1, <3>2 DEF Frame
    <3> QED BY <3>3, GoesOn
  <2> QED BY <2>1, <2>2
<1>8. CASE Routed(w)
  <2>1. AfterRouting(f) \in {"check", "failgraph", "pop"} BY DEF AfterRouting
  <2> QED BY <1>3, <1>8, <2>1 DEF Routed
<1>9. CASE Mark(w) \/ FailGraph(w) \/ CompleteGraph(w) \/ Finish(w)
  BY <1>2, <1>3, <1>9 DEF Mark, FailGraph, CompleteGraph, Finish
<1>10. CASE Seeded(w) \/ LogGraphFailed(w) \/ LogGraphDone(w)
  BY <1>2, <1>10 DEF Seeded, LogGraphFailed, LogGraphDone
<1>11. CASE NotEnabled(w) \/ LogReady(w)
  BY <1>1, <1>11, FrameIs, ResumeQuiet DEF NotEnabled, LogReady
<1> QED BY <1>4, <1>5, <1>6, <1>7, <1>8, <1>9, <1>10, <1>11 DEF QuietAction
-----------------------------------------------------------------------------
(***************************************************************************)
(* What a statement of a call does to the nodes that the call works on.    *)
(***************************************************************************)
\* The node of a call's frame or queue was there before, or is the gather that the
\* call has just enabled; and it is about to enable only a node that may become ready.
WorkKept(f, g) ==
    /\ g.pc = "idle" => g.queue = <<>>
    /\ g.roots \cap Gather \subseteq f.roots
    /\ \A n \in Node : Holds(g, n) => Holds(f, n) \/ (n \in Gather /\ Enables(f, n))
    /\ \A n \in Node : Enables(g, n) => MayBecomeReady(nodeStatus[n])
    /\ \A g1 \in Gather : g.pc = "ready" => g.target # g1 \/ g1 \in f.roots

LEMMA QuietKeepsWork ==
  ASSUME NEW f, NEW g, Quiet(f, g) PROVE WorkKept(f, g)
  BY QuietHolds DEF Quiet, WorkKept

LEMMA StepKeepsWork ==
  ASSUME Typed, NEW w \in Worker, Step(w)
  PROVE  WorkKept(frame[w], frame'[w])
<1> DEFINE f == frame[w]
<1>1. f \in TypedFrame /\ f \in Frame /\ f.queue \in Seq(Item) BY CallFrame, FrameFields
<1>2. CASE QuietAction(w) BY <1>2, QuietSteps, QuietKeepsWork
<1>3. CASE Seed(w)
  <2>1. PICK n \in f.roots : frame' = [frame EXCEPT ![w].pc = "ready", ![w].target = n,
                                                    ![w].roots = @ \ {n}]
    BY <1>3 DEF Seed
  <2>2. frame'[w] = [f EXCEPT !.pc = "ready", !.target = n, !.roots = @ \ {n}]
    BY <2>1 DEF Typed
  <2>3. WorkKept(f, [f EXCEPT !.pc = "ready", !.target = n, !.roots = @ \ {n}])
    <3> HIDE DEF f
    <3> QED BY <1>1, <2>1 DEF WorkKept, Holds, Enables, Frame
  <2> QED BY <2>2, <2>3
<1>4. CASE Pop(w)
  <2> DEFINE i == f.queue[Len(f.queue)]
             rest == SubSeq(f.queue, 1, Len(f.queue) - 1)
  <2>1. f.queue # <<>> /\ f.pc = "pop" BY <1>4 DEF Pop, At
  <2>2. /\ Len(f.queue) \in DOMAIN f.queue
        /\ \A k \in DOMAIN rest : k \in DOMAIN f.queue /\ rest[k] = f.queue[k]
    BY <1>1, <2>1
  <2>3. \A n : Holds(f, n) <=> \E k \in DOMAIN f.queue : f.queue[k].node = n
    BY <2>1 DEF Holds
  <2>4. WorkKept(f, [f EXCEPT !.queue = rest])
    <3>1. \A n : Holds([f EXCEPT !.queue = rest], n) => Holds(f, n)
      <4>1. [f EXCEPT !.queue = rest].queue = rest /\ [f EXCEPT !.queue = rest].pc = "pop"
        <5> HIDE DEF f, rest
        <5> QED BY <1>1, <2>1 DEF Frame
      <4> HIDE DEF rest
      <4> QED BY <2>2, <2>3, <4>1 DEF Holds
    <3>2. /\ [f EXCEPT !.queue = rest].pc = "pop"
          /\ [f EXCEPT !.queue = rest].roots = f.roots
      <4> HIDE DEF f, rest
      <4> QED BY <1>1, <2>1 DEF Frame
    <3> QED BY <3>1, <3>2 DEF WorkKept, Enables
  <2> DEFINE g == [f EXCEPT !.pc = "mark", !.queue = rest, !.node = i.node,
                            !.out = i.out, !.failed = i.failed]
  <2>5. WorkKept(f, g)
    <3>1. g.pc = "mark" /\ g.queue = rest /\ g.node = i.node /\ g.roots = f.roots
      <4> HIDE DEF f, rest, i
      <4> QED BY <1>1 DEF Frame
    <3>2. \A n : Holds(g, n) => Holds(f, n)
      <4> HIDE DEF g, rest
      <4> QED BY <2>2, <2>3, <3>1 DEF Holds
    <3> QED BY <3>1, <3>2 DEF WorkKept, Enables
  <2>6. frame'[w] = [f EXCEPT !.queue = rest] \/ frame'[w] = g
    BY <1>4, FrameIs DEF Pop
  <2> QED BY <2>4, <2>5, <2>6
<1>5. CASE Check(w)
  <2>1. CASE MayBecomeReady(nodeStatus[f.target])
    <3>1. frame'[w] = [f EXCEPT !.pc = "enable"] BY <1>5, <2>1, FrameIs DEF Check
    <3>2. WorkKept(f, [f EXCEPT !.pc = "enable"])
      <4> HIDE DEF f
      <4> QED BY <1>1, <2>1 DEF WorkKept, Holds, Enables, Frame
    <3> QED BY <3>1, <3>2
  <2>2. CASE ~MayBecomeReady(nodeStatus[f.target])
    <3>1. frame'[w] = Resume(f) BY <1>5, <2>2, FrameIs DEF Check
    <3> QED BY <1>1, <3>1, ResumeQuiet, QuietKeepsWork
  <2> QED BY <2>1, <2>2
<1>6. CASE EnableTask(w)
  <2>1. frame' = [frame EXCEPT ![w] = [f EXCEPT !.pc = "ready"]] BY <1>6 DEF EnableTask, Goto
  <2>2. frame'[w] = [f EXCEPT !.pc = "ready"] BY <2>1, FrameIs
  <2>3. f.target \notin Gather BY <1>6 DEF EnableTask
  <2>4. WorkKept(f, [f EXCEPT !.pc = "ready"])
    <3> HIDE DEF f
    <3> QED BY <1>1, <2>3 DEF WorkKept, Holds, Enables, Frame
  <2> QED BY <2>2, <2>4
<1>7. CASE EnableGather(w)
  <2>1. PICK out : frame'[w] = Enqueue(f, f.target, out) BY <1>7, FrameIs DEF EnableGather
  <2>2. f.target \in Gather /\ f.pc = "enable" BY <1>7 DEF EnableGather, At
  <2>3. CASE f.op # "advance"
    <3>1. frame'[w] = Resume(f) BY <2>1, <2>3 DEF Enqueue
    <3> QED BY <1>1, <3>1, ResumeQuiet, QuietKeepsWork
  <2>4. CASE f.op = "advance"
    <3> DEFINE item == [node |-> f.target, out |-> out, failed |-> FALSE]
               q == Append(f.queue, item)
               g == [f EXCEPT !.pc = "route", !.queue = q]
    <3>1. Resume(f) = [f EXCEPT !.pc = "route"] BY <2>4 DEF Resume
    <3>2. [f EXCEPT !.pc = "route"].queue = f.queue
      <4> HIDE DEF f
      <4> QED BY <1>1 DEF Frame
    <3>3. frame'[w] = [[f EXCEPT !.pc = "route"] EXCEPT !.queue = q]
      BY <2>1, <2>4, <3>1, <3>2 DEF Enqueue
    <3>4. /\ frame'[w].pc = "route" /\ frame'[w].queue = q /\ frame'[w].roots = f.roots
      <4> HIDE DEF f, q
      <4> QED BY <1>1, <3>3 DEF Frame
    <3>5. \A k \in DOMAIN q : \/ k \in DOMAIN f.queue /\ q[k] = f.queue[k]
                              \/ q[k] = item
      <4> HIDE DEF item
      <4> QED BY <1>1
    <3>6. item.node = f.target OBVIOUS
    <3>7. \A n : Holds(frame'[w], n) => Holds(f, n) \/ n = f.target
      <4> HIDE DEF q, item
      <4> QED BY <3>4, <3>5, <3>6 DEF Holds
    <3> HIDE DEF q, g
    <3> QED BY <2>2, <3>4, <3>7 DEF WorkKept, Enables
  <2> QED BY <2>3, <2>4
<1> QED BY <1>2, <1>3, <1>4, <1>5, <1>6, <1>7 DEF Step, QuietAction

\* A status is only ever set to ready or running, or to what an answer makes it.
StatusMoves ==
    \A n \in Node :
        \/ nodeStatus'[n] \in {nodeStatus[n], "ready", "running"}
        \/ /\ IsTerminal(nodeStatus'[n])
           /\ \E w \in Worker : At(w, "mark") /\ frame[w].node = n

LEMMA SetNodeMoves ==
  ASSUME Typed, NEW m, NEW s \in {"ready", "running"}, NEW o, SetNode(m, s, o)
  PROVE  StatusMoves
  BY DEF Typed, TypeOK, SetNode, StatusMoves

LEMMA StepMoves ==
  ASSUME Typed, NEW w \in Worker, Step(w)
  PROVE  StatusMoves
<1>1. CASE UNCHANGED nodeStatus BY <1>1 DEF StatusMoves
<1>2. CASE Mark(w)
  <2>1. PICK s, o : /\ SetNode(frame[w].node, s, o) /\ At(w, "mark")
                    /\ s \in {"complete", "failed"}
    BY <1>2 DEF Mark
  <2> QED BY <2>1 DEF Typed, TypeOK, SetNode, StatusMoves, IsTerminal
<1>3. CASE Seed(w) \/ EnableTask(w) \/ EnableGather(w)
  BY <1>3, SetNodeMoves DEF Seed, EnableTask, EnableGather
<1> QED
  BY <1>1, <1>2, <1>3
  DEF Step, ReadRoots, Seeded, Pop, LogNode, Route, Deliver, Routed, FailGraph, LogGraphFailed,
      Finish, CompleteGraph, LogGraphDone, Check, NotEnabled, LogReady

LEMMA AppendAddsEvent ==
  ASSUME Typed, NEW e, log' = Append(log, e)
  PROVE  Events' = Events \cup {e}
<1>1. log \in Seq(Event) BY DEF Typed, TypeOK
<1>2. /\ Len(log) + 1 \in DOMAIN log' /\ log'[Len(log) + 1] = e
      /\ \A i \in DOMAIN log : i \in DOMAIN log' /\ log'[i] = log[i]
      /\ \A i \in DOMAIN log' : i \in DOMAIN log \/ i = Len(log) + 1
  BY <1>1
<1> QED BY <1>2 DEF Events

LEMMA StepAnnounces ==
  ASSUME Typed, OwnWork, NEW w \in Worker, Step(w), NEW n \in Gather, Announced(n)'
  PROVE  Announced(n)
<1>1. CASE Ev("NodeReady", n) \in Events'
  <2>1. CASE UNCHANGED log BY <1>1, <2>1 DEF Events, Announced
  <2>2. ASSUME NEW e, Persist(e), e # Ev("NodeReady", n) PROVE Announced(n)
    BY <1>1, <2>2, AppendAddsEvent DEF Persist, Announced
  <2>3. CASE LogReady(w)
    <3>1. CASE frame[w].target = n
      BY <2>3, <3>1 DEF LogReady, Announced, AboutToLog
    <3>2. CASE frame[w].target # n
      <4>1. Ev("NodeReady", frame[w].target) # Ev("NodeReady", n)
        BY <3>2 DEF Ev
      <4> QED BY <2>2, <2>3, <4>1 DEF LogReady
    <3> QED BY <3>1, <3>2
  <2>4. \A t, m : t # "NodeReady" => Ev(t, m) # Ev("NodeReady", n) BY DEF Ev
  <2>5. CASE LogNode(w) \/ LogGraphFailed(w) \/ LogGraphDone(w)
    BY <2>2, <2>4, <2>5 DEF LogNode, LogGraphFailed, LogGraphDone
  <2> QED
    BY <2>1, <2>3, <2>5
    DEF Step, ReadRoots, Seed, Seeded, Pop, Mark, Route, Deliver, Routed, FailGraph,
        Finish, CompleteGraph, Check, NotEnabled, EnableTask, EnableGather
<1>2. ASSUME NEW u \in Worker, frame'[u].pc = "ready", frame'[u].target = n PROVE Announced(n)
  <2>1. CASE u # w
    BY <1>2, <2>1, StepIsLocal DEF Announced, AboutToLog, At
  <2>2. CASE u = w
    BY <1>2, <2>2, StepKeepsWork DEF WorkKept, OwnWork
  <2> QED BY <2>1, <2>2
<1> QED BY <1>1, <1>2 DEF Announced, AboutToLog, At
-----------------------------------------------------------------------------
(***************************************************************************)
(* Steps that keep what a dispatcher knows.                                *)
(***************************************************************************)
\* Each call keeps its work, or takes up that of its task.
CallsKept ==
    \A w \in Worker :
        \/ frame'[w] = frame[w]
        \/ WorkKept(frame[w], frame'[w])
        \/ /\ w \in Task /\ w[1] \in dispatched
           /\ frame'[w].pc = "pop" /\ frame'[w].roots = {}
           /\ \A i \in DOMAIN frame'[w].queue : frame'[w].queue[i].node = w[1]

KnowledgeGrows ==
    /\ dispatched \subseteq dispatched' /\ nodes' = nodes
    /\ left' \subseteq left
    /\ Attached' => Attached

LEMMA OwnWorkKept == ASSUME OwnWork, CallsKept PROVE OwnWork'
<1> SUFFICES ASSUME NEW w \in Worker
             PROVE  /\ frame'[w].pc = "idle" => frame'[w].queue = <<>>
                    /\ frame'[w].roots \cap Gather = {}
                    /\ \A n \in Node : Holds(frame'[w], n)
                                        => n \in Gather \/ (w \in Task /\ n = w[1])
  BY DEF OwnWork, At
<1>1. CASE frame'[w] = frame[w] BY <1>1 DEF OwnWork, At
<1>2. CASE WorkKept(frame[w], frame'[w]) BY <1>2 DEF OwnWork, WorkKept
<1>3. CASE /\ w \in Task /\ frame'[w].pc = "pop" /\ frame'[w].roots = {}
           /\ \A i \in DOMAIN frame'[w].queue : frame'[w].queue[i].node = w[1]
  BY <1>3 DEF Holds
<1> QED BY <1>1, <1>2, <1>3 DEF CallsKept

Steady ==
    /\ CallsKept /\ KnowledgeGrows /\ StatusMoves /\ Sleeper'
    /\ \A n \in Gather : Announced(n)' => Announced(n)

LEMMA SteadyKeeps == ASSUME OrchaIInv, Settling, Steady PROVE Settling'
<1>1. OwnWork' BY OwnWorkKept DEF Settling, Steady
<1>2. NeverPendingAgain'
  <2>1. \A n \in Node : nodeStatus[n] # "pending" => nodeStatus'[n] # "pending"
    BY DEF Steady, StatusMoves, IsTerminal
  <2>2. Gather \subseteq Node /\ left \subseteq Node
    BY GraphAssumption, TypeParts DEF Parts, SetsTyped
  <2> QED BY <2>1, <2>2 DEF Settling, NeverPendingAgain, KnowledgeGrows, Steady
<1>3. ResetWaits'
  <2> SUFFICES ASSUME Attached', NEW g \in Gather \cap nodes, g \notin dispatched', Announced(g)'
               PROVE  /\ nodeStatus'[g] \in {"ready", "running"}
                      /\ \A w \in Worker : ~Holds(frame'[w], g) /\ ~Enables(frame'[w], g)
    BY DEF ResetWaits, Steady, KnowledgeGrows
  <2>1. /\ nodeStatus[g] \in {"ready", "running"} /\ g \notin dispatched /\ g \in Node
        /\ \A w \in Worker : ~Holds(frame[w], g) /\ ~Enables(frame[w], g)
    BY GraphAssumption DEF Settling, ResetWaits, KnowledgeGrows, Steady
  <2>2. nodeStatus'[g] \in {"ready", "running"}
    BY <2>1 DEF Steady, StatusMoves, Holds, At
  <2>3. ASSUME NEW w \in Worker PROVE ~Holds(frame'[w], g) /\ ~Enables(frame'[w], g)
    <3>1. CASE frame'[w] = frame[w] BY <2>1, <3>1
    <3>2. CASE WorkKept(frame[w], frame'[w])
      BY <2>1, <3>2 DEF WorkKept, MayBecomeReady
    <3>3. CASE /\ w \in Task /\ w[1] \in dispatched
               /\ frame'[w].pc = "pop"
               /\ \A i \in DOMAIN frame'[w].queue : frame'[w].queue[i].node = w[1]
      BY <2>1, <3>3 DEF Holds, Enables
    <3> QED BY <3>1, <3>2, <3>3 DEF Steady, CallsKept
  <2> QED BY <2>2, <2>3
<1>4. TerminalKnown'
  <2> SUFFICES ASSUME Attached', NEW n \in nodes, IsTerminal(nodeStatus'[n])
               PROVE  n \in dispatched' \/ (n \in Gather /\ ~Announced(n)')
    BY DEF TerminalKnown, KnowledgeGrows, Steady
  <2>1. Attached /\ n \in Node
    BY TypeParts DEF Steady, KnowledgeGrows, Parts, Typed, TypeOK
  <2>2. CASE IsTerminal(nodeStatus[n])
    BY <2>1, <2>2 DEF Settling, TerminalKnown, KnowledgeGrows, Steady
  <2>3. CASE ~IsTerminal(nodeStatus[n])
    <3>1. PICK w \in Worker : At(w, "mark") /\ frame[w].node = n
      BY <2>1, <2>3 DEF Steady, StatusMoves, IsTerminal
    <3>2. Holds(frame[w], n) BY <3>1 DEF Holds, At
    <3>3. CASE n \in Gather
      BY <2>1, <3>2, <3>3 DEF Settling, ResetWaits, KnowledgeGrows, Steady
    <3>4. CASE w \in Task /\ n = w[1]
      <4>1. Live(w) BY <3>1 DEF Live, At
      <4> QED BY <3>4, <4>1 DEF OrchaIInv, LiveIsDispatched, KnowledgeGrows, Steady
    <3> QED BY <2>1, <3>2, <3>3, <3>4 DEF Settling, OwnWork
  <2> QED BY <2>2, <2>3
<1> QED BY <1>1, <1>2, <1>3, <1>4 DEF Settling, Steady
-----------------------------------------------------------------------------
(***************************************************************************)
(* Every action keeps the invariant.                                       *)
(***************************************************************************)
LEMMA NotifyAttached ==
  ASSUME NotifyTyped, Sleeper, Notify \/ UNCHANGED notify
  PROVE  Sleeper' /\ (Attached' => Attached)
<1>1. CASE waiters = <<>> \/ UNCHANGED notify
  BY <1>1 DEF Notify, notify, Sleeper, Attached
<1>2. CASE Notify /\ waiters # <<>>
  <2>1. waiters = <<Runner>> /\ stream[Runner].pc = "wait" BY <1>2 DEF Sleeper
  <2>2. waiters' = <<>> BY <1>2, <2>1 DEF Notify
  <2> QED BY <2>1, <2>2 DEF Sleeper, Attached
<1> QED BY <1>1, <1>2

\* What a step that leaves the calls and the log alone has still to show.
LEMMA Undisturbed ==
  ASSUME UNCHANGED <<frame, log>>, KnowledgeGrows, StatusMoves, Sleeper'
  PROVE  Steady
  BY DEF Steady, CallsKept, Announced, AboutToLog, At, Events

LEMMA StepTopology ==
  ASSUME NEW w \in Worker, Step(w) PROVE nodes' = nodes
  BY DEF Step, ReadRoots, Seed, Seeded, Pop, Mark, LogNode, Route, Deliver, Routed,
         FailGraph, LogGraphFailed, Finish, CompleteGraph, LogGraphDone, Check,
         NotEnabled, EnableTask, EnableGather, LogReady, topology

LEMMA EngineSettles ==
  ASSUME OrchaIInv, Settling, NEW w \in Worker, Engine(w) PROVE Settling'
<1> USE TypeParts DEF Parts
<1>1. Step(w) /\ UNCHANGED orcha /\ (Notify \/ UNCHANGED notify) BY DEF Engine
<1>2. CallsKept BY <1>1, StepIsLocal, StepKeepsWork DEF CallsKept
<1>3. Sleeper' /\ (Attached' => Attached) BY <1>1, NotifyAttached DEF Settling
<1>4. KnowledgeGrows BY <1>1, <1>3, StepTopology DEF KnowledgeGrows, orcha
<1>5. \A n \in Gather : Announced(n)' => Announced(n) BY <1>1, StepAnnounces DEF Settling
<1> QED BY <1>1, <1>2, <1>3, <1>4, <1>5, StepMoves, SteadyKeeps DEF Steady

LEMMA StartNodeSettles ==
  ASSUME OrchaIInv, Settling, NEW t \in Task, StartNode(t) PROVE Settling'
<1>1. StatusMoves
  BY TypeParts, SetNodeMoves DEF StartNode, Parts
<1>2. KnowledgeGrows /\ Sleeper'
  BY DEF StartNode, KnowledgeGrows, Attached, notify, topology, Settling, Sleeper
<1> QED BY <1>1, <1>2, Undisturbed, SteadyKeeps DEF StartNode

LEMMA LogStartedSettles ==
  ASSUME OrchaIInv, Settling, NEW t \in Task, LogStarted(t) PROVE Settling'
<1> USE TypeParts DEF Parts
<1>1. StatusMoves /\ CallsKept BY DEF LogStarted, StatusMoves, CallsKept
<1>2. Sleeper' /\ (Attached' => Attached) BY NotifyAttached DEF LogStarted, Settling
<1>3. KnowledgeGrows BY <1>2 DEF LogStarted, KnowledgeGrows, topology
<1>4. ASSUME NEW n \in Gather, Announced(n)' PROVE Announced(n)
  <2>1. Events' = Events \cup {Ev("NodeStarted", t[1])}
    BY AppendAddsEvent DEF LogStarted, Persist
  <2>2. Ev("NodeStarted", t[1]) # Ev("NodeReady", n) BY DEF Ev
  <2> QED BY <1>4, <2>1, <2>2 DEF LogStarted, Announced, AboutToLog, At
<1> QED BY <1>1, <1>2, <1>3, <1>4, SteadyKeeps DEF Steady

LEMMA AnswerSettles ==
  ASSUME OrchaIInv, Settling, NEW t \in Task, Succeed(t) \/ Fail(t) \/ Abort(t)
  PROVE  Settling'
<1> USE TypeParts DEF Parts
<1>1. UNCHANGED taskUnchanged BY DEF Succeed, Fail, Abort
<1>2. StatusMoves /\ KnowledgeGrows /\ Sleeper'
  BY <1>1 DEF taskUnchanged, notify, topology, StatusMoves, KnowledgeGrows, Attached,
              Settling, Sleeper
<1>3. UNCHANGED frame \/ \E failed : ReportResult(t, failed)
  BY DEF Succeed, Fail, Abort, AttemptFails
<1>4. CASE UNCHANGED frame BY <1>1, <1>2, <1>4, Undisturbed, SteadyKeeps DEF taskUnchanged
<1>5. ASSUME NEW failed, ReportResult(t, failed) PROVE Settling'
  <2>1. t \in Worker /\ t[1] \in dispatched
    <3>1. Live(t) BY DEF Succeed, Fail, Abort, Live
    <3> QED BY <3>1, WorkerKinds DEF OrchaIInv, LiveIsDispatched
  <2> DEFINE item == [node |-> t[1], out |-> {Fresh(1, IF failed THEN "error" ELSE "ok")},
                      failed |-> failed]
             g == [IdleFrame EXCEPT !.pc = "pop", !.op = "advance", !.queue = <<item>>]
  <2>2. frame' = [frame EXCEPT ![t] = g] BY <1>5 DEF ReportResult, Advance
  <2>3. g.pc = "pop" /\ g.roots = {} /\ g.queue = <<item>> BY DEF IdleFrame
  <2>4. \A i \in DOMAIN g.queue : g.queue[i].node = t[1] BY <2>3
  <2> HIDE DEF g
  <2>5. frame'[t] = g /\ \A u \in Worker \ {t} : frame'[u] = frame[u]
    BY <2>1, <2>2 DEF Typed
  <2>6. CallsKept BY <2>1, <2>3, <2>4, <2>5 DEF CallsKept
  <2>7. \A n \in Gather : Announced(n)' => Announced(n)
    BY <1>1, <2>3, <2>5 DEF taskUnchanged, Announced, AboutToLog, At, Events
  <2> QED BY <1>2, <2>6, <2>7, SteadyKeeps DEF Steady
<1> QED BY <1>3, <1>4, <1>5

LEMMA ReadSettles ==
  ASSUME OrchaIInv, Settling, Read(Runner) PROVE Settling'
<1> USE TypeParts DEF Parts
<1>1. UNCHANGED <<lattice, orcha>> BY DEF Read, Open, Fetch, Wait
<1>2. Attached BY DEF Read, Open, Fetch, Wait, Attached
<1>3. Sleeper'
  <2>1. stream[Runner].pc # "wait" => waiters = <<>> BY DEF Settling, Sleeper
  <2>2. CASE Open(Runner) \/ Fetch(Runner) BY <2>1, <2>2 DEF Open, Fetch, Sleeper
  <2>3. CASE Wait(Runner)
    <3>1. waiters = <<>> BY <2>1, <2>3 DEF Wait
    <3>2. waiters' \in {<<>>, <<Runner>>} /\ (waiters' # <<>> => permit # "stored")
      BY <2>3, <3>1 DEF Wait
    <3>3. permit # "stored" => stream'[Runner].pc = "wait"
      BY <2>3, WorkerKinds DEF Wait, NotifyTyped, StreamState
    <3> QED BY <3>2, <3>3 DEF Sleeper
  <2> QED BY <2>2, <2>3 DEF Read
<1>4. KnowledgeGrows /\ StatusMoves
  BY <1>1, <1>2 DEF lattice, topology, orcha, KnowledgeGrows, StatusMoves
<1>5. UNCHANGED <<frame, log>> BY <1>1 DEF lattice
<1> QED BY <1>3, <1>4, <1>5, Undisturbed, SteadyKeeps

LEMMA DispatchSettles ==
  ASSUME OrchaIInv, Settling, Dispatch PROVE Settling'
<1>1. PICK i \in DOMAIN log :
         /\ Consume(Runner, i)
         /\ IF Ends(log[i]) THEN Finished ELSE Spawn(log[i].node)
  BY DEF Dispatch
<1>2. UNCHANGED <<lattice, waiters>> /\ stream[Runner].pc = "batch"
  BY <1>1 DEF Consume
<1>3. dispatched \subseteq dispatched' /\ left' = left
  BY <1>1 DEF Finished, Spawn, Remember
<1>4. KnowledgeGrows /\ StatusMoves
  BY <1>2, <1>3 DEF lattice, topology, KnowledgeGrows, StatusMoves, Attached
<1>5. Sleeper' BY <1>2 DEF Settling, Sleeper
<1>6. UNCHANGED <<frame, log>> BY <1>2 DEF lattice
<1> QED BY <1>4, <1>5, <1>6, Undisturbed, SteadyKeeps

LEMMA StartGraphSettles ==
  ASSUME OrchaIInv, Settling, StartGraph PROVE Settling'
<1> USE TypeParts DEF Parts
<1> DEFINE g == [IdleFrame EXCEPT !.pc = "roots", !.op = "start"]
<1>1. frame' = [frame EXCEPT ![Runner] = g] BY DEF StartGraph, Start
<1>2. g.pc = "roots" /\ g.roots = {} /\ g.queue = <<>> BY DEF IdleFrame
<1> HIDE DEF g
<1>3. frame'[Runner] = g /\ \A u \in Worker \ {Runner} : frame'[u] = frame[u]
  BY <1>1, WorkerKinds DEF Typed
<1>4. WorkKept(frame[Runner], g) BY <1>2 DEF WorkKept, Holds, Enables
<1>5. CallsKept BY <1>3, <1>4 DEF CallsKept
<1>6. \A n \in Gather : Announced(n)' => Announced(n)
  BY <1>2, <1>3 DEF StartGraph, Start, Announced, AboutToLog, At, Events
<1>7. KnowledgeGrows /\ StatusMoves /\ Sleeper'
  BY DEF StartGraph, Start, orcha, topology, KnowledgeGrows, StatusMoves, Attached,
         Settling, Sleeper
<1> QED BY <1>5, <1>6, <1>7, SteadyKeeps DEF Steady

LEMMA CancelGraphSettles ==
  ASSUME OrchaIInv, Settling, CancelGraph PROVE Settling'
<1>1. UNCHANGED <<lattice, notify, dispatched, left>> BY DEF CancelGraph
<1>2. KnowledgeGrows /\ StatusMoves /\ Sleeper'
  BY <1>1 DEF lattice, topology, notify, KnowledgeGrows, StatusMoves, Attached,
              Settling, Sleeper
<1>3. UNCHANGED <<frame, log>> BY <1>1 DEF lattice
<1> QED BY <1>2, <1>3, Undisturbed, SteadyKeeps

\* A dispatcher attaches to a graph with no call in progress, and takes over
\* the nodes that are terminal.
LEMMA AttachSettles ==
  ASSUME OrchaIInv, Settling, Launch \/ Reattach PROVE Settling'
<1> USE TypeParts DEF Parts
<1>1. /\ UNCHANGED <<lattice, waiters, left>> /\ At(Runner, "idle")
      /\ stream[Runner].pc \in Resting /\ dispatched' = Terminal
  BY DEF Launch, Reattach, Attach, Known, Resting
<1>2. UNCHANGED <<frame, log, nodes, nodeStatus>> BY <1>1 DEF lattice, topology
<1>3. \A n : Announced(n)' = Announced(n)
  BY <1>2 DEF Announced, AboutToLog, At, Events
<1>4. waiters = <<>> BY <1>1 DEF Settling, Sleeper, Resting
<1>5. \A w \in Worker : At(w, "idle")
  <2>1. \A t \in Task : At(t, "idle")
    BY <1>1 DEF OrchaIInv, Detached, Resting, Live
  <2> QED BY <1>1, <2>1, RunnerAssumption
<1>6. \A w \in Worker : \A n : ~Holds(frame[w], n) /\ ~Enables(frame[w], n)
  BY <1>5 DEF Settling, OwnWork, Holds, Enables, At
<1>7. OwnWork' /\ NeverPendingAgain'
  BY <1>1, <1>2, <1>3 DEF Settling, OwnWork, NeverPendingAgain, At
<1>8. ResetWaits'
  <2> SUFFICES ASSUME NEW g \in Gather \cap nodes, g \notin Terminal, Announced(g)
               PROVE  nodeStatus[g] \in {"ready", "running"}
    BY <1>1, <1>2, <1>3, <1>6 DEF ResetWaits
  <2>1. nodeStatus[g] # "pending" /\ ~IsTerminal(nodeStatus[g])
    BY DEF Settling, NeverPendingAgain, Terminal
  <2>2. nodeStatus[g] \in Status
    BY GraphAssumption DEF Typed, TypeOK
  <2> QED BY <2>1, <2>2 DEF IsTerminal, Status
<1>9. TerminalKnown' BY <1>1, <1>2 DEF TerminalKnown, Terminal
<1> QED BY <1>1, <1>4, <1>7, <1>8, <1>9 DEF Settling, Sleeper

LEMMA DetachedSettles ==
  ASSUME ~Attached', Sleeper', OwnWork', NeverPendingAgain' PROVE Settling'
  BY DEF Settling, ResetWaits, TerminalKnown

LEMMA RestartSettles ==
  ASSUME OrchaIInv, Settling, Restart PROVE Settling'
<1> USE TypeParts DEF Parts
<1>1. \A w \in Worker : frame'[w] = IdleFrame BY DEF Restart
<1>2. ~Attached'
  BY WorkerKinds DEF Restart, Attached, AtStart
<1>3. OwnWork' BY <1>1 DEF OwnWork, IdleFrame, Holds, At
<1>4. NeverPendingAgain'
  <2>1. \A n : Announced(n)' => Announced(n)
    BY <1>1 DEF Restart, IdleFrame, Announced, AboutToLog, At, Events
  <2>2. \A n \in left' : nodeStatus'[n] # "pending" BY DEF Restart
  <2> QED BY <2>1, <2>2 DEF Settling, NeverPendingAgain, Restart
<1>5. Sleeper' BY DEF Restart, Sleeper
<1> QED BY <1>2, <1>3, <1>4, <1>5, DetachedSettles

\* ResetRunning and ReemitReady announce a node that is not pending.
LEMMA ReemissionSettles ==
  ASSUME OrchaIInv, Settling, ResetRunning \/ ReemitReady PROVE Settling'
<1> USE TypeParts DEF Parts
<1>1. PICK n \in left : /\ EmitReady(n) /\ left' = left \ {n}
                        /\ SetNode(n, "ready", {}) \/ UNCHANGED nodeStatus
  BY DEF ResetRunning, ReemitReady
<1>2. UNCHANGED <<log, notify>> /\ stream[Runner].pc \in {"recover", "reemit"}
  BY DEF ResetRunning, ReemitReady
<1> DEFINE g == [IdleFrame EXCEPT !.pc = "ready", !.op = "node", !.target = n]
<1>3. frame' = [frame EXCEPT ![Runner] = g] BY <1>1 DEF EmitReady
<1>4. g.pc = "ready" /\ g.target = n /\ g.roots = {} /\ g.queue = <<>>
  BY DEF IdleFrame
<1> HIDE DEF g
<1>5. frame'[Runner] = g /\ \A u \in Worker \ {Runner} : frame'[u] = frame[u]
  BY <1>3, WorkerKinds DEF Typed
<1>6. OwnWork' BY <1>4, <1>5 DEF Settling, OwnWork, Holds, At
<1>7. NeverPendingAgain'
  <2>1. ASSUME NEW m, Announced(m)', m # n PROVE Announced(m)
    BY <1>2, <1>4, <1>5, <2>1 DEF Announced, AboutToLog, At, Events
  <2>2. \A m \in Node : nodeStatus[m] # "pending" => nodeStatus'[m] # "pending"
    BY <1>1 DEF SetNode, Typed, TypeOK
  <2>3. n \in Node /\ left \subseteq Node /\ Gather \subseteq Node
    BY GraphAssumption DEF SetsTyped
  <2>4. nodeStatus[n] # "pending" BY DEF Settling, NeverPendingAgain
  <2> QED BY <1>1, <2>1, <2>2, <2>3, <2>4 DEF Settling, NeverPendingAgain
<1>8. ~Attached' /\ Sleeper' BY <1>2 DEF notify, Attached, Settling, Sleeper
<1> QED BY <1>6, <1>7, <1>8, DetachedSettles

LEMMA FindReadySettles ==
  ASSUME OrchaIInv, Settling, FindReady PROVE Settling'
<1> USE TypeParts DEF Parts
<1>1. UNCHANGED <<frame, log, nodeStatus, waiters>> BY DEF FindReady, lattice
<1>2. stream[Runner].pc = "recover" /\ stream'[Runner].pc = "reemit"
  BY WorkerKinds DEF FindReady, NotifyTyped, StreamState
<1>3. ~Attached' /\ Sleeper' BY <1>1, <1>2 DEF Attached, Settling, Sleeper
<1>4. OwnWork' BY <1>1 DEF Settling, OwnWork, At
<1>5. NeverPendingAgain'
  <2>1. \A n : Announced(n)' = Announced(n)
    BY <1>1 DEF Announced, AboutToLog, At, Events
  <2>2. \A n \in left' : nodeStatus[n] = "ready" BY DEF FindReady
  <2> QED BY <1>1, <2>1, <2>2 DEF Settling, NeverPendingAgain
<1> QED BY <1>3, <1>4, <1>5, DetachedSettles

LEMMA InitSettles == OrchaInit => Settling
<1> SUFFICES ASSUME OrchaInit PROVE Settling OBVIOUS
<1>1. /\ log = <<>> /\ left = {} /\ waiters = <<>>
      /\ \A w \in Worker : frame[w] = IdleFrame
      /\ stream[Runner].pc = "off"
  BY WorkerKinds DEF OrchaInit, Init, AtStart
<1>2. ~Attached BY <1>1 DEF Attached
<1>3. OwnWork BY <1>1 DEF OwnWork, IdleFrame, Holds, At
<1>4. \A n : ~Announced(n) BY <1>1 DEF Announced, AboutToLog, At, Events, IdleFrame
<1> QED BY <1>1, <1>2, <1>3, <1>4
        DEF Settling, Sleeper, NeverPendingAgain, ResetWaits, TerminalKnown

LEMMA NextSettles == RecoveryIInv /\ [OrchaNext]_runnerVars => RecoveryIInv'
<1> SUFFICES ASSUME OrchaIInv, Settling, [OrchaNext]_runnerVars PROVE Settling'
  BY OrchaNextIInv DEF RecoveryIInv
<1>1. CASE UNCHANGED runnerVars
  <2>1. UNCHANGED <<lattice, notify, dispatched, left>> BY <1>1 DEF runnerVars, orcha
  <2>2. UNCHANGED <<frame, log>> BY <2>1 DEF lattice
  <2>3. KnowledgeGrows /\ StatusMoves /\ Sleeper'
    BY <2>1 DEF lattice, topology, notify, KnowledgeGrows, StatusMoves, Attached,
              Settling, Sleeper
  <2> QED BY <2>2, <2>3, Undisturbed, SteadyKeeps
<1>2. CASE \E w \in Worker : Engine(w) BY <1>2, EngineSettles
<1>3. CASE \E t \in Task : Run(t) \/ Result(t)
  BY <1>3, StartNodeSettles, LogStartedSettles, AnswerSettles DEF Run, Result
<1>4. CASE Read(Runner) \/ Dispatch BY <1>4, ReadSettles, DispatchSettles
<1>5. CASE Launch \/ StartGraph \/ CancelGraph
  BY <1>5, AttachSettles, StartGraphSettles, CancelGraphSettles
<1>6. CASE Restart \/ Recover
  BY <1>6, RestartSettles, ReemissionSettles, FindReadySettles, AttachSettles DEF Recover
<1> QED BY <1>1, <1>2, <1>3, <1>4, <1>5, <1>6 DEF OrchaNext
-----------------------------------------------------------------------------
(***************************************************************************)
(* The theorem.                                                            *)
(***************************************************************************)
Spawns(t) == task[t].pc = "none" /\ task'[t].pc = "spawned"

LEMMA OnlyDispatchSpawns ==
  ASSUME OrchaIInv, [OrchaNext]_runnerVars, NEW t \in Task, Spawns(t)
  PROVE  Dispatch
<1> USE TypeParts DEF Parts
<1>1. CASE UNCHANGED task BY <1>1 DEF Spawns
<1>2. ASSUME NEW u \in Task, Run(u) \/ Result(u) PROVE FALSE
  <2>1. CASE u # t
    <3>1. task'[t] = task[t]
      BY <1>2, <2>1
      DEF Run, Result, StartNode, LogStarted, Succeed, Fail, Abort, AttemptFails,
          ReportResult, TasksTyped
    <3> QED BY <3>1 DEF Spawns
  <2>2. CASE u = t
    BY <1>2, <2>2
    DEF Run, Result, StartNode, LogStarted, Succeed, Fail, Abort, Spawns
  <2> QED BY <2>1, <2>2
<1>3. CASE Launch \/ Reattach \/ CancelGraph
  <2>1. task' = Orphan(task) \/ task' = Fire(task)
    BY <1>3 DEF Launch, Reattach, Attach, CancelGraph
  <2> QED BY <2>1, ReceiversChange DEF Spawns
<1>4. CASE Restart BY <1>4 DEF Restart, Spawns, NoTask
<1>5. CASE StartGraph \/ Read(Runner) \/ \E w \in Worker : Engine(w)
  BY <1>1, <1>5 DEF StartGraph, Read, Open, Fetch, Wait, Engine, orcha
<1>6. CASE ResetRunning \/ FindReady \/ ReemitReady
  BY <1>1, <1>6 DEF ResetRunning, FindReady, ReemitReady
<1>7. CASE UNCHANGED runnerVars BY <1>1, <1>7 DEF runnerVars, orcha
<1> QED BY <1>2, <1>3, <1>4, <1>5, <1>6, <1>7 DEF OrchaNext, Recover

LEMMA SpawnsUnfinished ==
  ASSUME RecoveryIInv, [OrchaNext]_runnerVars,
         NEW n \in nodes, NEW k \in Copy, Spawns(<<n, k>>)
  PROVE  ~IsTerminal(nodeStatus[n])
<1> USE TypeParts DEF Parts, RecoveryIInv
<1>1. n \in Node /\ <<n, k>> \in Task BY DEF Typed, TypeOK, Task
<1>2. PICK i \in DOMAIN log :
         /\ Consume(Runner, i)
         /\ IF Ends(log[i]) THEN Finished ELSE Spawn(log[i].node)
  BY <1>1, OnlyDispatchSpawns DEF Dispatch
<1>3. ~Ends(log[i]) /\ Spawn(log[i].node)
  <2>1. CASE Finished
    <3>1. task'[<<n, k>>].pc = task[<<n, k>>].pc
      BY <1>1, <2>1, ReceiversChange DEF Finished
    <3> QED BY <3>1 DEF Spawns
  <2> QED BY <1>2, <2>1
<1>4. ToDispatch(log[i]) /\ Attached
  BY <1>2, <1>3 DEF Consume, Relevant, Attached
<1>5. log[i].node = n
  <2>1. log[i].node \in Node BY <1>4 DEF ToDispatch, ReadyNamesNode
  <2>2. PICK j \in Copy : task' = [task EXCEPT ![<<log[i].node, j>>] =
                                       [pc |-> "spawned", attempt |-> 0, rx |-> token]]
    BY <1>3 DEF Spawn, FreeCopy
  <2>3. <<n, k>> = <<log[i].node, j>>
    BY <1>1, <2>2 DEF TasksTyped, Spawns
  <2> QED BY <2>3
<1>6. Ev("NodeReady", n) \in Events
  <2>1. log[i] \in Event BY DEF Typed, TypeOK
  <2>2. log[i] = Ev("NodeReady", n) BY <1>4, <1>5, <2>1 DEF ToDispatch, Event, Ev
  <2> QED BY <2>2 DEF Events
<1> QED BY <1>4, <1>5, <1>6 DEF ToDispatch, Settling, TerminalKnown, Announced

\* run_graph_execution and recover_running_graphs: for every graph, any number
\* of restarts, also in the middle of a call, and the whole log replayed each
\* time, a task is spawned only for a node that has neither completed nor failed.
THEOREM FinishedStaysDone == OrchaSpec => FinishedNotRerun
<1>1. OrchaInit => RecoveryIInv BY OrchaInitIInv, InitSettles DEF RecoveryIInv
<1>2. RecoveryIInv /\ [OrchaNext]_runnerVars =>
        [\A n \in nodes : (\E k \in Copy : task[<<n, k>>].pc = "none"
                                          /\ task'[<<n, k>>].pc = "spawned")
                             => ~IsTerminal(nodeStatus[n])]_runnerVars
  BY SpawnsUnfinished DEF Spawns
<1> QED BY <1>1, <1>2, NextSettles, PTL DEF OrchaSpec, FinishedNotRerun

(***************************************************************************)
(* No task is left behind: graphs without joins, in which each node has at *)
(* most one inbound edge, and restarts between calls.  A node is then      *)
(* readied once, by the token on that edge, which one call delivers.       *)
(***************************************************************************)
NoJoins == Gather = {} /\ \A d, e \in InitEdge : To[d] = To[e] => d = e

EdgesFrom(n) == {e \in InitEdge : From[e] = n}
OneToken(S) == \E x \in Token : S = {x}
Passing == {"deliver", "check", "enable", "ready"}

\* A call of a task of node n: it passes the one token of the node's answer on, over
\* one edge after the other.
LoneCall(f, n) ==
    /\ f.pc \in {"idle", "pop", "mark", "log", "route", "failgraph", "failevent", "done",
                 "doneevent"} \cup Passing
    /\ f.pc # "idle" => f.op = "advance"
    /\ f.queue # <<>> => f.pc = "pop" /\ Len(f.queue) = 1
    /\ \A i \in DOMAIN f.queue : OneToken(f.queue[i].out)
    /\ f.pc \in {"mark", "log", "route"} \cup Passing => OneToken(f.out)
    /\ f.pc \in {"log", "route"} \cup Passing => f.node = n
    /\ f.todo \subseteq [tok : f.out, edge : EdgesFrom(n)]
    /\ f.todo # {} => f.pc \in {"route"} \cup Passing
    /\ f.pc \in Passing => f.hop \in [tok : f.out, edge : EdgesFrom(n)] /\ f.hop \notin f.todo
    /\ f.pc \in {"check", "enable", "ready"} => f.target = To[f.hop.edge]

\* The call has still to put the token on edge e.
Owes(f, e) ==
    \/ f.pc = "log" /\ f.node = From[e]
    \/ \E h \in f.todo : h.edge = e
    \/ f.pc = "deliver" /\ f.hop.edge = e
Visits(f) == f.pc \in {"check", "enable"}

\* A task whose answer is not recorded yet.
Begun(t) == task[t].pc # "none" \/ Holds(frame[t], t[1])

Stage(t) ==
    /\ task[t].pc # "none" => At(t, "idle")
    /\ Begun(t) => nodeStatus[t[1]] \in {"ready", "running"}
    /\ Live(t) /\ ~ Begun(t) => IsTerminal(nodeStatus[t[1]])

Seeding ==
    LET f == frame[Runner] IN
    /\ f.pc \in {"idle", "roots", "seed", "ready", "done", "doneevent"}
    /\ f.op \in {"none", "start", "node"}
    /\ f.pc = "idle" => f.op = "none" /\ f.roots = {}
    /\ f.pc # "idle" => f.op # "none"
    /\ f.op = "node" => f.pc = "ready" /\ stream[Runner].pc \in {"recover", "reemit"}
    /\ f.op = "start" => graphStatus # "pending"
    /\ \A n \in f.roots : Inbound(n) = {} /\ nodeStatus[n] = "pending"
    /\ f.pc = "ready" /\ f.op = "start" => Inbound(f.target) = {}
    /\ f.pc = "roots" \/ graphStatus = "pending" => \A n \in Node : nodeStatus[n] = "pending"

\* A token is on an edge from the time its source has answered and passed it on, and
\* its target stays pending until the call that has delivered it enables it.
OnTheWay ==
    /\ \A e \in InitEdge : HasToken(e) => IsTerminal(nodeStatus[From[e]])
    /\ \A t \in Task : \A e \in InitEdge : Owes(frame[t], e) => ~ HasToken(e)
    /\ \A n \in Node : \A e \in Inbound(n) : nodeStatus[n] # "pending" => HasToken(e)
    /\ \A t \in Task : Visits(frame[t]) =>
          /\ HasToken(frame[t].hop.edge)
          /\ Inbound(frame[t].target) = {} \/ nodeStatus[frame[t].target] = "pending"

\* A call that has set a node to ready and is about to announce it for the first time.
Announces(w, n) == At(w, "ready") /\ frame[w].op # "node" /\ frame[w].target = n
Heard(n) == Ev("NodeReady", n) \in Events

AnnouncedOnce ==
    /\ \A n \in Node : Announced(n) \/ n \in dispatched \/ n \in left => nodeStatus[n] # "pending"
    /\ \A w \in Worker : \A n \in Node : Announces(w, n) =>
          /\ nodeStatus[n] # "pending" /\ ~ Heard(n) /\ n \notin dispatched
          /\ w \in Task => Inbound(n) # {}
    /\ \A n \in Node : nodeStatus[n] \in {"ready", "running"} =>
          Heard(n) \/ \E w \in Worker : Announces(w, n)

\* NothingAbandoned, also of nodes that are not rows (yet).
InHand(n) == \/ \E k \in Copy : Live(<<n, k>>)
             \/ AboutToLog(n)
             \/ Unread(n) /\ n \notin dispatched
InGoodHands == Driving => \A n \in Node : nodeStatus[n] \in {"ready", "running"} => InHand(n)

Lone == /\ edges = InitEdge
        /\ \A t \in Task : LoneCall(frame[t], t[1]) /\ Stage(t)
        /\ Seeding /\ OnTheWay /\ AnnouncedOnce /\ InGoodHands
\* No call touches a node that is no row.
Rows == /\ nodes = InitNode
        /\ \A n \in Node : nodeStatus[n] # "pending" => n \in nodes
        /\ frame[Runner].roots \subseteq nodes

LoneIInv == RecoveryIInv /\ Numbered /\ Awake /\ Lone /\ Rows
-----------------------------------------------------------------------------
(***************************************************************************)
(* Steps that change neither a status nor a token, and announce nothing.   *)
(***************************************************************************)
StreamKept ==
    /\ Driving' => /\ Driving
                   /\ \A n \in Node : Unread(n) /\ n \notin dispatched => Unread(n)'
    /\ stream[Runner].pc \in {"recover", "reemit"} => stream'[Runner].pc \in {"recover", "reemit"}

TablesKept ==
    /\ UNCHANGED <<edges, tokens, dispatched>>
    /\ \A n \in Node : \/ nodeStatus'[n] = nodeStatus[n]
                       \/ {nodeStatus[n], nodeStatus'[n]} \subseteq {"ready", "running"}
    /\ \A n \in Node : n \in left' => n \in left \/ nodeStatus[n] # "pending"
    /\ graphStatus' = "pending" => graphStatus = "pending"
    /\ \A n \in Node : Heard(n)' <=> Heard(n)
    /\ StreamKept

LightStep(f, g, n) ==
    /\ LoneCall(g, n)
    /\ Holds(g, n) <=> Holds(f, n)
    /\ g.pc # "idle" => f.pc # "idle"
    /\ \A e \in InitEdge : Owes(g, e) => Owes(f, e)
    /\ Visits(g) => Visits(f) /\ g.hop = f.hop /\ g.target = f.target
    /\ f.pc # "ready" /\ g.pc # "ready"

LEMMA QueriesKept ==
  ASSUME UNCHANGED <<edges, tokens>>
  PROVE  /\ \A n : Inbound(n)' = Inbound(n)
         /\ \A e : HasToken(e)' <=> HasToken(e)
  BY DEF Inbound, HasToken

LEMMA StatusKept ==
  ASSUME TablesKept, NEW n \in Node
  PROVE  /\ nodeStatus'[n] = "pending" <=> nodeStatus[n] = "pending"
         /\ IsTerminal(nodeStatus'[n]) <=> IsTerminal(nodeStatus[n])
         /\ nodeStatus'[n] \in {"ready", "running"} <=> nodeStatus[n] \in {"ready", "running"}
  BY DEF TablesKept, IsTerminal

LEMMA NodesOfCalls ==
  ASSUME Typed
  PROVE  /\ \A e \in InitEdge : From[e] \in Node /\ To[e] \in Node
         /\ \A w \in Worker : /\ frame[w].roots \subseteq Node
                              /\ Visits(frame[w]) => frame[w].target \in Node
<1>1. \A e \in InitEdge : From[e] \in Node /\ To[e] \in Node BY GraphAssumption
<1>2. ASSUME NEW w \in Worker
      PROVE  frame[w].roots \subseteq Node /\ (Visits(frame[w]) => frame[w].target \in Node)
  BY CallFrame, FrameFields DEF TypedFrame, Visits
<1> QED BY <1>1, <1>2

LEMMA LightTask ==
  ASSUME Typed, Lone, NEW t \in Task, UNCHANGED task, TablesKept,
         \A u \in Worker \ {t} : frame'[u] = frame[u],
         LightStep(frame[t], frame'[t], t[1])
  PROVE  Lone'
<1> DEFINE f == frame[t]
           g == frame'[t]
<1>1. /\ UNCHANGED <<edges, tokens, dispatched>>
      /\ \A n \in Node : \/ nodeStatus'[n] = nodeStatus[n]
                         \/ {nodeStatus[n], nodeStatus'[n]} \subseteq {"ready", "running"}
      /\ \A n \in Node : n \in left' => n \in left \/ nodeStatus[n] # "pending"
      /\ graphStatus' = "pending" => graphStatus = "pending"
      /\ \A n \in Node : Heard(n)' <=> Heard(n)
  BY DEF TablesKept
<1>2. /\ \A n : Inbound(n)' = Inbound(n)
      /\ \A e : HasToken(e)' <=> HasToken(e)
  BY <1>1, QueriesKept
<1>3. t \in Worker /\ Runner # t /\ Runner \in Worker /\ Task \subseteq Worker
      /\ \A u \in Task : u[1] \in Node
  BY WorkerKinds
<1>4. \A u \in Task \ {t} : frame'[u] = frame[u] BY <1>3
<1>5. frame'[Runner] = frame[Runner] BY <1>3
<1>6. /\ LoneCall(g, t[1]) /\ (Holds(g, t[1]) <=> Holds(f, t[1]))
      /\ g.pc # "idle" => f.pc # "idle"
      /\ \A e \in InitEdge : Owes(g, e) => Owes(f, e)
      /\ Visits(g) => Visits(f) /\ g.hop = f.hop /\ g.target = f.target
      /\ f.pc # "ready" /\ g.pc # "ready"
  BY DEF LightStep
<1>7. Begun(t)' <=> Begun(t) BY <1>6 DEF Begun
<1>8. \A u \in Task \ {t} : (Begun(u)' <=> Begun(u)) /\ (Live(u)' <=> Live(u))
  BY <1>4 DEF Begun, Live, At
<1>9. Live(t)' => Live(t) BY <1>6 DEF Live, At
<1>10. \A u \in Task : LoneCall(frame'[u], u[1]) /\ Stage(u)'
  <2>1. Stage(t) /\ (task[t].pc # "none" => g.pc = "idle")
    BY <1>6 DEF Lone, Stage, At
  <2>2. Stage(t)' BY <1>3, <1>7, <1>9, <2>1, StatusKept DEF Stage, At
  <2>3. \A u \in Task \ {t} : Stage(u)' BY <1>3, <1>4, <1>8, StatusKept DEF Lone, Stage, At
  <2>4. \A u \in Task \ {t} : LoneCall(frame'[u], u[1]) BY <1>4 DEF Lone
  <2> QED BY <1>6, <2>2, <2>3, <2>4
<1>11. Seeding'
  <2>1. stream[Runner].pc \in {"recover", "reemit"} => stream'[Runner].pc \in {"recover", "reemit"}
    BY DEF TablesKept, StreamKept
  <2> QED BY <1>1, <1>2, <1>3, <1>5, <2>1, StatusKept, NodesOfCalls DEF Lone, Seeding
<1>12. OnTheWay'
  <2>1. \A e \in InitEdge : HasToken(e)' => IsTerminal(nodeStatus'[From[e]])
    BY <1>2, StatusKept, NodesOfCalls DEF Lone, OnTheWay
  <2>2. \A u \in Task : \A e \in InitEdge : Owes(frame'[u], e) => ~ HasToken(e)'
    BY <1>2, <1>4, <1>6 DEF Lone, OnTheWay
  <2>3. \A n \in Node : \A e \in Inbound(n)' : nodeStatus'[n] # "pending" => HasToken(e)'
    BY <1>2, StatusKept DEF Lone, OnTheWay
  <2>4. \A u \in Task : Visits(frame'[u]) =>
           /\ Visits(frame[u]) /\ frame[u].hop = frame'[u].hop
           /\ frame[u].target = frame'[u].target /\ frame[u].target \in Node
    BY <1>3, <1>4, <1>6, NodesOfCalls
  <2>5. ASSUME NEW u \in Task, Visits(frame'[u])
        PROVE  (/\ HasToken(frame[u].hop.edge)
                /\ Inbound(frame[u].target) = {} \/ nodeStatus[frame[u].target] = "pending")'
    BY <1>2, <2>4, <2>5, StatusKept DEF Lone, OnTheWay
  <2> QED BY <2>1, <2>2, <2>3, <2>5 DEF OnTheWay
<1>13. \A n : (AboutToLog(n)' <=> AboutToLog(n))
              /\ \A w \in Worker : Announces(w, n)' <=> Announces(w, n)
  <2>1. \A w \in Worker : \A n : Announces(w, n)' <=> Announces(w, n)
    <3>1. \A n : Announces(t, n)' <=> Announces(t, n) BY <1>6 DEF Announces, At
    <3>2. \A w \in Worker \ {t} : \A n : Announces(w, n)' <=> Announces(w, n)
      BY DEF Announces, At
    <3> QED BY <3>1, <3>2
  <2>2. \A w \in Worker : \A n : (At(w, "ready") /\ frame[w].target = n)' <=>
                                    (At(w, "ready") /\ frame[w].target = n)
    BY <1>6 DEF At
  <2> QED BY <2>1, <2>2 DEF AboutToLog
<1>14. AnnouncedOnce'
  <2>1. \A n \in Node : Announced(n)' <=> Announced(n) BY <1>1, <1>13 DEF Announced, Heard
  <2> QED BY <1>1, <1>2, <1>13, <2>1 DEF Lone, AnnouncedOnce
<1>15. InGoodHands'
  <2> SUFFICES ASSUME Driving', NEW n \in Node, nodeStatus[n] \in {"ready", "running"}
               PROVE  InHand(n)'
    BY <1>1 DEF InGoodHands
  <2>1. Driving BY DEF TablesKept, StreamKept
  <2>2. InHand(n) BY <2>1 DEF Lone, InGoodHands
  <2>3. CASE AboutToLog(n) BY <1>13, <2>3 DEF InHand
  <2>4. CASE Unread(n) /\ n \notin dispatched
    BY <1>1, <2>4 DEF InHand, TablesKept, StreamKept
  <2>5. ASSUME NEW k \in Copy, Live(<<n, k>>) PROVE InHand(n)'
    <3>1. <<n, k>> \in Task BY DEF Task
    <3>2. CASE t # <<n, k>> BY <1>8, <2>5, <3>1, <3>2 DEF InHand
    <3>3. CASE t = <<n, k>>
      <4>1. t[1] = n BY <3>3
      <4>2. Begun(t) BY <2>5, <3>3, <4>1 DEF Lone, Stage, IsTerminal
      <4>3. task'[t].pc # "none" \/ g.pc # "idle"
        <5>1. CASE task[t].pc # "none" BY <5>1
        <5>2. CASE Holds(f, t[1])
          <6>1. Holds(g, t[1]) BY <1>6, <5>2
          <6>2. g.pc # "idle" BY <1>6, <6>1 DEF Holds, LoneCall
          <6> QED BY <6>2
        <5> QED BY <4>2, <5>1, <5>2 DEF Begun
      <4>4. Live(t)' BY <4>3 DEF Live, At
      <4> QED BY <3>3, <4>4 DEF InHand
    <3> QED BY <3>2, <3>3
  <2> QED BY <2>2, <2>3, <2>4, <2>5 DEF InHand
<1> QED BY <1>1, <1>10, <1>11, <1>12, <1>14, <1>15 DEF Lone

\* The same for steps that leave the calls of the tasks alone.
LEMMA LightOther ==
  ASSUME Typed, Lone, TablesKept, Seeding',
         \A t \in Task : frame'[t] = frame[t],
         \A t \in Task : task'[t].pc = "none" <=> task[t].pc = "none",
         \A n \in Node : Announces(Runner, n)' <=> Announces(Runner, n),
         \A n \in Node : AboutToLog(n)' => AboutToLog(n) \/ n \in left,
         Driving' => \A n \in Node : AboutToLog(n) => AboutToLog(n)'
  PROVE  Lone'
<1>1. /\ UNCHANGED <<edges, tokens, dispatched>>
      /\ \A n \in Node : \/ nodeStatus'[n] = nodeStatus[n]
                         \/ {nodeStatus[n], nodeStatus'[n]} \subseteq {"ready", "running"}
      /\ \A n \in Node : n \in left' => n \in left \/ nodeStatus[n] # "pending"
      /\ graphStatus' = "pending" => graphStatus = "pending"
      /\ \A n \in Node : Heard(n)' <=> Heard(n)
  BY DEF TablesKept
<1>2. /\ \A n : Inbound(n)' = Inbound(n)
      /\ \A e : HasToken(e)' <=> HasToken(e)
  BY <1>1, QueriesKept
<1>3. Runner \in Worker /\ Worker = {Runner} \cup Task /\ \A u \in Task : u[1] \in Node
  BY WorkerKinds, RunnerAssumption
<1>4. \A u \in Task : (Begun(u)' <=> Begun(u)) /\ (Live(u)' <=> Live(u)) BY DEF Begun, Live, At
<1>5. \A u \in Task : LoneCall(frame'[u], u[1]) /\ Stage(u)'
  <2>1. \A u \in Task : Stage(u)' BY <1>3, <1>4, StatusKept DEF Lone, Stage, At
  <2> QED BY <2>1 DEF Lone
<1>6. OnTheWay'
  <2>1. \A e \in InitEdge : HasToken(e)' => IsTerminal(nodeStatus'[From[e]])
    BY <1>2, StatusKept, NodesOfCalls DEF Lone, OnTheWay
  <2>2. \A n \in Node : \A e \in Inbound(n)' : nodeStatus'[n] # "pending" => HasToken(e)'
    BY <1>2, StatusKept DEF Lone, OnTheWay
  <2>3. \A u \in Task : Visits(frame[u]) => frame[u].target \in Node
    BY <1>3, NodesOfCalls
  <2>4. ASSUME NEW u \in Task, Visits(frame'[u])
        PROVE  (/\ HasToken(frame[u].hop.edge)
                /\ Inbound(frame[u].target) = {} \/ nodeStatus[frame[u].target] = "pending")'
    BY <1>2, <2>3, <2>4, StatusKept DEF Lone, OnTheWay
  <2>5. \A u \in Task : \A e \in InitEdge : Owes(frame'[u], e) => ~ HasToken(e)'
    BY <1>2 DEF Lone, OnTheWay
  <2> QED BY <2>1, <2>2, <2>4, <2>5 DEF OnTheWay
<1>8. \A n \in Node : \A w \in Worker : Announces(w, n)' <=> Announces(w, n)
  BY <1>3 DEF Announces, At
<1>9. AnnouncedOnce'
  <2>1. \A n \in Node : Announced(n)' => Announced(n) \/ n \in left
    BY <1>1 DEF Announced, Heard
  <2> QED BY <1>1, <1>2, <1>3, <1>8, <2>1 DEF Lone, AnnouncedOnce
<1>10. InGoodHands'
  <2> SUFFICES ASSUME Driving', NEW n \in Node, nodeStatus[n] \in {"ready", "running"}
               PROVE  InHand(n)'
    BY <1>1 DEF InGoodHands
  <2>1. Driving BY DEF TablesKept, StreamKept
  <2>2. InHand(n) BY <2>1 DEF Lone, InGoodHands
  <2>3. Unread(n) /\ n \notin dispatched => Unread(n)' BY DEF TablesKept, StreamKept
  <2>4. \A k \in Copy : Live(<<n, k>>)' <=> Live(<<n, k>>) BY <1>4 DEF Task
  <2> QED BY <1>1, <2>2, <2>3, <2>4 DEF InHand
<1> QED BY <1>1, <1>5, <1>6, <1>9, <1>10 DEF Lone
-----------------------------------------------------------------------------
(***************************************************************************)
(* The statements of a task's call that are such steps.                    *)
(***************************************************************************)
\* All that the invariant says of the call of a task.
CallFacts(t) ==
    /\ frame[t] \in Frame /\ t \in Worker /\ t # Runner /\ t[1] \in Node
    /\ LoneCall(frame[t], t[1]) /\ Stage(t)
    /\ \A n \in Node : Holds(frame[t], n) => n = t[1]
    /\ At(t, "idle") => frame[t].queue = <<>>

LEMMA CallIsLone ==
  ASSUME NoJoins, LoneIInv, NEW t \in Task PROVE CallFacts(t) /\ Typed
<1>1. Typed BY TypeParts DEF LoneIInv, RecoveryIInv, Parts
<1>2. t \in Worker /\ t # Runner /\ t[1] \in Node BY WorkerKinds
<1>3. frame[t] \in Frame BY <1>1, <1>2, CallFrame, FrameFields
<1>4. \A n \in Node : Holds(frame[t], n) => n = t[1]
  BY <1>2 DEF LoneIInv, RecoveryIInv, Settling, OwnWork, NoJoins
<1>5. At(t, "idle") => frame[t].queue = <<>>
  BY <1>2 DEF LoneIInv, RecoveryIInv, Settling, OwnWork
<1> QED BY <1>1, <1>2, <1>3, <1>4, <1>5 DEF CallFacts, LoneIInv, Lone

\* A statement that moves on, with the same answer, hop and target.
LEMMA MovesOn ==
  ASSUME NEW t \in Task, CallFacts(t), NEW g,
         g.pc \in {"route", "pop", "failgraph", "failevent", "done", "doneevent"},
         frame[t].pc \notin {"idle", "ready", "mark"}, frame[t].queue = <<>>,
         g.op = frame[t].op, g.queue = frame[t].queue, g.node = frame[t].node,
         g.out = frame[t].out, g.todo = frame[t].todo,
         g.pc = "route" => frame[t].pc \in Passing,
         g.pc # "route" => g.todo = {}
  PROVE  LightStep(frame[t], g, t[1])
<1>1. LoneCall(frame[t], t[1]) BY DEF CallFacts
<1>2. LoneCall(g, t[1]) BY <1>1 DEF LoneCall, Passing
<1>3. Holds(g, t[1]) <=> Holds(frame[t], t[1]) BY DEF Holds
<1> QED BY <1>2, <1>3 DEF LightStep, Owes, Visits

LEMMA Returns ==
  ASSUME NEW t \in Task, CallFacts(t), frame[t].queue = <<>>, frame[t].pc \notin {"mark", "ready"}
  PROVE  LightStep(frame[t], IdleFrame, t[1])
<1>1. IdleFrame.pc = "idle" /\ IdleFrame.queue = <<>> /\ IdleFrame.todo = {} BY DEF IdleFrame
<1> HIDE DEF IdleFrame
<1>2. LoneCall(IdleFrame, t[1]) BY <1>1 DEF LoneCall, Passing
<1>3. ~ Holds(IdleFrame, t[1]) /\ ~ Holds(frame[t], t[1]) BY <1>1 DEF Holds
<1> QED BY <1>1, <1>2, <1>3 DEF LightStep, Owes, Visits

LEMMA PopLight ==
  ASSUME NEW t \in Task, Typed, CallFacts(t), Pop(t)
  PROVE  LightStep(frame[t], frame'[t], t[1])
<1> PICK f : f = frame[t] OBVIOUS
<1> DEFINE i == f.queue[Len(f.queue)]
           rest == SubSeq(f.queue, 1, Len(f.queue) - 1)
<1>1. /\ f \in Frame /\ LoneCall(f, t[1]) /\ f.pc = "pop" /\ f.queue # <<>>
      /\ f.queue \in Seq(Item)
  BY DEF CallFacts, Pop, At, Frame
<1>2. Len(f.queue) = 1 /\ 1 \in DOMAIN f.queue BY <1>1 DEF LoneCall
<1>3. i = f.queue[1] /\ rest = <<>> /\ i \in Item BY <1>1, <1>2
<1>4. Holds(f, i.node) BY <1>2, <1>3 DEF Holds
<1>5. i.node = t[1] BY <1>3, <1>4 DEF CallFacts, Item
<1>6. ~ IsTerminal(nodeStatus[i.node])
  BY <1>4, <1>5 DEF CallFacts, Stage, Begun, IsTerminal
<1> DEFINE h == [f EXCEPT !.pc = "mark", !.queue = rest, !.node = i.node,
                          !.out = i.out, !.failed = i.failed]
<1>7. frame'[t] = h
  <2>1. frame' = [frame EXCEPT ![t] = h] BY <1>6 DEF Pop
  <2> QED BY <2>1, FrameIs DEF CallFacts
<1>8. /\ h.pc = "mark" /\ h.queue = <<>> /\ h.node = t[1] /\ h.out = i.out
      /\ h.op = f.op /\ h.todo = f.todo
  <2> HIDE DEF i, rest
  <2> QED BY <1>1, <1>3, <1>5 DEF Frame
<1> PICK g : g = h OBVIOUS
<1> HIDE DEF h
<1>9. OneToken(i.out) BY <1>1, <1>2, <1>3 DEF LoneCall
<1>10. f.todo = {} BY <1>1 DEF LoneCall, Passing
<1>11. LoneCall(g, t[1]) BY <1>1, <1>8, <1>9, <1>10 DEF LoneCall, Passing
<1>12. Holds(g, t[1]) /\ Holds(f, t[1]) BY <1>4, <1>5, <1>8 DEF Holds
<1> QED BY <1>1, <1>7, <1>8, <1>10, <1>11, <1>12 DEF LightStep, Owes, Visits

LEMMA LogNodeLight ==
  ASSUME NEW t \in Task, Typed, edges = InitEdge, CallFacts(t), LogNode(t)
  PROVE  LightStep(frame[t], frame'[t], t[1])
<1> PICK f : f = frame[t] OBVIOUS
<1>1. f \in Frame /\ LoneCall(f, t[1]) /\ f.pc = "log" BY DEF CallFacts, LogNode, At
<1>2. f.queue = <<>> /\ f.node = t[1] /\ OneToken(f.out) /\ f.op = "advance"
  BY <1>1 DEF LoneCall, Passing
<1> PICK todo : todo = {h \in [tok : f.out, edge : Outbound(f.node)] :
                           Matches(Cond[h.edge], h.tok.color)} OBVIOUS
<1> DEFINE h == [f EXCEPT !.pc = "route", !.any = FALSE, !.hop = NoHop, !.todo = todo]
<1>3. frame'[t] = h BY FrameIs DEF LogNode, CallFacts
<1>4. /\ h.pc = "route" /\ h.queue = <<>> /\ h.node = t[1] /\ h.out = f.out
      /\ h.op = f.op /\ h.todo = todo
  BY <1>1, <1>2 DEF Frame
<1> PICK g : g = h OBVIOUS
<1> HIDE DEF h
<1>5. todo \subseteq [tok : f.out, edge : EdgesFrom(t[1])]
  BY <1>2 DEF Outbound, EdgesFrom
<1>6. LoneCall(g, t[1]) BY <1>1, <1>2, <1>4, <1>5 DEF LoneCall, Passing
<1>7. ~ Holds(g, t[1]) /\ ~ Holds(f, t[1]) BY <1>1, <1>2, <1>4 DEF Holds
<1>8. \A e \in InitEdge : Owes(g, e) => Owes(f, e)
  BY <1>1, <1>2, <1>4, <1>5 DEF Owes, EdgesFrom
<1> QED BY <1>1, <1>3, <1>4, <1>6, <1>7, <1>8 DEF LightStep, Visits

LEMMA RouteLight ==
  ASSUME NEW t \in Task, Typed, CallFacts(t), Route(t)
  PROVE  LightStep(frame[t], frame'[t], t[1])
<1> PICK f : f = frame[t] OBVIOUS
<1>1. f \in Frame /\ LoneCall(f, t[1]) /\ f.pc = "route" BY DEF CallFacts, Route, At
<1>2. f.queue = <<>> /\ f.node = t[1] /\ OneToken(f.out) /\ f.op = "advance"
  BY <1>1 DEF LoneCall, Passing
<1>3. PICK x : /\ x \in f.todo
               /\ frame' = [frame EXCEPT ![t] = [f EXCEPT !.pc = "deliver", !.hop = x,
                                     !.todo = @ \ {x}, !.seq = NextSeq(x.edge)]]
  BY DEF Route, NextHops
<1> PICK rest : rest = f.todo \ {x} OBVIOUS
<1> DEFINE h == [f EXCEPT !.pc = "deliver", !.hop = x, !.todo = @ \ {x}, !.seq = NextSeq(x.edge)]
<1>4. frame'[t] = h BY <1>3, FrameIs DEF CallFacts
<1>5. /\ h.pc = "deliver" /\ h.queue = <<>> /\ h.node = t[1] /\ h.out = f.out
      /\ h.op = f.op /\ h.todo = rest /\ h.hop = x
  BY <1>1, <1>2 DEF Frame
<1> PICK g : g = h OBVIOUS
<1> HIDE DEF h
<1>6. f.todo \subseteq [tok : f.out, edge : EdgesFrom(t[1])] BY <1>1 DEF LoneCall
<1>7. LoneCall(g, t[1]) BY <1>1, <1>2, <1>3, <1>5, <1>6 DEF LoneCall, Passing
<1>8. ~ Holds(g, t[1]) /\ ~ Holds(f, t[1]) BY <1>1, <1>2, <1>5 DEF Holds
<1>9. \A e \in InitEdge : Owes(g, e) => Owes(f, e) BY <1>1, <1>3, <1>5 DEF Owes
<1> QED BY <1>1, <1>4, <1>5, <1>7, <1>8, <1>9 DEF LightStep, Visits

LEMMA EndLight ==
  ASSUME NEW t \in Task, Typed, CallFacts(t),
         Routed(t) \/ FailGraph(t) \/ LogGraphFailed(t) \/ Finish(t)
            \/ CompleteGraph(t) \/ LogGraphDone(t) \/ NotEnabled(t)
  PROVE  LightStep(frame[t], frame'[t], t[1])
<1> PICK f : f = frame[t] OBVIOUS
<1>1. f \in Frame /\ LoneCall(f, t[1]) BY DEF CallFacts
<1>2. f.pc \notin {"idle", "ready", "mark"} /\ f.queue = <<>>
  BY <1>1 DEF Routed, FailGraph, LogGraphFailed, Finish, CompleteGraph, LogGraphDone,
              NotEnabled, At, LoneCall
<1>3. f.op = "advance" BY <1>1, <1>2 DEF LoneCall
<1>4. CASE Return(t)
  <2>1. frame'[t] = IdleFrame BY <1>4, FrameIs DEF Return, CallFacts
  <2> QED BY <1>2, <2>1, Returns
<1>5. ASSUME NEW p \in {"route", "pop", "failgraph", "failevent", "done", "doneevent"},
             frame' = [frame EXCEPT ![t] = [f EXCEPT !.pc = p]],
             p = "route" => f.pc \in Passing, p # "route" => f.todo = {}
      PROVE  LightStep(frame[t], frame'[t], t[1])
  <2> DEFINE h == [f EXCEPT !.pc = p]
  <2>1. frame'[t] = h BY <1>5, FrameIs DEF CallFacts
  <2>2. /\ h.pc = p /\ h.op = f.op /\ h.queue = f.queue /\ h.node = f.node /\ h.out = f.out
        /\ h.todo = f.todo
    BY <1>1 DEF Frame
  <2> PICK g : g = h OBVIOUS
  <2> HIDE DEF h
  <2> QED BY <1>2, <1>5, <2>1, <2>2, MovesOn
<1>6. CASE Routed(t)
  <2>1. AfterRouting(f) \in {"pop", "failgraph"} /\ f.todo = {}
    BY <1>3, <1>6 DEF Routed, AfterRouting
  <2> QED BY <1>5, <1>6, <2>1 DEF Routed, Goto
<1>7. CASE FailGraph(t) \/ CompleteGraph(t)
  <2>1. f.todo = {} BY <1>1, <1>7 DEF FailGraph, CompleteGraph, At, LoneCall, Passing
  <2> QED BY <1>5, <1>7, <2>1 DEF FailGraph, CompleteGraph, Goto
<1>8. CASE Finish(t)
  <2>1. f.todo = {} BY <1>1, <1>8 DEF Finish, At, LoneCall, Passing
  <2> QED BY <1>4, <1>5, <1>8, <2>1 DEF Finish, Goto
<1>9. CASE NotEnabled(t)
  <2>1. f.pc \in Passing /\ Resume(f) = [f EXCEPT !.pc = "route"]
    BY <1>3, <1>9 DEF NotEnabled, At, Passing, Resume
  <2> QED BY <1>5, <1>9, <2>1 DEF NotEnabled
<1> QED BY <1>4, <1>6, <1>7, <1>8, <1>9 DEF LogGraphFailed, LogGraphDone

LEMMA CheckLight ==
  ASSUME NEW t \in Task, Typed, CallFacts(t), Check(t)
  PROVE  LightStep(frame[t], frame'[t], t[1])
<1> PICK f : f = frame[t] OBVIOUS
<1>1. f \in Frame /\ LoneCall(f, t[1]) /\ f.pc = "check" BY DEF CallFacts, Check, At
<1>2. f.queue = <<>> /\ f.op = "advance" BY <1>1 DEF LoneCall
<1>3. PICK p \in {"route", "enable"} : frame' = [frame EXCEPT ![t] = [f EXCEPT !.pc = p]]
  BY <1>2 DEF Check, Resume
<1> DEFINE h == [f EXCEPT !.pc = p]
<1>4. frame'[t] = h BY <1>3, FrameIs DEF CallFacts
<1>5. /\ h.pc = p /\ h.op = f.op /\ h.queue = f.queue /\ h.node = f.node /\ h.out = f.out
      /\ h.todo = f.todo /\ h.hop = f.hop /\ h.target = f.target
  BY <1>1 DEF Frame
<1> PICK g : g = h OBVIOUS
<1> HIDE DEF h
<1>6. LoneCall(g, t[1]) BY <1>1, <1>2, <1>5 DEF LoneCall, Passing
<1> QED BY <1>1, <1>2, <1>4, <1>5, <1>6 DEF LightStep, Owes, Visits, Holds

(***************************************************************************)
(* The log, the stream and the Notify.                                     *)
(***************************************************************************)
NotifyStep == Notify \/ UNCHANGED notify
QuietLog == log' = log \/ \E e : e.type # "NodeReady" /\ log' = Append(log, e)

LEMMA NotifyStream ==
  ASSUME OrchaIInv, Awake, NotifyStep
  PROVE  /\ stream'[Runner].cursor = stream[Runner].cursor
         /\ \/ stream'[Runner].pc = stream[Runner].pc
            \/ stream[Runner].pc = "wait" /\ stream'[Runner].pc = "fetch"
<1>1. CASE UNCHANGED notify BY <1>1 DEF notify
<1>2. CASE Notify /\ stream[Runner].pc # "wait"
  <2>1. waiters = <<>> BY <1>2 DEF Awake
  <2> QED BY <1>2, <2>1 DEF Notify
<1>3. CASE Notify /\ stream[Runner].pc = "wait"
  <2>1. waiters = <<Runner>> BY <1>3 DEF Awake
  <2>2. Head(waiters) = Runner /\ waiters # <<>> BY <2>1
  <2>3. stream' = [stream EXCEPT ![Runner].pc = "fetch"] BY <1>3, <2>2 DEF Notify
  <2> QED BY <1>3, <2>3, RunnerStream DEF StreamState
<1> QED BY <1>1, <1>2, <1>3 DEF NotifyStep

LEMMA NotifyDrives ==
  ASSUME OrchaIInv, Awake, NotifyStep
  PROVE  /\ Driving' <=> Driving
         /\ stream[Runner].pc \in {"recover", "reemit"} => stream'[Runner].pc \in {"recover", "reemit"}
  BY NotifyStream DEF Driving

LEMMA UnreadStays ==
  ASSUME Typed, stream'[Runner].cursor = stream[Runner].cursor,
         log' = log \/ \E e : log' = Append(log, e), NEW n, Unread(n)
  PROVE  Unread(n)'
<1>1. PICK i \in DOMAIN log : i > stream[Runner].cursor /\ log[i] = Ev("NodeReady", n)
  BY DEF Unread
<1>2. i \in DOMAIN log' /\ log'[i] = log[i]
  <2>1. log \in Seq(Event) BY DEF Typed, TypeOK
  <2> QED BY <1>1, <2>1
<1> QED BY <1>1, <1>2 DEF Unread

LEMMA HeardStays ==
  ASSUME Typed, QuietLog, NEW n PROVE Heard(n)' <=> Heard(n)
<1>1. CASE log' = log BY <1>1 DEF Heard, Events
<1>2. ASSUME NEW e, e.type # "NodeReady", log' = Append(log, e) PROVE Heard(n)' <=> Heard(n)
  <2>1. Events' = Events \cup {e} BY <1>2, AppendAddsEvent
  <2>2. e # Ev("NodeReady", n) BY <1>2 DEF Ev
  <2> QED BY <2>1, <2>2 DEF Heard
<1> QED BY <1>1, <1>2 DEF QuietLog

LEMMA TablesOf ==
  ASSUME Typed, OrchaIInv, Awake, Lone, NotifyStep, QuietLog,
         UNCHANGED <<edges, tokens, dispatched, nodeStatus, left>>,
         graphStatus' = "pending" => graphStatus = "pending"
  PROVE  TablesKept
<1>1. stream'[Runner].cursor = stream[Runner].cursor BY NotifyStream
<1>2. \A n \in Node : Unread(n) => Unread(n)' BY <1>1, UnreadStays DEF QuietLog
<1>3. StreamKept BY <1>2, NotifyDrives DEF StreamKept
<1> QED BY <1>3, HeardStays DEF TablesKept

\* The statements of a call that change no table but the log.
LightAction(t) ==
    \/ Pop(t) \/ LogNode(t) \/ Route(t) \/ Routed(t) \/ FailGraph(t) \/ LogGraphFailed(t)
    \/ Finish(t) \/ CompleteGraph(t) \/ LogGraphDone(t) \/ Check(t) \/ NotEnabled(t)

LEMMA LightEngine ==
  ASSUME NoJoins, LoneIInv, NEW t \in Task, Engine(t), LightAction(t)
  PROVE  Lone'
<1>1. CallFacts(t) /\ Typed /\ t \in Worker BY CallIsLone, WorkerKinds
<1>2. OrchaIInv /\ Awake /\ Lone /\ edges = InitEdge BY DEF LoneIInv, RecoveryIInv, Lone
<1>3. LightStep(frame[t], frame'[t], t[1])
  BY <1>1, <1>2, PopLight, LogNodeLight, RouteLight, EndLight, CheckLight DEF LightAction
<1>4. \A u \in Worker \ {t} : frame'[u] = frame[u] BY <1>1, StepIsLocal DEF Engine
<1>5. NotifyStep /\ UNCHANGED orcha BY DEF Engine, NotifyStep
<1>6. QuietLog
  <2>1. \A x, n : x # "NodeReady" => Ev(x, n).type # "NodeReady" BY DEF Ev
  <2>2. CASE UNCHANGED log BY <2>2 DEF QuietLog
  <2>3. CASE LogNode(t) \/ LogGraphFailed(t) \/ LogGraphDone(t)
    <3>1. PICK x, n : x # "NodeReady" /\ log' = Append(log, Ev(x, n))
      BY <2>3 DEF LogNode, LogGraphFailed, LogGraphDone, Persist
    <3> QED BY <2>1, <3>1 DEF QuietLog
  <2> QED BY <2>2, <2>3 DEF LightAction, Pop, Route, Routed, FailGraph, Finish,
                            CompleteGraph, Check, NotEnabled
<1>7. /\ UNCHANGED <<edges, tokens, dispatched, nodeStatus, left, task>>
      /\ graphStatus' = "pending" => graphStatus = "pending"
  <2>1. UNCHANGED <<edges, tokens, nodeStatus>>
    BY DEF LightAction, Pop, LogNode, Route, Routed, FailGraph, LogGraphFailed, Finish,
           CompleteGraph, LogGraphDone, Check, NotEnabled, topology
  <2>2. graphStatus' = "pending" => graphStatus = "pending"
    BY DEF LightAction, Pop, LogNode, Route, Routed, FailGraph, LogGraphFailed, Finish,
           CompleteGraph, LogGraphDone, Check, NotEnabled
  <2> QED BY <1>5, <2>1, <2>2 DEF orcha
<1>8. TablesKept BY <1>1, <1>2, <1>5, <1>6, <1>7, TablesOf
<1> QED BY <1>1, <1>2, <1>3, <1>4, <1>7, <1>8, LightTask
-----------------------------------------------------------------------------
(***************************************************************************)
(* The statements of a task's call that change a status or a token.        *)
(***************************************************************************)
\* Tasks with a call or work in progress are of different nodes.
LEMMA OtherTask ==
  ASSUME OrchaIInv, NEW t \in Task, NEW u \in Task, t # u, Live(t), Live(u) PROVE u[1] # t[1]
<1>1. PICK n \in Node, k \in Copy : t = <<n, k>> BY DEF Task
<1>2. PICK m \in Node, j \in Copy : u = <<m, j>> BY DEF Task
<1> QED BY <1>1, <1>2 DEF OrchaIInv, OneTaskPerNode

LEMMA BegunIsLive ==
  ASSUME NEW t \in Task, CallFacts(t) PROVE Begun(t) => Live(t)
  BY DEF CallFacts, Begun, Live, At, Holds, LoneCall

LEMMA OwesIsOwn ==
  ASSUME NEW t \in Task, CallFacts(t), NEW e \in InitEdge, Owes(frame[t], e)
  PROVE  From[e] = t[1] /\ Live(t)
<1>1. LoneCall(frame[t], t[1]) BY DEF CallFacts
<1>2. frame[t].pc # "idle" /\ From[e] = t[1]
  BY <1>1 DEF Owes, LoneCall, Passing, EdgesFrom
<1> QED BY <1>2 DEF Live, At

\* A call that has recorded its answer.
LEMMA PastMark ==
  ASSUME NEW t \in Task, CallFacts(t), frame[t].pc \notin {"idle", "pop", "mark"}
  PROVE  Live(t) /\ ~ Begun(t) /\ task[t].pc = "none" /\ IsTerminal(nodeStatus[t[1]])
<1>1. LoneCall(frame[t], t[1]) /\ Stage(t) BY DEF CallFacts
<1>2. Live(t) /\ ~ Holds(frame[t], t[1]) BY <1>1 DEF Live, At, Holds, LoneCall
<1> QED BY <1>1, <1>2 DEF Stage, Begun, At

\* What a step of one task leaves as it was.
LEMMA OthersKept ==
  ASSUME NEW t \in Task, UNCHANGED task, \A u \in Worker \ {t} : frame'[u] = frame[u]
  PROVE  /\ t \in Worker /\ frame'[Runner] = frame[Runner]
         /\ \A u \in Task \ {t} : /\ frame'[u] = frame[u]
                                  /\ Begun(u)' <=> Begun(u)
                                  /\ Live(u)' <=> Live(u)
         /\ \A w \in Worker \ {t} : \A n : /\ Announces(w, n)' <=> Announces(w, n)
                                           /\ At(w, "ready")' <=> At(w, "ready")
  BY WorkerKinds DEF Begun, Live, At, Announces

LEMMA SameAnnouncers ==
  ASSUME NEW t \in Worker, \A u \in Worker \ {t} : frame'[u] = frame[u],
         frame[t].pc # "ready", frame'[t].pc # "ready"
  PROVE  \A m : /\ AboutToLog(m)' <=> AboutToLog(m)
                /\ \A w \in Worker : Announces(w, m)' <=> Announces(w, m)
<1>1. \A w \in Worker : At(w, "ready")' <=> At(w, "ready") BY DEF At
<1>2. \A w \in Worker : At(w, "ready") => frame'[w] = frame[w] BY DEF At
<1> QED BY <1>1, <1>2 DEF AboutToLog, Announces

\* What every such step has in common.
TaskStep(t) ==
    /\ CallFacts(t) /\ Typed /\ OrchaIInv /\ Awake /\ Lone
    /\ UNCHANGED <<task, dispatched, left, edges>>
    /\ \A u \in Worker \ {t} : frame'[u] = frame[u]
    /\ NotifyStep

LEMMA EngineOfTask ==
  ASSUME NoJoins, LoneIInv, NEW t \in Task, Engine(t)
  PROVE  TaskStep(t)
<1>1. CallFacts(t) /\ Typed /\ t \in Worker BY CallIsLone, WorkerKinds
<1>2. OrchaIInv /\ Awake /\ Lone BY DEF LoneIInv, RecoveryIInv
<1>3. \A u \in Worker \ {t} : frame'[u] = frame[u] BY <1>1, StepIsLocal DEF Engine
<1>4. NotifyStep /\ UNCHANGED <<task, dispatched, left>> BY DEF Engine, NotifyStep, orcha
<1>5. UNCHANGED edges
  BY DEF Engine, Step, ReadRoots, Seed, Seeded, Pop, Mark, LogNode, Route, Deliver, Routed,
         FailGraph, LogGraphFailed, Finish, CompleteGraph, LogGraphDone, Check,
         NotEnabled, EnableTask, EnableGather, LogReady, topology
<1> QED BY <1>1, <1>2, <1>3, <1>4, <1>5 DEF TaskStep

LEMMA MarkLone ==
  ASSUME NoJoins, LoneIInv, NEW t \in Task, Engine(t), Mark(t)
  PROVE  Lone'
<1> PICK f : f = frame[t] OBVIOUS
<1> PICK n : n = t[1] OBVIOUS
<1>1. TaskStep(t) /\ CallFacts(t) /\ Typed BY EngineOfTask DEF TaskStep
<1>2. /\ f \in Frame /\ LoneCall(f, n) /\ Stage(t) /\ f.pc = "mark" /\ n \in Node
  BY <1>1 DEF CallFacts, Mark, At
<1>3. f.node = n /\ f.todo = {} /\ f.queue = <<>> /\ f.op = "advance" /\ OneToken(f.out)
  <2>1. f.node \in Node BY <1>1, <1>2, CallFrame, FrameFields DEF CallFacts, TypedFrame
  <2>2. Holds(f, f.node) BY <1>2 DEF Holds
  <2>3. f.node = n BY <1>1, <2>1, <2>2 DEF CallFacts
  <2> QED BY <1>2, <2>3 DEF LoneCall, Passing
<1>4. nodeStatus[n] \in {"ready", "running"} /\ task[t].pc = "none"
  BY <1>2, <1>3 DEF Stage, Begun, Holds, At
<1> DEFINE h == [f EXCEPT !.pc = "log"]
<1>5. frame'[t] = h BY <1>1, FrameIs DEF Mark, Goto, CallFacts
<1>6. /\ h.pc = "log" /\ h.node = n /\ h.queue = <<>> /\ h.op = "advance" /\ h.todo = {}
      /\ h.out = f.out
  BY <1>2, <1>3 DEF Frame
<1> PICK g : g = h OBVIOUS
<1> HIDE DEF h
<1>7. /\ UNCHANGED <<edges, tokens, graphStatus, log, task, dispatched, left>>
      /\ IsTerminal(nodeStatus'[n])
      /\ \A m \in Node \ {n} : nodeStatus'[m] = nodeStatus[m]
  BY <1>1, <1>2, <1>3 DEF TaskStep, Mark, SetNode, Typed, TypeOK, IsTerminal
<1>8. /\ \A m : Inbound(m)' = Inbound(m)
      /\ \A e : HasToken(e)' <=> HasToken(e)
      /\ \A m : Heard(m)' <=> Heard(m)
  BY <1>7, QueriesKept DEF Heard, Events
<1>9. /\ t \in Worker /\ frame'[Runner] = frame[Runner]
      /\ \A u \in Task \ {t} : /\ frame'[u] = frame[u]
                               /\ Begun(u)' <=> Begun(u)
                               /\ Live(u)' <=> Live(u)
      /\ \A w \in Worker \ {t} : \A m : /\ Announces(w, m)' <=> Announces(w, m)
                                        /\ At(w, "ready")' <=> At(w, "ready")
  BY <1>1, OthersKept DEF TaskStep
<1>10. LoneCall(g, n) BY <1>3, <1>6 DEF LoneCall, Passing
<1>11. ~ Begun(t)' /\ Live(t)' /\ Live(t)
  BY <1>2, <1>4, <1>5, <1>6, <1>7 DEF Begun, Holds, Live, At
<1>12. Lone /\ \A u \in Task : CallFacts(u) BY <1>1, CallIsLone DEF TaskStep
<1>13. \A u \in Task \ {t} : Live(u) => u[1] # n
  BY <1>1, <1>11, OtherTask DEF TaskStep
<1>14. \A u \in Task : LoneCall(frame'[u], u[1]) /\ Stage(u)'
  <2>1. Stage(t)' BY <1>4, <1>7, <1>11 DEF Stage
  <2>2. ASSUME NEW u \in Task \ {t} PROVE LoneCall(frame'[u], u[1]) /\ Stage(u)'
    <3>1. LoneCall(frame[u], u[1]) /\ Stage(u) /\ u[1] \in Node BY <1>12 DEF CallFacts
    <3>2. CASE Live(u) BY <1>7, <1>9, <1>13, <3>1, <3>2 DEF Stage, At
    <3>3. CASE ~ Live(u)
      <4>1. ~ Begun(u) /\ task[u].pc = "none" BY <1>12, <3>3, BegunIsLive DEF Live
      <4> QED BY <1>7, <1>9, <3>1, <3>3, <4>1 DEF Stage
    <3> QED BY <3>2, <3>3
  <2> QED BY <1>5, <1>10, <2>1, <2>2
<1>15. Seeding'
  <2>1. frame[Runner].roots \subseteq Node BY <1>1, NodesOfCalls, WorkerKinds
  <2>2. stream[Runner].pc \in {"recover", "reemit"} => stream'[Runner].pc \in {"recover", "reemit"}
    BY <1>1, NotifyDrives DEF TaskStep
  <2> QED BY <1>2, <1>4, <1>7, <1>8, <1>9, <1>12, <2>1, <2>2 DEF Lone, Seeding
<1>16. OnTheWay'
  <2>1. \A e \in InitEdge : HasToken(e)' => IsTerminal(nodeStatus'[From[e]])
    BY <1>1, <1>7, <1>8, <1>12, NodesOfCalls DEF Lone, OnTheWay
  <2>2. \A e \in InitEdge : Owes(g, e) => ~ HasToken(e)
    BY <1>4, <1>6, <1>12 DEF Lone, OnTheWay, Owes, IsTerminal
  <2>3. \A u \in Task : \A e \in InitEdge : Owes(frame'[u], e) => ~ HasToken(e)'
    BY <1>5, <1>8, <1>9, <1>12, <2>2 DEF Lone, OnTheWay
  <2>4. \A m \in Node : \A e \in Inbound(m)' : nodeStatus'[m] # "pending" => HasToken(e)'
    BY <1>4, <1>7, <1>8, <1>12 DEF Lone, OnTheWay
  <2>5. ASSUME NEW u \in Task, Visits(frame'[u])
        PROVE  (/\ HasToken(frame[u].hop.edge)
                /\ Inbound(frame[u].target) = {} \/ nodeStatus[frame[u].target] = "pending")'
    <3>1. u # t BY <1>5, <1>6, <2>5 DEF Visits
    <3>2. Visits(frame[u]) /\ frame'[u] = frame[u] BY <1>9, <2>5, <3>1
    <3>3. frame[u].target \in Node BY <1>1, <3>2, NodesOfCalls, WorkerKinds
    <3> QED BY <1>4, <1>7, <1>8, <1>12, <3>2, <3>3 DEF Lone, OnTheWay
  <2> QED BY <2>1, <2>3, <2>4, <2>5 DEF OnTheWay
<1>17. \A m : /\ AboutToLog(m)' <=> AboutToLog(m)
              /\ \A w \in Worker : Announces(w, m)' <=> Announces(w, m)
  BY <1>1, <1>2, <1>5, <1>6, <1>9, SameAnnouncers DEF TaskStep
<1>19. AnnouncedOnce'
  <2>1. \A m \in Node : Announced(m)' <=> Announced(m)
    BY <1>8, <1>17 DEF Announced, Heard
  <2>2. \A m \in Node : nodeStatus'[m] # "pending" <=> nodeStatus[m] # "pending"
    BY <1>4, <1>7 DEF IsTerminal
  <2>3. \A m \in Node : nodeStatus'[m] \in {"ready", "running"} =>
           nodeStatus[m] \in {"ready", "running"}
    BY <1>4, <1>7 DEF IsTerminal
  <2> QED BY <1>7, <1>8, <1>12, <1>17, <2>1, <2>2, <2>3 DEF Lone, AnnouncedOnce
<1>20. InGoodHands'
  <2> SUFFICES ASSUME Driving', NEW m \in Node, nodeStatus'[m] \in {"ready", "running"}
               PROVE  InHand(m)'
    BY DEF InGoodHands
  <2>1. m # n /\ nodeStatus[m] \in {"ready", "running"} BY <1>7 DEF IsTerminal
  <2>2. InHand(m) BY <1>1, <1>12, <2>1, NotifyDrives DEF Lone, InGoodHands, TaskStep
  <2>3. \A k \in Copy : Live(<<m, k>>) => Live(<<m, k>>)'
    BY <1>9, <1>11 DEF Task
  <2>4. Unread(m) => Unread(m)'
    BY <1>1, <1>7, NotifyStream, UnreadStays DEF TaskStep
  <2> QED BY <1>7, <1>17, <2>2, <2>3, <2>4 DEF InHand
<1> QED BY <1>1, <1>7, <1>12, <1>14, <1>15, <1>16, <1>19, <1>20 DEF Lone, TaskStep

LEMMA SelfLoop ==
  ASSUME NoJoins, edges = InitEdge, NEW e \in InitEdge
  PROVE  e \in Inbound(To[e]) \/ Inbound(To[e]) = {}
  BY DEF NoJoins, Inbound

LEMMA DeliverLone ==
  ASSUME NoJoins, LoneIInv, NEW t \in Task, Engine(t), Deliver(t)
  PROVE  Lone'
<1> PICK f : f = frame[t] OBVIOUS
<1> PICK n : n = t[1] OBVIOUS
<1> PICK e : e = f.hop.edge OBVIOUS
<1>1. TaskStep(t) /\ CallFacts(t) /\ Typed BY EngineOfTask DEF TaskStep
<1>2. f \in Frame /\ LoneCall(f, n) /\ f.pc = "deliver" /\ n \in Node
  BY <1>1 DEF CallFacts, Deliver, At
<1>3. /\ f.node = n /\ f.queue = <<>> /\ f.op = "advance"
      /\ f.hop \in [tok : f.out, edge : EdgesFrom(n)] /\ f.hop \notin f.todo
      /\ f.todo \subseteq [tok : f.out, edge : EdgesFrom(n)] /\ OneToken(f.out)
  BY <1>2 DEF LoneCall, Passing
<1>4. e \in InitEdge /\ From[e] = n BY <1>3 DEF EdgesFrom
<1>5. Live(t) /\ ~ Begun(t) /\ task[t].pc = "none" /\ IsTerminal(nodeStatus[n])
  BY <1>1, <1>2, PastMark
<1>6. Lone /\ edges = InitEdge /\ \A u \in Task : CallFacts(u)
  BY <1>1, CallIsLone DEF TaskStep, Lone
<1>7. ~ HasToken(e) BY <1>2, <1>4, <1>6 DEF Lone, OnTheWay, Owes
<1> DEFINE r == [edge |-> e, seq |-> f.seq, color |-> f.hop.tok.color]
           h == [f EXCEPT !.any = TRUE, !.target = To[e], !.pc = "check"]
<1>8. tokens' = tokens \cup {r} /\ frame'[t] = h
  <2>1. ~ \E q \in tokens : q.edge = e /\ q.seq = f.seq BY <1>7 DEF HasToken
  <2>2. tokens' = tokens \cup {r} /\ frame' = [frame EXCEPT ![t] = h]
    BY <1>3, <2>1 DEF Deliver
  <2> HIDE DEF h, r
  <2> QED BY <1>1, <2>2, FrameIs DEF CallFacts
<1>9. /\ h.pc = "check" /\ h.node = n /\ h.queue = <<>> /\ h.op = "advance" /\ h.todo = f.todo
      /\ h.out = f.out /\ h.hop = f.hop /\ h.target = To[e]
  BY <1>2, <1>3 DEF Frame
<1> PICK g : g = h OBVIOUS
<1> HIDE DEF h
<1>10. /\ UNCHANGED <<edges, nodeStatus, graphStatus, log, task, dispatched, left>>
  BY <1>1 DEF TaskStep, Deliver
<1>11. /\ \A m : Inbound(m)' = Inbound(m)
       /\ \A d : HasToken(d)' <=> HasToken(d) \/ d = e
       /\ \A m : Heard(m)' <=> Heard(m)
  <2>1. r.edge = e OBVIOUS
  <2> HIDE DEF r
  <2> QED BY <1>8, <1>10, <2>1 DEF Heard, Events, Inbound, HasToken
<1>12. /\ t \in Worker /\ frame'[Runner] = frame[Runner]
       /\ \A u \in Task \ {t} : /\ frame'[u] = frame[u]
                                /\ Begun(u)' <=> Begun(u)
                                /\ Live(u)' <=> Live(u)
  BY <1>1, OthersKept DEF TaskStep
<1>13. LoneCall(g, n)
  BY <1>2, <1>3, <1>9 DEF LoneCall, Passing
<1>14. ~ Begun(t)' /\ Live(t)'
  BY <1>5, <1>8, <1>9, <1>10 DEF Begun, Holds, Live, At
<1>15. \A u \in Task : LoneCall(frame'[u], u[1]) /\ Stage(u)'
  <2>1. Stage(t)' BY <1>5, <1>10, <1>14 DEF Stage
  <2>2. \A u \in Task \ {t} : LoneCall(frame'[u], u[1]) /\ Stage(u)'
    BY <1>6, <1>10, <1>12 DEF CallFacts, Stage, At
  <2> QED BY <1>8, <1>13, <2>1, <2>2
<1>16. Seeding'
  <2>1. stream[Runner].pc \in {"recover", "reemit"} => stream'[Runner].pc \in {"recover", "reemit"}
    BY <1>1, NotifyDrives DEF TaskStep
  <2> QED BY <1>6, <1>10, <1>11, <1>12, <2>1 DEF Lone, Seeding
<1>17. OnTheWay'
  <2>1. \A d \in InitEdge : HasToken(d)' => IsTerminal(nodeStatus'[From[d]])
    BY <1>4, <1>5, <1>6, <1>10, <1>11 DEF Lone, OnTheWay
  <2>2. \A d \in InitEdge : Owes(g, d) => Owes(f, d) /\ d # e
    <3>1. \A x \in f.todo : x.edge # e
      <4>1. ASSUME NEW x \in f.todo, x.edge = e PROVE x = f.hop
        BY <1>3, <4>1 DEF OneToken
      <4> QED BY <1>3, <4>1
    <3> QED BY <1>9, <3>1 DEF Owes
  <2>3. ASSUME NEW u \in Task, NEW d \in InitEdge, Owes(frame'[u], d) PROVE ~ HasToken(d)'
    <3>1. CASE u = t BY <1>6, <1>8, <1>11, <2>2, <2>3, <3>1 DEF Lone, OnTheWay
    <3>2. CASE u # t
      <4>1. Owes(frame[u], d) BY <1>12, <2>3, <3>2
      <4>2. From[d] = u[1] /\ Live(u) BY <1>6, <4>1, OwesIsOwn
      <4>3. d # e BY <1>1, <1>4, <1>5, <3>2, <4>2, OtherTask DEF TaskStep
      <4> QED BY <1>6, <1>11, <4>1, <4>3 DEF Lone, OnTheWay
    <3> QED BY <3>1, <3>2
  <2>4. \A m \in Node : \A d \in Inbound(m)' : nodeStatus'[m] # "pending" => HasToken(d)'
    BY <1>6, <1>10, <1>11 DEF Lone, OnTheWay
  <2>5. Inbound(To[e]) = {} \/ nodeStatus[To[e]] = "pending"
    BY <1>1, <1>4, <1>6, <1>7, SelfLoop, NodesOfCalls DEF Lone, OnTheWay
  <2>6. ASSUME NEW u \in Task, Visits(frame'[u])
        PROVE  (/\ HasToken(frame[u].hop.edge)
                /\ Inbound(frame[u].target) = {} \/ nodeStatus[frame[u].target] = "pending")'
    <3>1. CASE u = t BY <1>8, <1>9, <1>10, <1>11, <2>5, <3>1
    <3>2. CASE u # t BY <1>6, <1>10, <1>11, <1>12, <2>6, <3>2 DEF Lone, OnTheWay
    <3> QED BY <3>1, <3>2
  <2> QED BY <2>1, <2>3, <2>4, <2>6 DEF OnTheWay
<1>18. \A m : /\ AboutToLog(m)' <=> AboutToLog(m)
              /\ \A w \in Worker : Announces(w, m)' <=> Announces(w, m)
  BY <1>1, <1>2, <1>8, <1>9, <1>12, SameAnnouncers DEF TaskStep
<1>19. AnnouncedOnce'
  <2>1. \A m \in Node : Announced(m)' <=> Announced(m)
    BY <1>11, <1>18 DEF Announced, Heard
  <2> QED BY <1>6, <1>10, <1>11, <1>18, <2>1 DEF Lone, AnnouncedOnce
<1>20. InGoodHands'
  <2> SUFFICES ASSUME Driving', NEW m \in Node, nodeStatus[m] \in {"ready", "running"}
               PROVE  InHand(m)'
    BY <1>10 DEF InGoodHands
  <2>1. InHand(m) BY <1>1, <1>6, NotifyDrives DEF Lone, InGoodHands, TaskStep
  <2>2. \A k \in Copy : Live(<<m, k>>) => Live(<<m, k>>)'
    BY <1>12, <1>14 DEF Task
  <2>3. Unread(m) => Unread(m)'
    BY <1>1, <1>10, NotifyStream, UnreadStays DEF TaskStep
  <2> QED BY <1>10, <1>18, <2>1, <2>2, <2>3 DEF InHand
<1> QED BY <1>6, <1>10, <1>15, <1>16, <1>17, <1>19, <1>20 DEF Lone

\* Two tasks that are passing a token on are not about the same target.
LEMMA OneVisitor ==
  ASSUME NoJoins, OrchaIInv, NEW t \in Task, NEW u \in Task, CallFacts(t), CallFacts(u), t # u,
         frame[t].pc \in {"check", "enable", "ready"}, frame[u].pc \in {"check", "enable", "ready"}
  PROVE  frame[u].target # frame[t].target
<1>1. ASSUME NEW v \in {t, u}
      PROVE  /\ frame[v].hop.edge \in InitEdge /\ From[frame[v].hop.edge] = v[1]
             /\ frame[v].target = To[frame[v].hop.edge] /\ Live(v)
  BY <1>1 DEF CallFacts, LoneCall, Passing, EdgesFrom, Live, At
<1>2. u[1] # t[1] BY <1>1, OtherTask
<1> QED BY <1>1, <1>2 DEF NoJoins

LEMMA EnableLone ==
  ASSUME NoJoins, LoneIInv, NEW t \in Task, Engine(t), EnableTask(t)
  PROVE  Lone'
<1> PICK f : f = frame[t] OBVIOUS
<1> PICK n : n = f.target OBVIOUS
<1>1. TaskStep(t) /\ CallFacts(t) /\ Typed BY EngineOfTask DEF TaskStep
<1>2. f \in Frame /\ LoneCall(f, t[1]) /\ f.pc = "enable"
  BY <1>1 DEF CallFacts, EnableTask, At
<1>3. /\ f.queue = <<>> /\ f.op = "advance" /\ f.node = t[1]
      /\ f.hop \in [tok : f.out, edge : EdgesFrom(t[1])] /\ n = To[f.hop.edge]
  BY <1>2 DEF LoneCall, Passing
<1>4. Live(t) /\ ~ Begun(t) /\ task[t].pc = "none" /\ IsTerminal(nodeStatus[t[1]])
  BY <1>1, <1>2, PastMark
<1>5. Lone /\ edges = InitEdge /\ \A u \in Task : CallFacts(u) /\ u \in Worker /\ u[1] \in Node
  BY <1>1, CallIsLone, WorkerKinds DEF TaskStep, Lone
<1>6. n \in Node /\ Inbound(n) # {} /\ \A e \in Inbound(n) : HasToken(e)
  <2>1. Visits(f) BY <1>2 DEF Visits
  <2> QED BY <1>1, <1>5, <2>1, NodesOfCalls DEF EnableTask, Enabled
<1>7. nodeStatus[n] = "pending" BY <1>2, <1>5, <1>6 DEF Lone, OnTheWay, Visits
<1>8. ~ Announced(n) /\ n \notin dispatched /\ ~ Heard(n) /\ ~ AboutToLog(n)
  BY <1>5, <1>6, <1>7 DEF Lone, AnnouncedOnce, Announced, Heard
<1> DEFINE h == [f EXCEPT !.pc = "ready"]
<1>9. frame'[t] = h BY <1>1, FrameIs DEF EnableTask, Goto, CallFacts
<1>10. /\ h.pc = "ready" /\ h.node = f.node /\ h.queue = <<>> /\ h.op = "advance" /\ h.todo = f.todo
       /\ h.out = f.out /\ h.hop = f.hop /\ h.target = n
  BY <1>2, <1>3 DEF Frame
<1> PICK g : g = h OBVIOUS
<1> HIDE DEF h
<1>11. /\ UNCHANGED <<edges, tokens, graphStatus, log, task, dispatched, left>>
       /\ nodeStatus'[n] = "ready"
       /\ \A m \in Node \ {n} : nodeStatus'[m] = nodeStatus[m]
  BY <1>1, <1>6 DEF TaskStep, EnableTask, SetNode, Typed, TypeOK
<1>12. /\ \A m : Inbound(m)' = Inbound(m)
       /\ \A d : HasToken(d)' <=> HasToken(d)
       /\ \A m : Heard(m)' <=> Heard(m)
  BY <1>11, QueriesKept DEF Heard, Events
<1>13. /\ t \in Worker /\ frame'[Runner] = frame[Runner]
       /\ \A u \in Task \ {t} : /\ frame'[u] = frame[u]
                                /\ Begun(u)' <=> Begun(u)
                                /\ Live(u)' <=> Live(u)
       /\ \A w \in Worker \ {t} : \A m : /\ Announces(w, m)' <=> Announces(w, m)
                                         /\ At(w, "ready")' <=> At(w, "ready")
  BY <1>1, OthersKept DEF TaskStep
<1>14. ~ Begun(t)' /\ Live(t)'
  BY <1>4, <1>9, <1>10, <1>11 DEF Begun, Holds, Live, At
<1>15. \A u \in Task : LoneCall(frame'[u], u[1]) /\ Stage(u)'
  <2>1. LoneCall(g, t[1]) BY <1>2, <1>3, <1>10 DEF LoneCall, Passing
  <2>2. t[1] # n BY <1>4, <1>7 DEF IsTerminal
  <2>3. Stage(t)' BY <1>4, <1>5, <1>11, <1>14, <2>2 DEF Stage
  <2>4. ASSUME NEW u \in Task \ {t} PROVE LoneCall(frame'[u], u[1]) /\ Stage(u)'
    <3>1. LoneCall(frame[u], u[1]) /\ Stage(u) /\ CallFacts(u) BY <1>5 DEF CallFacts
    <3>2. CASE u[1] # n BY <1>5, <1>11, <1>13, <3>1, <3>2 DEF Stage, At
    <3>3. CASE u[1] = n
      <4>1. ~ Begun(u) /\ ~ Live(u) BY <1>7, <3>1, <3>3 DEF Stage, IsTerminal
      <4>2. task[u].pc = "none" BY <4>1 DEF Live
      <4> QED BY <1>11, <1>13, <3>1, <4>1, <4>2 DEF Stage
    <3> QED BY <3>2, <3>3
  <2> QED BY <1>9, <2>1, <2>3, <2>4
<1>16. Seeding'
  <2>1. stream[Runner].pc \in {"recover", "reemit"} => stream'[Runner].pc \in {"recover", "reemit"}
    BY <1>1, NotifyDrives DEF TaskStep
  <2>2. frame[Runner].roots \subseteq Node BY <1>1, NodesOfCalls, WorkerKinds
  <2>3. n \notin frame[Runner].roots BY <1>5, <1>6 DEF Lone, Seeding
  <2>4. frame[Runner].pc # "roots" /\ graphStatus # "pending"
    BY <1>4, <1>5 DEF Lone, Seeding, IsTerminal
  <2> QED BY <1>5, <1>11, <1>12, <1>13, <2>1, <2>2, <2>3, <2>4 DEF Lone, Seeding
<1>17. OnTheWay'
  <2>1. \A d \in InitEdge : HasToken(d)' => IsTerminal(nodeStatus'[From[d]])
    BY <1>1, <1>5, <1>7, <1>11, <1>12, NodesOfCalls DEF Lone, OnTheWay, IsTerminal
  <2>2. \A d \in InitEdge : Owes(g, d) => Owes(f, d) BY <1>10 DEF Owes
  <2>3. \A u \in Task : \A d \in InitEdge : Owes(frame'[u], d) => ~ HasToken(d)'
    BY <1>5, <1>9, <1>12, <1>13, <2>2 DEF Lone, OnTheWay
  <2>4. \A m \in Node : \A d \in Inbound(m)' : nodeStatus'[m] # "pending" => HasToken(d)'
    BY <1>5, <1>6, <1>11, <1>12 DEF Lone, OnTheWay
  <2>5. ASSUME NEW u \in Task, Visits(frame'[u])
        PROVE  (/\ HasToken(frame[u].hop.edge)
                /\ Inbound(frame[u].target) = {} \/ nodeStatus[frame[u].target] = "pending")'
    <3>1. u # t BY <1>9, <1>10, <2>5 DEF Visits
    <3>2. Visits(frame[u]) /\ frame'[u] = frame[u] BY <1>13, <2>5, <3>1
    <3>3. frame[u].target # n BY <1>1, <1>2, <1>5, <3>1, <3>2, OneVisitor DEF TaskStep, Visits
    <3>4. frame[u].target \in Node BY <1>1, <3>2, NodesOfCalls, WorkerKinds
    <3> QED BY <1>5, <1>11, <1>12, <3>2, <3>3, <3>4 DEF Lone, OnTheWay
  <2> QED BY <2>1, <2>3, <2>4, <2>5 DEF OnTheWay
<1>18. /\ \A m : AboutToLog(m) => AboutToLog(m)'
       /\ \A m : AboutToLog(m)' => AboutToLog(m) \/ m = n
       /\ AboutToLog(n)'
  <2>1. \A w \in Worker \ {t} : frame'[w] = frame[w] BY <1>1 DEF TaskStep
  <2> QED BY <1>2, <1>9, <1>10, <1>13, <2>1 DEF AboutToLog, At
<1>19. /\ Announces(t, n)' /\ \A m : Announces(t, m)' => m = n
       /\ \A m : ~ Announces(t, m)
  BY <1>2, <1>9, <1>10 DEF Announces, At
<1>20. AnnouncedOnce'
  <2>1. \A m \in Node : Announced(m)' => Announced(m) \/ m = n
    BY <1>12, <1>18 DEF Announced, Heard
  <2>2. \A m \in Node : (Announced(m) \/ m \in dispatched \/ m \in left)' => nodeStatus'[m] # "pending"
    BY <1>5, <1>11, <2>1 DEF Lone, AnnouncedOnce
  <2>3. \A w \in Worker : \A m \in Node : Announces(w, m)' =>
          (/\ nodeStatus[m] # "pending" /\ ~ Heard(m) /\ m \notin dispatched
           /\ w \in Task => Inbound(m) # {})'
    <3>1. (/\ nodeStatus[n] # "pending" /\ ~ Heard(n) /\ n \notin dispatched
           /\ t \in Task => Inbound(n) # {})'
      BY <1>6, <1>8, <1>11, <1>12
    <3>2. ASSUME NEW w \in Worker \ {t}, NEW m \in Node, Announces(w, m)'
          PROVE  (/\ nodeStatus[m] # "pending" /\ ~ Heard(m) /\ m \notin dispatched
                  /\ w \in Task => Inbound(m) # {})'
      BY <1>5, <1>11, <1>12, <1>13, <3>2 DEF Lone, AnnouncedOnce
    <3> QED BY <1>19, <3>1, <3>2
  <2>4. \A m \in Node : nodeStatus'[m] \in {"ready", "running"} =>
          Heard(m)' \/ \E w \in Worker : Announces(w, m)'
    <3>1. ASSUME NEW m \in Node \ {n}, nodeStatus'[m] \in {"ready", "running"}
          PROVE  Heard(m)' \/ \E w \in Worker : Announces(w, m)'
      <4>1. Heard(m) \/ \E w \in Worker : Announces(w, m)
        BY <1>5, <1>11, <3>1 DEF Lone, AnnouncedOnce
      <4> QED BY <1>12, <1>13, <1>19, <4>1
    <3> QED BY <1>13, <1>19, <3>1
  <2> QED BY <2>2, <2>3, <2>4 DEF AnnouncedOnce
<1>21. InGoodHands'
  <2> SUFFICES ASSUME Driving', NEW m \in Node, nodeStatus'[m] \in {"ready", "running"}
               PROVE  InHand(m)'
    BY DEF InGoodHands
  <2>1. CASE m = n BY <1>18, <2>1 DEF InHand
  <2>2. CASE m # n
    <3>1. InHand(m) BY <1>1, <1>5, <1>11, <2>2, NotifyDrives DEF Lone, InGoodHands, TaskStep
    <3>2. \A k \in Copy : Live(<<m, k>>) => Live(<<m, k>>)'
      BY <1>13, <1>14 DEF Task
    <3>3. Unread(m) => Unread(m)'
      BY <1>1, <1>11, NotifyStream, UnreadStays DEF TaskStep
    <3> QED BY <1>11, <1>18, <3>1, <3>2, <3>3 DEF InHand
  <2> QED BY <2>1, <2>2
<1> QED BY <1>5, <1>11, <1>15, <1>16, <1>17, <1>20, <1>21 DEF Lone

\* No two calls are about to announce one node.
LEMMA OneAnnouncer ==
  ASSUME NoJoins, LoneIInv, NEW w \in Worker, NEW u \in Worker, u # w,
         frame[w].pc = "ready", Announces(u, frame[w].target)
  PROVE  FALSE
<1> PICK n : n = frame[w].target OBVIOUS
<1>1. /\ OrchaIInv /\ Typed /\ Lone /\ \A t \in Task : CallFacts(t)
      /\ Worker = {Runner} \cup Task
  <2>1. OrchaIInv /\ Lone BY DEF LoneIInv, RecoveryIInv
  <2>2. Typed BY <2>1, TypeParts DEF Parts
  <2> QED BY <2>1, <2>2, CallIsLone, RunnerAssumption
<1>2. n \in Node BY <1>1, CallFrame, FrameFields DEF TypedFrame
<1>3. \A t \in Task : frame[t].pc = "ready" =>
         frame[t].op = "advance" /\ Inbound(frame[t].target) # {} /\ Live(t)
  <2> SUFFICES ASSUME NEW t \in Task, frame[t].pc = "ready"
               PROVE  frame[t].op = "advance" /\ Inbound(frame[t].target) # {} /\ Live(t)
    OBVIOUS
  <2>1. t \in Worker /\ frame[t].op = "advance" /\ Live(t)
    BY <1>1 DEF CallFacts, LoneCall, Live, At
  <2>2. frame[t].target \in Node BY <1>1, <2>1, CallFrame, FrameFields DEF TypedFrame
  <2>3. Announces(t, frame[t].target) BY <2>1 DEF Announces, At
  <2> QED BY <1>1, <2>1, <2>2, <2>3 DEF Lone, AnnouncedOnce
<1>4. CASE w \in Task /\ u \in Task
  BY <1>1, <1>4, OneVisitor DEF Announces, At
<1>5. CASE u = Runner
  BY <1>1, <1>3, <1>5 DEF Lone, Seeding, Announces, At
<1>6. CASE w = Runner
  <2>1. u \in Task /\ Live(u) /\ Inbound(n) # {} BY <1>1, <1>3, <1>6 DEF Announces, At
  <2>2. frame[w].op = "node" BY <1>1, <1>6, <2>1 DEF Lone, Seeding
  <2>3. stream[Runner].pc \in {"recover", "reemit"} BY <1>1, <1>6, <2>2 DEF Lone, Seeding
  <2> QED BY <1>1, <2>1, <2>3 DEF OrchaIInv, Detached
<1> QED BY <1>1, <1>4, <1>5, <1>6

LEMMA AppendIsUnread ==
  ASSUME OrchaIInv, Awake, NEW n, log' = Append(log, Ev("NodeReady", n)),
         stream'[Runner].cursor = stream[Runner].cursor
  PROVE  Unread(n)'
<1>1. log \in Seq(Event) BY DEF OrchaIInv, OrchaTyped, Typed, TypeOK
<1>2. /\ Len(log) + 1 \in DOMAIN log' /\ log'[Len(log) + 1] = Ev("NodeReady", n)
      /\ Len(log) \in Nat
  BY <1>1
<1>3. Len(log) + 1 > stream[Runner].cursor
  <2>1. stream[Runner].cursor \in Nat /\ stream[Runner].upto \in Nat
    BY RunnerStream DEF StreamState
  <2> QED BY <1>2, <2>1 DEF Awake
<1> QED BY <1>2, <1>3 DEF Unread

LEMMA AnnounceLone ==
  ASSUME NoJoins, LoneIInv, NEW w \in Worker, Engine(w), LogReady(w)
  PROVE  Lone'
<1> PICK f : f = frame[w] OBVIOUS
<1> PICK n : n = f.target OBVIOUS
<1> PICK g : g = Resume(f) OBVIOUS
<1>1. OrchaIInv /\ Awake /\ Lone /\ edges = InitEdge BY DEF LoneIInv, RecoveryIInv, Lone
<1>2. Typed /\ (\A u \in Task : CallFacts(u)) /\ NotifyStep /\ Worker = {Runner} \cup Task
  BY <1>1, TypeParts, CallIsLone, RunnerAssumption DEF Parts, Engine, NotifyStep
<1>3. f \in Frame /\ f.pc = "ready" /\ n \in Node
  BY <1>2, CallFrame, FrameFields DEF LogReady, At, TypedFrame
<1>4. frame'[w] = g /\ \A u \in Worker \ {w} : frame'[u] = frame[u]
  BY <1>2, FrameIs, StepIsLocal DEF LogReady, Engine
<1>5. UNCHANGED <<edges, tokens, nodeStatus, graphStatus, task, dispatched, left>>
  BY DEF Engine, orcha, LogReady, topology
<1>6. log' = Append(log, Ev("NodeReady", n)) BY DEF LogReady, Persist
<1>7. /\ \A m : Inbound(m)' = Inbound(m)
      /\ \A d : HasToken(d)' <=> HasToken(d)
      /\ \A m : Heard(m)' <=> Heard(m) \/ m = n
  <2>1. Events' = Events \cup {Ev("NodeReady", n)} BY <1>2, <1>6, AppendAddsEvent
  <2>2. \A m : Ev("NodeReady", m) = Ev("NodeReady", n) <=> m = n BY DEF Ev
  <2> QED BY <1>5, <2>1, <2>2, QueriesKept DEF Heard
<1>8. /\ stream'[Runner].cursor = stream[Runner].cursor
      /\ Driving' => Driving
      /\ stream[Runner].pc \in {"recover", "reemit"} => stream'[Runner].pc \in {"recover", "reemit"}
  BY <1>1, <1>2, NotifyStream, NotifyDrives
<1>9. g.pc # "ready" /\ g.todo \subseteq f.todo
  BY <1>3 DEF Resume, Frame, IdleFrame
<1>10. \A u \in Task : LoneCall(frame'[u], u[1]) /\ Stage(u)' /\ (Live(u)' <=> Live(u))
  <2>1. ASSUME NEW u \in Task, u # w
        PROVE  LoneCall(frame'[u], u[1]) /\ Stage(u)' /\ (Live(u)' <=> Live(u))
    <3>1. frame'[u] = frame[u] /\ LoneCall(frame[u], u[1]) /\ Stage(u)
      BY <1>2, <1>4, <2>1 DEF CallFacts
    <3> QED BY <1>5, <3>1 DEF Stage, Begun, Live, At
  <2>2. ASSUME w \in Task PROVE LoneCall(g, w[1]) /\ Stage(w)' /\ Live(w)' /\ Live(w)
    <3>1. LoneCall(f, w[1]) /\ Stage(w) BY <1>2, <2>2 DEF CallFacts
    <3>2. f.op = "advance" /\ f.queue = <<>> BY <1>3, <3>1 DEF LoneCall
    <3>3. g = [f EXCEPT !.pc = "route"] BY <3>2 DEF Resume
    <3>4. /\ g.pc = "route" /\ g.op = f.op /\ g.queue = <<>> /\ g.todo = f.todo
          /\ g.node = f.node /\ g.out = f.out
      BY <1>3, <3>2, <3>3 DEF Frame
    <3>5. LoneCall(g, w[1]) BY <1>3, <3>1, <3>2, <3>4 DEF LoneCall, Passing
    <3>6. Live(w) /\ ~ Begun(w) /\ task[w].pc = "none" /\ IsTerminal(nodeStatus[w[1]])
      BY <1>2, <1>3, <2>2, PastMark
    <3>7. Live(w)' /\ ~ Begun(w)' BY <1>4, <1>5, <3>4, <3>6 DEF Live, At, Begun, Holds
    <3> QED BY <1>5, <3>5, <3>6, <3>7 DEF Stage
  <2> QED BY <1>4, <2>1, <2>2
<1>11. Seeding'
  <2>1. CASE w # Runner
    <3>1. frame'[Runner] = frame[Runner] BY <1>2, <1>4, <2>1
    <3> QED BY <1>1, <1>5, <1>7, <1>8, <3>1 DEF Lone, Seeding
  <2>2. CASE w = Runner
    <3>1. f.op \in {"start", "node"} BY <1>1, <1>3, <2>2 DEF Lone, Seeding
    <3>2. CASE f.op = "start"
      <4>1. g = [f EXCEPT !.pc = "seed"] BY <3>2 DEF Resume
      <4>2. g.pc = "seed" /\ g.op = "start" /\ g.roots = f.roots BY <1>3, <3>2, <4>1 DEF Frame
      <4> QED BY <1>1, <1>4, <1>5, <1>7, <2>2, <3>2, <4>2 DEF Lone, Seeding
    <3>3. CASE f.op = "node"
      <4>1. g.pc = "idle" /\ g.op = "none" /\ g.roots = {} BY <3>3 DEF Resume, IdleFrame
      <4> QED BY <1>1, <1>4, <1>5, <1>7, <2>2, <4>1 DEF Lone, Seeding
    <3> QED BY <3>1, <3>2, <3>3
  <2> QED BY <2>1, <2>2
<1>12. OnTheWay'
  <2>1. \A d \in InitEdge : HasToken(d)' => IsTerminal(nodeStatus'[From[d]])
    BY <1>1, <1>5, <1>7 DEF Lone, OnTheWay
  <2>2. \A u \in Task : \A d \in InitEdge : Owes(frame'[u], d) => Owes(frame[u], d)
    <3>1. w \in Task => \A d \in InitEdge : Owes(g, d) => Owes(f, d)
      <4>1. ASSUME w \in Task PROVE g.pc = "route"
        <5>1. f.op = "advance" BY <1>2, <1>3, <4>1 DEF CallFacts, LoneCall
        <5> QED BY <1>3, <5>1 DEF Resume, Frame
      <4> QED BY <1>9, <4>1 DEF Owes
    <3>2. \A u \in Task : u # w => frame'[u] = frame[u] BY <1>2, <1>4
    <3> QED BY <1>4, <3>1, <3>2
  <2>3. \A u \in Task : \A d \in InitEdge : Owes(frame'[u], d) => ~ HasToken(d)'
    BY <1>1, <1>7, <2>2 DEF Lone, OnTheWay
  <2>4. \A m \in Node : \A d \in Inbound(m)' : nodeStatus'[m] # "pending" => HasToken(d)'
    BY <1>1, <1>5, <1>7 DEF Lone, OnTheWay
  <2>5. ASSUME NEW u \in Task, Visits(frame'[u])
        PROVE  (/\ HasToken(frame[u].hop.edge)
                /\ Inbound(frame[u].target) = {} \/ nodeStatus[frame[u].target] = "pending")'
    <3>1. u # w
      <4>1. g.pc \notin {"check", "enable"} BY <1>3 DEF Resume, Frame, IdleFrame
      <4> QED BY <1>4, <2>5, <4>1 DEF Visits
    <3>2. frame'[u] = frame[u] BY <1>2, <1>4, <3>1
    <3> QED BY <1>1, <1>5, <1>7, <2>5, <3>2 DEF Lone, OnTheWay
  <2> QED BY <2>1, <2>3, <2>4, <2>5 DEF OnTheWay
<1>13. /\ \A m : AboutToLog(m)' => AboutToLog(m)
       /\ \A m : AboutToLog(m) => AboutToLog(m)' \/ m = n
       /\ AboutToLog(n)
  BY <1>3, <1>4, <1>9 DEF AboutToLog, At
<1>14. /\ \A u \in Worker \ {w} : \A m : Announces(u, m)' <=> Announces(u, m)
       /\ \A m : ~ Announces(w, m)' /\ (Announces(w, m) => m = n)
       /\ \A u \in Worker \ {w} : ~ Announces(u, n)
  <2>1. \A u \in Worker \ {w} : ~ Announces(u, n) BY <1>3, OneAnnouncer
  <2> QED BY <1>4, <1>9, <2>1 DEF Announces, At
<1>15. AnnouncedOnce'
  <2>1. \A m \in Node : Announced(m)' => Announced(m)
    BY <1>7, <1>13 DEF Announced, Heard
  <2>2. \A m \in Node : (Announced(m) \/ m \in dispatched \/ m \in left)' => nodeStatus'[m] # "pending"
    BY <1>1, <1>5, <2>1 DEF Lone, AnnouncedOnce
  <2>3. \A u \in Worker : \A m \in Node : Announces(u, m)' =>
          (/\ nodeStatus[m] # "pending" /\ ~ Heard(m) /\ m \notin dispatched
           /\ u \in Task => Inbound(m) # {})'
    BY <1>1, <1>5, <1>7, <1>14 DEF Lone, AnnouncedOnce
  <2>4. \A m \in Node : nodeStatus'[m] \in {"ready", "running"} =>
          Heard(m)' \/ \E u \in Worker : Announces(u, m)'
    BY <1>1, <1>5, <1>7, <1>14 DEF Lone, AnnouncedOnce
  <2> QED BY <2>2, <2>3, <2>4 DEF AnnouncedOnce
<1>16. InGoodHands'
  <2> SUFFICES ASSUME Driving', NEW m \in Node, nodeStatus[m] \in {"ready", "running"}
               PROVE  InHand(m)'
    BY <1>5 DEF InGoodHands
  <2>1. InHand(m) /\ Driving BY <1>1, <1>8 DEF Lone, InGoodHands
  <2>2. \A k \in Copy : Live(<<m, k>>) => Live(<<m, k>>)' BY <1>10 DEF Task
  <2>3. Unread(m) => Unread(m)' BY <1>2, <1>6, <1>8, UnreadStays
  <2>4. Unread(n)' BY <1>1, <1>6, <1>8, AppendIsUnread
  <2>5. n \notin dispatched
    <3>1. f.op # "node"
      <4>1. w \in Task => f.op = "advance" BY <1>2, <1>3 DEF CallFacts, LoneCall
      <4>2. w = Runner /\ f.op = "node" => stream[Runner].pc \in {"recover", "reemit"}
        BY <1>1 DEF Lone, Seeding
      <4> QED BY <1>2, <2>1, <4>1, <4>2 DEF Driving
    <3>2. Announces(w, n) BY <1>3, <3>1 DEF Announces, At
    <3> QED BY <1>1, <1>3, <3>2 DEF Lone, AnnouncedOnce
  <2>6. CASE m = n BY <1>5, <2>4, <2>5, <2>6 DEF InHand
  <2>7. CASE m # n BY <1>5, <1>13, <2>1, <2>2, <2>3, <2>7 DEF InHand
  <2> QED BY <2>6, <2>7
<1> QED BY <1>1, <1>5, <1>10, <1>11, <1>12, <1>15, <1>16 DEF Lone
-----------------------------------------------------------------------------
(***************************************************************************)
(* The dispatcher's calls: start_graph, and the events recovery emits.     *)
(***************************************************************************)
LEMMA RunnerFacts ==
  ASSUME LoneIInv
  PROVE  /\ OrchaIInv /\ Awake /\ Lone /\ Typed /\ edges = InitEdge
         /\ Runner \in Worker /\ Runner \notin Task /\ Worker = {Runner} \cup Task
         /\ frame[Runner] \in Frame /\ nodes \subseteq Node
<1>1. OrchaIInv /\ Awake /\ Lone /\ edges = InitEdge BY DEF LoneIInv, RecoveryIInv, Lone
<1>2. Typed BY <1>1, TypeParts DEF Parts
<1> QED BY <1>1, <1>2, WorkerKinds, RunnerAssumption, CallFrame, FrameFields DEF Typed, TypeOK

LEMMA RunnerLight ==
  ASSUME LoneIInv, Engine(Runner),
         ReadRoots(Runner) \/ Seeded(Runner) \/ CompleteGraph(Runner) \/ LogGraphDone(Runner)
  PROVE  Lone'
<1> PICK f : f = frame[Runner] OBVIOUS
<1>1. /\ OrchaIInv /\ Awake /\ Lone /\ Typed /\ Runner \in Worker /\ Runner \notin Task
      /\ f \in Frame /\ nodes \subseteq Node /\ Worker = {Runner} \cup Task
  BY RunnerFacts
<1>2. NotifyStep /\ UNCHANGED orcha /\ \A u \in Task : frame'[u] = frame[u]
  <2>1. \A u \in Worker \ {Runner} : frame'[u] = frame[u] BY <1>1, StepIsLocal DEF Engine
  <2> QED BY <1>1, <2>1 DEF Engine, NotifyStep
<1>3. QuietLog
  <2>1. log' = log \/ log' = Append(log, Ev("GraphDone", NoNode))
    BY DEF ReadRoots, Seeded, CompleteGraph, LogGraphDone, Persist
  <2>2. Ev("GraphDone", NoNode).type # "NodeReady" BY DEF Ev
  <2> QED BY <2>1, <2>2 DEF QuietLog
<1>4. /\ UNCHANGED <<edges, tokens, dispatched, nodeStatus, left, task>>
      /\ graphStatus' = "pending" => graphStatus = "pending"
  BY <1>2 DEF orcha, topology, ReadRoots, Seeded, CompleteGraph, LogGraphDone
<1>5. TablesKept BY <1>1, <1>2, <1>3, <1>4, TablesOf
<1>6. f.pc \in {"roots", "seed", "done", "doneevent"} /\ f.op = "start"
  <2>1. f.pc \in {"roots", "seed", "done", "doneevent"}
    BY DEF ReadRoots, Seeded, CompleteGraph, LogGraphDone, At
  <2> QED BY <1>1, <2>1 DEF Lone, Seeding
<1>7. stream[Runner].pc \in {"recover", "reemit"} => stream'[Runner].pc \in {"recover", "reemit"}
  BY <1>1, <1>2, NotifyDrives
<1>8. \A m : Inbound(m)' = Inbound(m) BY <1>4, QueriesKept
<1>9. frame'[Runner].pc # "ready" /\ Seeding'
  <2>1. CASE Return(Runner)
    <3>1. frame'[Runner] = IdleFrame BY <1>1, <2>1, FrameIs DEF Return
    <3>2. IdleFrame.pc = "idle" /\ IdleFrame.op = "none" /\ IdleFrame.roots = {}
      BY DEF IdleFrame
    <3> HIDE DEF IdleFrame
    <3> QED BY <1>1, <1>4, <1>7, <3>1, <3>2 DEF Lone, Seeding
  <2>2. ASSUME NEW p \in {"done", "doneevent"}, frame' = [frame EXCEPT ![Runner] = [f EXCEPT !.pc = p]]
        PROVE  frame'[Runner].pc # "ready" /\ Seeding'
    <3>1. frame'[Runner] = [f EXCEPT !.pc = p] BY <1>1, <2>2, FrameIs
    <3>2. /\ frame'[Runner].pc = p /\ frame'[Runner].op = "start" /\ frame'[Runner].roots = f.roots
      BY <1>1, <1>6, <3>1 DEF Frame
    <3>3. frame'[Runner].pc \notin {"ready", "roots", "idle"} BY <3>2
    <3> QED BY <1>1, <1>4, <1>6, <1>7, <1>8, <2>2, <3>2, <3>3 DEF Lone, Seeding
  <2>3. CASE ReadRoots(Runner) /\ Roots # {}
    <3> PICK roots : roots = Roots \ Gather OBVIOUS
    <3>1. frame'[Runner] = [f EXCEPT !.pc = "seed", !.roots = roots]
      BY <1>1, <2>3, FrameIs DEF ReadRoots
    <3>2. /\ frame'[Runner].pc = "seed" /\ frame'[Runner].op = "start" /\ frame'[Runner].roots = roots
      BY <1>1, <1>6, <3>1 DEF Frame
    <3>3. \A n \in roots : Inbound(n) = {} /\ nodeStatus[n] = "pending"
      BY <1>1, <2>3 DEF Lone, Seeding, ReadRoots, At, Roots
    <3> QED BY <1>1, <1>4, <1>6, <1>7, <1>8, <3>2, <3>3 DEF Lone, Seeding
  <2> QED BY <2>1, <2>2, <2>3 DEF ReadRoots, Seeded, CompleteGraph, LogGraphDone, Goto
<1>10. \A m : /\ AboutToLog(m)' <=> AboutToLog(m)
              /\ \A w \in Worker : Announces(w, m)' <=> Announces(w, m)
  <2>1. \A u \in Worker \ {Runner} : frame'[u] = frame[u] BY <1>1, <1>2
  <2> QED BY <1>1, <1>6, <1>9, <2>1, SameAnnouncers
<1> QED BY <1>1, <1>2, <1>4, <1>5, <1>9, <1>10, LightOther

LEMMA SeedLone ==
  ASSUME NoJoins, LoneIInv, Engine(Runner), Seed(Runner)
  PROVE  Lone'
<1> PICK f : f = frame[Runner] OBVIOUS
<1>1. /\ OrchaIInv /\ Awake /\ Lone /\ Typed /\ Runner \in Worker /\ Runner \notin Task
      /\ f \in Frame /\ edges = InitEdge /\ Worker = {Runner} \cup Task
  BY RunnerFacts
<1>2. PICK n \in f.roots :
        /\ SetNode(n, "ready", {})
        /\ frame' = [frame EXCEPT ![Runner].pc = "ready", ![Runner].target = n,
                                  ![Runner].roots = @ \ {n}]
  BY DEF Seed
<1> PICK rest : rest = f.roots \ {n} OBVIOUS
<1> DEFINE h == [f EXCEPT !.pc = "ready", !.target = n, !.roots = rest]
<1>3. frame'[Runner] = h BY <1>1, <1>2 DEF Typed
<1>4. f.pc = "seed" /\ f.op = "start" /\ f.roots \subseteq Node
  BY <1>1, NodesOfCalls DEF Seed, At, Lone, Seeding
<1>5. h.pc = "ready" /\ h.op = "start" /\ h.target = n /\ h.roots = rest
  BY <1>1, <1>4 DEF Frame
<1> PICK g : g = h OBVIOUS
<1> HIDE DEF h
<1>6. /\ NotifyStep /\ UNCHANGED <<task, dispatched, left>>
      /\ \A u \in Worker \ {Runner} : frame'[u] = frame[u]
  BY <1>1, StepIsLocal DEF Engine, NotifyStep, orcha
<1>7. n \in Node /\ Inbound(n) = {} /\ nodeStatus[n] = "pending"
  BY <1>1, <1>2, <1>4 DEF Lone, Seeding
<1>8. ~ Announced(n) /\ n \notin dispatched /\ ~ Heard(n) /\ ~ AboutToLog(n)
  BY <1>1, <1>7 DEF Lone, AnnouncedOnce, Announced, Heard
<1>9. /\ UNCHANGED <<edges, tokens, graphStatus, log>>
      /\ nodeStatus'[n] = "ready"
      /\ \A m \in Node \ {n} : nodeStatus'[m] = nodeStatus[m]
  BY <1>1, <1>2, <1>7 DEF Seed, SetNode, Typed, TypeOK, topology
<1>10. /\ \A m : Inbound(m)' = Inbound(m)
       /\ \A d : HasToken(d)' <=> HasToken(d)
       /\ \A m : Heard(m)' <=> Heard(m)
  BY <1>9, QueriesKept DEF Heard, Events
<1>11. \A u \in Task : /\ frame'[u] = frame[u]
                       /\ Begun(u)' <=> Begun(u)
                       /\ Live(u)' <=> Live(u)
  BY <1>1, <1>6 DEF Begun, Live, At
<1>12. \A u \in Task : LoneCall(frame'[u], u[1]) /\ Stage(u)'
  <2> SUFFICES ASSUME NEW u \in Task PROVE Stage(u)'
    BY <1>1, <1>11 DEF Lone
  <2>1. Stage(u) /\ u[1] \in Node BY <1>1, WorkerKinds DEF Lone
  <2>2. CASE u[1] # n BY <1>9, <1>11, <2>1, <2>2, <1>6 DEF Stage, At
  <2>3. CASE u[1] = n
    <3>1. ~ Begun(u) /\ ~ Live(u) BY <1>7, <2>1, <2>3 DEF Stage, IsTerminal
    <3>2. task[u].pc = "none" BY <3>1 DEF Live
    <3> QED BY <1>6, <1>11, <2>1, <3>1, <3>2 DEF Stage
  <2> QED BY <2>2, <2>3
<1>13. Seeding'
  <2>1. \A m \in rest : Inbound(m)' = {} /\ nodeStatus'[m] = "pending"
    BY <1>1, <1>4, <1>9, <1>10 DEF Lone, Seeding
  <2>2. graphStatus # "pending" BY <1>1, <1>4 DEF Lone, Seeding
  <2> QED BY <1>3, <1>5, <1>7, <1>9, <1>10, <2>1, <2>2 DEF Seeding
<1>14. OnTheWay'
  <2>1. \A d \in InitEdge : HasToken(d)' => IsTerminal(nodeStatus'[From[d]])
    BY <1>1, <1>7, <1>9, <1>10, NodesOfCalls DEF Lone, OnTheWay, IsTerminal
  <2>2. \A u \in Task : \A d \in InitEdge : Owes(frame'[u], d) => ~ HasToken(d)'
    BY <1>1, <1>10, <1>11 DEF Lone, OnTheWay
  <2>3. \A m \in Node : \A d \in Inbound(m)' : nodeStatus'[m] # "pending" => HasToken(d)'
    BY <1>1, <1>7, <1>9, <1>10 DEF Lone, OnTheWay
  <2>4. ASSUME NEW u \in Task, Visits(frame'[u])
        PROVE  (/\ HasToken(frame[u].hop.edge)
                /\ Inbound(frame[u].target) = {} \/ nodeStatus[frame[u].target] = "pending")'
    <3>1. Visits(frame[u]) /\ frame'[u] = frame[u] BY <1>11, <2>4
    <3>2. frame[u].target \in Node BY <1>1, <3>1, NodesOfCalls
    <3> QED BY <1>1, <1>7, <1>9, <1>10, <3>1, <3>2 DEF Lone, OnTheWay
  <2> QED BY <2>1, <2>2, <2>3, <2>4 DEF OnTheWay
<1>15. /\ \A m : AboutToLog(m) => AboutToLog(m)'
       /\ \A m : AboutToLog(m)' => AboutToLog(m) \/ m = n
       /\ AboutToLog(n)'
  BY <1>1, <1>3, <1>4, <1>5, <1>6 DEF AboutToLog, At
<1>16. /\ Announces(Runner, n)' /\ \A m : Announces(Runner, m)' => m = n
       /\ \A m : ~ Announces(Runner, m)
       /\ \A w \in Worker \ {Runner} : \A m : Announces(w, m)' <=> Announces(w, m)
  BY <1>3, <1>4, <1>5, <1>6 DEF Announces, At
<1>17. AnnouncedOnce'
  <2>1. \A m \in Node : Announced(m)' => Announced(m) \/ m = n
    BY <1>10, <1>15 DEF Announced, Heard
  <2>2. \A m \in Node : (Announced(m) \/ m \in dispatched \/ m \in left)' => nodeStatus'[m] # "pending"
    BY <1>1, <1>6, <1>9, <2>1 DEF Lone, AnnouncedOnce
  <2>3. \A w \in Worker : \A m \in Node : Announces(w, m)' =>
          (/\ nodeStatus[m] # "pending" /\ ~ Heard(m) /\ m \notin dispatched
           /\ w \in Task => Inbound(m) # {})'
    <3>1. (/\ nodeStatus[n] # "pending" /\ ~ Heard(n) /\ n \notin dispatched
           /\ Runner \in Task => Inbound(n) # {})'
      BY <1>1, <1>6, <1>8, <1>9, <1>10
    <3>2. ASSUME NEW w \in Worker \ {Runner}, NEW m \in Node, Announces(w, m)'
          PROVE  (/\ nodeStatus[m] # "pending" /\ ~ Heard(m) /\ m \notin dispatched
                  /\ w \in Task => Inbound(m) # {})'
      BY <1>1, <1>6, <1>9, <1>10, <1>16, <3>2 DEF Lone, AnnouncedOnce
    <3> QED BY <1>16, <3>1, <3>2
  <2>4. \A m \in Node : nodeStatus'[m] \in {"ready", "running"} =>
          Heard(m)' \/ \E w \in Worker : Announces(w, m)'
    <3>1. ASSUME NEW m \in Node \ {n}, nodeStatus'[m] \in {"ready", "running"}
          PROVE  Heard(m)' \/ \E w \in Worker : Announces(w, m)'
      <4>1. Heard(m) \/ \E w \in Worker : Announces(w, m)
        BY <1>1, <1>9, <3>1 DEF Lone, AnnouncedOnce
      <4> QED BY <1>10, <1>16, <4>1
    <3> QED BY <1>1, <1>16, <3>1
  <2> QED BY <2>2, <2>3, <2>4 DEF AnnouncedOnce
<1>18. InGoodHands'
  <2> SUFFICES ASSUME Driving', NEW m \in Node, nodeStatus'[m] \in {"ready", "running"}
               PROVE  InHand(m)'
    BY DEF InGoodHands
  <2>1. CASE m = n BY <1>15, <2>1 DEF InHand
  <2>2. CASE m # n
    <3>1. InHand(m) BY <1>1, <1>6, <1>9, <2>2, NotifyDrives DEF Lone, InGoodHands
    <3>2. \A k \in Copy : Live(<<m, k>>) => Live(<<m, k>>)'
      BY <1>11 DEF Task
    <3>3. Unread(m) => Unread(m)' BY <1>1, <1>6, <1>9, NotifyStream, UnreadStays
    <3> QED BY <1>6, <1>15, <3>1, <3>2, <3>3 DEF InHand
  <2> QED BY <2>1, <2>2
<1> QED BY <1>1, <1>6, <1>9, <1>12, <1>13, <1>14, <1>17, <1>18 DEF Lone

LEMMA EngineLone ==
  ASSUME NoJoins, LoneIInv, NEW w \in Worker, Engine(w)
  PROVE  Lone'
<1>1. Lone /\ Worker = {Runner} \cup Task BY RunnerFacts
<1>2. Step(w) BY DEF Engine
<1>3. CASE w \in Task
  <2>1. LoneCall(frame[w], w[1]) BY <1>1, <1>3 DEF Lone
  <2>2. frame[w].pc \notin {"roots", "seed"} BY <2>1 DEF LoneCall, Passing
  <2>3. ~ ReadRoots(w) /\ ~ Seed(w) /\ ~ Seeded(w) BY <2>2 DEF ReadRoots, Seed, Seeded, At
  <2>4. ~ EnableGather(w) BY DEF EnableGather, NoJoins
  <2> QED BY <1>2, <1>3, <2>3, <2>4, LightEngine, MarkLone, DeliverLone, EnableLone, AnnounceLone
          DEF Step, LightAction
<1>4. CASE w = Runner
  <2>1. frame[Runner].pc \in {"idle", "roots", "seed", "ready", "done", "doneevent"}
    BY <1>1 DEF Lone, Seeding
  <2>2. \/ ReadRoots(w) \/ Seed(w) \/ Seeded(w) \/ CompleteGraph(w) \/ LogGraphDone(w) \/ LogReady(w)
    BY <1>2, <1>4, <2>1
    DEF Step, Pop, Mark, LogNode, Route, Deliver, Routed, FailGraph, LogGraphFailed, Finish,
        Check, NotEnabled, EnableTask, EnableGather, At
  <2> QED BY <1>4, <2>2, RunnerLight, SeedLone, AnnounceLone
<1> QED BY <1>1, <1>3, <1>4

(***************************************************************************)
(* The streams, the tasks and the methods.                                 *)
(***************************************************************************)
LEMMA TaskFacts ==
  ASSUME LoneIInv
  PROVE  /\ TasksTyped /\ SetsTyped /\ ReadyNamesNode
         /\ \A t \in Task : t \in Worker /\ t # Runner /\ t[1] \in Node
  BY TypeParts, WorkerKinds DEF LoneIInv, RecoveryIInv, Parts

LEMMA SameCalls ==
  ASSUME UNCHANGED frame
  PROVE  \A m : /\ AboutToLog(m)' <=> AboutToLog(m)
                /\ \A w \in Worker : Announces(w, m)' <=> Announces(w, m)
  BY DEF AboutToLog, Announces, At

LEMMA SeedingKept ==
  ASSUME LoneIInv, UNCHANGED <<edges, graphStatus>>, frame'[Runner] = frame[Runner],
         \A n \in Node : nodeStatus'[n] = "pending" <=> nodeStatus[n] = "pending",
         frame[Runner].op = "node" /\ stream[Runner].pc \in {"recover", "reemit"} =>
            stream'[Runner].pc \in {"recover", "reemit"}
  PROVE  Seeding'
<1>1. Lone /\ Typed /\ Runner \in Worker BY RunnerFacts
<1>2. frame[Runner].roots \subseteq Node BY <1>1, NodesOfCalls
<1>3. \A n : Inbound(n)' = Inbound(n) BY DEF Inbound
<1> QED BY <1>1, <1>2, <1>3 DEF Lone, Seeding

\* A step that leaves the calls alone.
LEMMA CallsAlone ==
  ASSUME LoneIInv, UNCHANGED frame, TablesKept, Seeding',
         \A t \in Task : task'[t].pc = "none" <=> task[t].pc = "none"
  PROVE  Lone'
<1>1. Lone /\ Typed /\ Runner \in Worker BY RunnerFacts
<1>2. \A n : AboutToLog(n)' <=> AboutToLog(n) BY SameCalls
<1>3. \A n : Announces(Runner, n)' <=> Announces(Runner, n) BY <1>1, SameCalls
<1>4. \A t \in Task : frame'[t] = frame[t] OBVIOUS
<1> QED BY <1>1, <1>2, <1>3, <1>4, LightOther

\* A step that leaves the calls alone and changes none of the tables.
LEMMA QuietTables ==
  ASSUME LoneIInv, UNCHANGED <<edges, tokens, nodeStatus, graphStatus, dispatched, frame, log>>,
         \A n \in Node : n \in left' => n \in left \/ nodeStatus[n] # "pending",
         \A t \in Task : task'[t].pc = "none" <=> task[t].pc = "none",
         StreamKept
  PROVE  Lone'
<1>1. Lone /\ Typed BY RunnerFacts
<1>2. TablesKept BY DEF TablesKept, Heard, Events
<1>3. Seeding' BY SeedingKept DEF StreamKept
<1> QED BY <1>2, <1>3, CallsAlone

LEMMA ReadLone ==
  ASSUME LoneIInv, Read(Runner) PROVE Lone'
<1>1. OrchaIInv /\ Awake /\ Typed BY RunnerFacts
<1>2. UNCHANGED <<edges, tokens, nodeStatus, graphStatus, dispatched, frame, log, left, task>>
  BY DEF Read, Open, Fetch, Wait, lattice, orcha, topology
<1>3. stream[Runner] \in StreamState /\ stream \in [Stream -> StreamState] /\ Runner \in Stream
  BY <1>1, RunnerStream
<1>4. Driving BY DEF Read, Open, Fetch, Wait, Driving
<1>5. stream[Runner].pc \notin {"recover", "reemit"} BY DEF Read, Open, Fetch, Wait
<1>6. ASSUME NEW n \in Node, Unread(n), n \notin dispatched PROVE Unread(n)'
  <2>1. CASE Open(Runner) \/ Fetch(Runner)
    <3>1. stream'[Runner].cursor = stream[Runner].cursor
      BY <1>3, <2>1 DEF Open, Fetch, StreamState
    <3> QED BY <1>2, <1>6, <3>1 DEF Unread
  <2>2. CASE Wait(Runner)
    <3>1. stream'[Runner].cursor = stream[Runner].upto BY <1>3, <2>2 DEF Wait, StreamState
    <3>2. PICK i \in DOMAIN log : i > stream[Runner].cursor /\ log[i] = Ev("NodeReady", n)
      BY <1>6 DEF Unread
    <3>3. i \in Nat /\ stream[Runner].cursor \in Nat /\ stream[Runner].upto \in Nat
      <4>1. log \in Seq(Event) BY <1>1 DEF Typed, TypeOK
      <4> QED BY <1>3, <4>1 DEF StreamState
    <3>4. ToDispatch(log[i]) BY <1>6, <3>2 DEF ToDispatch, Ev
    <3>5. i \notin Relevant(Runner) BY <2>2 DEF Wait
    <3>6. i > stream[Runner].upto
      BY <3>2, <3>3, <3>4, <3>5 DEF Relevant
    <3> QED BY <1>2, <3>1, <3>2, <3>6 DEF Unread
  <2> QED BY <2>1, <2>2 DEF Read
<1>7. StreamKept BY <1>4, <1>5, <1>6 DEF StreamKept
<1> QED BY <1>2, <1>7, QuietTables

LEMMA StartNodeLone ==
  ASSUME LoneIInv, NEW t \in Task, StartNode(t) PROVE Lone'
<1> PICK n : n = t[1] OBVIOUS
<1>1. Lone /\ Typed /\ TasksTyped /\ n \in Node BY RunnerFacts, TaskFacts
<1>2. nodeStatus[n] \in {"ready", "running"} BY <1>1 DEF StartNode, Lone, Stage, Begun
<1>3. /\ nodeStatus'[n] = "running"
      /\ \A m \in Node \ {n} : nodeStatus'[m] = nodeStatus[m]
  BY <1>1 DEF StartNode, SetNode, Typed, TypeOK
<1>4. UNCHANGED <<edges, tokens, graphStatus, dispatched, frame, log, left, notify>>
  BY DEF StartNode, topology
<1>5. \A u \in Task : task'[u].pc = "none" <=> task[u].pc = "none"
  BY <1>1 DEF StartNode, TasksTyped, TaskState
<1>6. StreamKept BY <1>4 DEF StreamKept, Driving, notify, Unread
<1>7. TablesKept BY <1>2, <1>3, <1>4, <1>6 DEF TablesKept, Heard, Events
<1>8. Seeding' BY <1>1, <1>4, <1>6, <1>7, StatusKept, SeedingKept DEF StreamKept
<1> QED BY <1>4, <1>5, <1>7, <1>8, CallsAlone

LEMMA LogStartedLone ==
  ASSUME LoneIInv, NEW t \in Task, LogStarted(t) PROVE Lone'
<1>1. Lone /\ Typed /\ TasksTyped /\ OrchaIInv /\ Awake BY RunnerFacts, TaskFacts
<1>2. UNCHANGED <<edges, tokens, graphStatus, dispatched, frame, nodeStatus, left>> /\ NotifyStep
  BY DEF LogStarted, topology, NotifyStep
<1>3. QuietLog BY DEF QuietLog, LogStarted, Persist, Ev
<1>4. \A u \in Task : task'[u].pc = "none" <=> task[u].pc = "none"
  BY <1>1 DEF LogStarted, TasksTyped, TaskState
<1>5. TablesKept BY <1>1, <1>2, <1>3, TablesOf
<1>6. Seeding' BY <1>1, <1>2, <1>5, SeedingKept DEF TablesKept, StreamKept
<1> QED BY <1>2, <1>4, <1>5, <1>6, CallsAlone

LEMMA ReportLone ==
  ASSUME NoJoins, LoneIInv, NEW t \in Task, NEW failed \in BOOLEAN,
         task[t].pc = "working", ReportResult(t, failed), UNCHANGED taskUnchanged
  PROVE  Lone'
<1>1. /\ Lone /\ Typed /\ TasksTyped /\ CallFacts(t) /\ Worker = {Runner} \cup Task
      /\ t \in Worker /\ t # Runner /\ t[1] \in Node
  BY RunnerFacts, TaskFacts, CallIsLone
<1>2. UNCHANGED <<edges, tokens, graphStatus, dispatched, nodeStatus, left, log, stream>>
  BY DEF taskUnchanged, topology, notify
<1> PICK x : x = Fresh(1, IF failed THEN "error" ELSE "ok") OBVIOUS
<1> PICK q : q = <<[node |-> t[1], out |-> {x}, failed |-> failed]>> OBVIOUS
<1> DEFINE g == [IdleFrame EXCEPT !.pc = "pop", !.op = "advance", !.queue = q]
<1>3. frame' = [frame EXCEPT ![t] = g] /\ task' = [task EXCEPT ![t] = NoTask]
  BY DEF ReportResult, Advance
<1>4. frame'[t] = g /\ \A u \in Worker \ {t} : frame'[u] = frame[u]
  <2> HIDE DEF g
  <2> QED BY <1>1, <1>3 DEF Typed
<1>5. /\ task'[t].pc = "none" /\ \A u \in Task \ {t} : task'[u] = task[u]
  BY <1>1, <1>3 DEF TasksTyped, NoTask
<1>6. g.pc = "pop" /\ g.op = "advance" /\ g.queue = q /\ g.todo = {} BY DEF IdleFrame
<1> PICK h : h = g OBVIOUS
<1> HIDE DEF g
<1>7. x \in Token BY DEF Fresh, Token, Color
<1>8. Len(q) = 1 /\ DOMAIN q = {1} /\ q[1].out = {x} /\ q[1].node = t[1] OBVIOUS
<1>9. LoneCall(h, t[1]) BY <1>6, <1>7, <1>8 DEF LoneCall, OneToken, Passing
<1>10. Begun(t) /\ Begun(t)' /\ Live(t) /\ Live(t)'
  BY <1>4, <1>6, <1>8 DEF Begun, Live, At, Holds
<1>11. \A u \in Task : (Begun(u)' <=> Begun(u)) /\ (Live(u)' <=> Live(u))
  BY <1>1, <1>4, <1>5, <1>10 DEF Begun, Live, At
<1>12. \A u \in Task : LoneCall(frame'[u], u[1]) /\ Stage(u)'
  <2>1. Stage(t)' BY <1>1, <1>2, <1>5, <1>10 DEF Lone, Stage
  <2>2. \A u \in Task \ {t} : frame'[u] = frame[u] /\ u # t BY <1>1, <1>4
  <2>3. \A u \in Task \ {t} : LoneCall(frame'[u], u[1]) /\ Stage(u)'
    BY <1>1, <1>2, <1>5, <1>11, <2>2 DEF Lone, Stage, At
  <2> QED BY <1>4, <1>9, <2>1, <2>3
<1>13. \A n : Inbound(n)' = Inbound(n) BY <1>2, QueriesKept
<1>14. \A e : HasToken(e)' <=> HasToken(e) BY <1>2, QueriesKept
<1>15. Seeding' BY <1>1, <1>2, <1>4, SeedingKept
<1>16. OnTheWay'
  <2>1. \A u \in Task : frame'[u] = frame[u] \/ u = t BY <1>1, <1>4
  <2>2. ~ Visits(h) /\ \A e : ~ Owes(h, e) BY <1>6 DEF Visits, Owes
  <2>3. \A e \in InitEdge : HasToken(e)' => IsTerminal(nodeStatus'[From[e]])
    BY <1>1, <1>2, <1>14 DEF Lone, OnTheWay
  <2>4. \A u \in Task : \A e \in InitEdge : Owes(frame'[u], e) => ~ HasToken(e)'
    BY <1>1, <1>4, <1>14, <2>1, <2>2 DEF Lone, OnTheWay
  <2>5. \A n \in Node : \A e \in Inbound(n)' : nodeStatus'[n] # "pending" => HasToken(e)'
    BY <1>1, <1>2, <1>13, <1>14 DEF Lone, OnTheWay
  <2>6. ASSUME NEW u \in Task, Visits(frame'[u])
        PROVE  (/\ HasToken(frame[u].hop.edge)
                /\ Inbound(frame[u].target) = {} \/ nodeStatus[frame[u].target] = "pending")'
    <3>1. frame'[u] = frame[u] BY <1>4, <2>1, <2>2, <2>6
    <3> QED BY <1>1, <1>2, <1>13, <1>14, <2>6, <3>1 DEF Lone, OnTheWay
  <2> QED BY <2>3, <2>4, <2>5, <2>6 DEF OnTheWay
<1>17. \A m : /\ AboutToLog(m)' <=> AboutToLog(m)
              /\ \A w \in Worker : Announces(w, m)' <=> Announces(w, m)
  <2>1. frame[t].pc = "idle" BY <1>1 DEF Lone, Stage, At
  <2> QED BY <1>1, <1>4, <1>6, <2>1, SameAnnouncers
<1>18. \A m : Heard(m)' <=> Heard(m) BY <1>2 DEF Heard, Events
<1>19. AnnouncedOnce'
  <2>1. \A m \in Node : Announced(m)' <=> Announced(m) BY <1>17, <1>18 DEF Announced, Heard
  <2> QED BY <1>1, <1>2, <1>13, <1>17, <1>18, <2>1 DEF Lone, AnnouncedOnce
<1>20. InGoodHands'
  <2>1. \A m \in Node : InHand(m) => InHand(m)'
    BY <1>2, <1>11, <1>17 DEF InHand, Task, Unread
  <2> QED BY <1>1, <1>2, <2>1 DEF Lone, InGoodHands, Driving
<1> QED BY <1>1, <1>2, <1>12, <1>15, <1>16, <1>19, <1>20 DEF Lone

LEMMA AnswerLone ==
  ASSUME NoJoins, LoneIInv, NEW t \in Task, Succeed(t) \/ Fail(t) \/ Abort(t)
  PROVE  Lone'
<1>1. UNCHANGED taskUnchanged /\ task[t].pc = "working" /\ TasksTyped
  BY TaskFacts DEF Succeed, Fail, Abort
<1>2. CASE Retry(t) /\ AttemptFails(t)
  <2>1. UNCHANGED <<edges, tokens, nodeStatus, graphStatus, dispatched, frame, log, left, stream>>
    BY <1>1, <1>2 DEF taskUnchanged, topology, notify, AttemptFails
  <2>2. \A u \in Task : task'[u].pc = "none" <=> task[u].pc = "none"
    BY <1>1, <1>2 DEF AttemptFails, TasksTyped, TaskState
  <2>3. StreamKept BY <2>1 DEF StreamKept, Driving, Unread
  <2> QED BY <2>1, <2>2, <2>3, QuietTables
<1>3. CASE \E failed \in BOOLEAN : ReportResult(t, failed) BY <1>1, <1>3, ReportLone
<1> QED BY <1>2, <1>3 DEF Succeed, Fail, Abort, AttemptFails

LEMMA SpawnLone ==
  ASSUME NoJoins, LoneIInv, NEW i \in DOMAIN log, Consume(Runner, i), ~ Ends(log[i]),
         Spawn(log[i].node)
  PROVE  Lone'
<1> PICK n : n = log[i].node OBVIOUS
<1>1. /\ OrchaIInv /\ Lone /\ Typed /\ TasksTyped /\ ReadyNamesNode /\ Worker = {Runner} \cup Task
      /\ Settling /\ Rows
  BY RunnerFacts, TaskFacts DEF LoneIInv, RecoveryIInv
<1>2. ToDispatch(log[i]) /\ stream[Runner].pc = "batch" /\ i \in Nat /\ i > stream[Runner].cursor
  <2>1. stream[Runner].cursor \in Nat /\ log \in Seq(Event)
    BY <1>1, RunnerStream DEF StreamState, Typed, TypeOK
  <2> QED BY <2>1 DEF Consume, Relevant
<1>3. n \in Node /\ n \notin dispatched /\ log[i] = Ev("NodeReady", n)
  <2>1. log[i] \in Event BY <1>1 DEF Typed, TypeOK
  <2> QED BY <1>1, <1>2, <2>1 DEF ToDispatch, ReadyNamesNode, Event, Ev
<1>4. Heard(n) BY <1>3 DEF Heard, Events
<1>5. nodeStatus[n] \in {"ready", "running"}
  <2>1. nodeStatus[n] # "pending" BY <1>1, <1>3, <1>4 DEF Lone, AnnouncedOnce, Announced, Heard
  <2>2. n \in nodes BY <1>1, <1>3, <2>1 DEF Rows
  <2>3. ~ IsTerminal(nodeStatus[n])
    BY <1>1, <1>2, <1>3, <2>2 DEF Settling, TerminalKnown, Attached, NoJoins
  <2>4. nodeStatus[n] \in Status BY <1>1, <1>3 DEF Typed, TypeOK
  <2> QED BY <2>1, <2>3, <2>4 DEF IsTerminal, Status
<1>6. PICK k \in Copy : /\ ~ Live(<<n, k>>)
                        /\ task' = [task EXCEPT ![<<n, k>>] =
                                      [pc |-> "spawned", attempt |-> 0, rx |-> token]]
  BY DEF Spawn, FreeCopy
<1> PICK t : t = <<n, k>> OBVIOUS
<1>7. t \in Task /\ t[1] = n /\ t \in Worker BY <1>1, <1>3 DEF Task
<1>8. /\ task'[t].pc = "spawned" /\ \A u \in Task \ {t} : task'[u] = task[u]
  BY <1>1, <1>6, <1>7 DEF TasksTyped
<1>9. /\ UNCHANGED <<edges, tokens, graphStatus, nodeStatus, frame, log, left>>
      /\ dispatched' = dispatched \cup {n}
  BY DEF Consume, Spawn, lattice, topology, Remember
<1>10. /\ stream'[Runner].cursor = i /\ stream'[Runner].pc = "batch"
  BY <1>1, <1>2, RunnerStream DEF Consume, Position, StreamState
<1>11. At(t, "idle") /\ Live(t)' /\ Begun(t)' BY <1>6, <1>8 DEF Live, Begun
<1>12. \A u \in Task \ {t} : (Begun(u)' <=> Begun(u)) /\ (Live(u)' <=> Live(u))
  BY <1>8, <1>9 DEF Begun, Live, At
<1>13. \A u \in Task : LoneCall(frame'[u], u[1]) /\ Stage(u)'
  <2>1. Stage(t)' BY <1>5, <1>7, <1>9, <1>11 DEF Stage, At
  <2>2. \A u \in Task \ {t} : Stage(u)' BY <1>1, <1>8, <1>9, <1>12 DEF Lone, Stage, At
  <2> QED BY <1>1, <1>9, <2>1, <2>2 DEF Lone
<1>14. Seeding' BY <1>2, <1>9, SeedingKept
<1>15. OnTheWay'
  <2>1. \A m : Inbound(m)' = Inbound(m) BY <1>9, QueriesKept
  <2>2. \A e : HasToken(e)' <=> HasToken(e) BY <1>9, QueriesKept
  <2> QED BY <1>1, <1>9, <2>1, <2>2 DEF Lone, OnTheWay
<1>16. \A m : /\ AboutToLog(m)' <=> AboutToLog(m)
              /\ \A w \in Worker : Announces(w, m)' <=> Announces(w, m)
  BY <1>9, SameCalls
<1>17. \A m : Heard(m)' <=> Heard(m) BY <1>9 DEF Heard, Events
<1>18. AnnouncedOnce'
  <2>1. \A m \in Node : Announced(m)' <=> Announced(m) BY <1>16, <1>17 DEF Announced, Heard
  <2>2. \A m : Inbound(m)' = Inbound(m) BY <1>9, QueriesKept
  <2>3. \A w \in Worker : ~ Announces(w, n)
    BY <1>1, <1>3, <1>4 DEF Lone, AnnouncedOnce
  <2>4. \A m \in Node : (Announced(m) \/ m \in dispatched \/ m \in left)' => nodeStatus'[m] # "pending"
    BY <1>1, <1>5, <1>9, <2>1 DEF Lone, AnnouncedOnce
  <2>5. \A w \in Worker : \A m \in Node : Announces(w, m)' =>
          (/\ nodeStatus[m] # "pending" /\ ~ Heard(m) /\ m \notin dispatched
           /\ w \in Task => Inbound(m) # {})'
    BY <1>1, <1>9, <1>16, <1>17, <2>2, <2>3 DEF Lone, AnnouncedOnce
  <2>6. \A m \in Node : nodeStatus'[m] \in {"ready", "running"} =>
          Heard(m)' \/ \E w \in Worker : Announces(w, m)'
    BY <1>1, <1>9, <1>16, <1>17 DEF Lone, AnnouncedOnce
  <2> QED BY <2>4, <2>5, <2>6 DEF AnnouncedOnce
<1>19. InGoodHands'
  <2> SUFFICES ASSUME NEW m \in Node, nodeStatus[m] \in {"ready", "running"} PROVE InHand(m)'
    BY <1>9 DEF InGoodHands
  <2>1. CASE m = n
    <3>1. Live(<<n, k>>)' BY <1>11
    <3> QED BY <2>1, <3>1 DEF InHand
  <2>2. CASE m # n
    <3>1. InHand(m) BY <1>1, <1>2 DEF Lone, InGoodHands, Driving
    <3>2. \A j \in Copy : Live(<<m, j>>) => Live(<<m, j>>)' BY <1>12, <2>2 DEF Task
    <3>3. Unread(m) /\ m \notin dispatched => Unread(m)'
      <4> SUFFICES ASSUME Unread(m), m \notin dispatched PROVE Unread(m)' OBVIOUS
      <4>1. PICK j \in DOMAIN log : j > stream[Runner].cursor /\ log[j] = Ev("NodeReady", m)
        BY DEF Unread
      <4>2. j > i
        <5>1. CASE j \in Relevant(Runner)
          <6>1. i <= j BY <5>1 DEF Consume
          <6>2. j # i BY <1>3, <2>2, <4>1 DEF Ev
          <6>3. j \in Nat BY <1>1 DEF Typed, TypeOK
          <6> QED BY <1>2, <6>1, <6>2, <6>3
        <5>2. CASE j \notin Relevant(Runner)
          <6>1. ToDispatch(log[j]) BY <4>1 DEF ToDispatch, Ev
          <6>2. stream[Runner].cursor \in Nat /\ stream[Runner].upto \in Nat /\ j \in Nat
            BY <1>1, RunnerStream DEF StreamState, Typed, TypeOK
          <6>3. j > stream[Runner].upto BY <4>1, <5>2, <6>1, <6>2 DEF Relevant
          <6>4. i <= stream[Runner].upto BY <6>2 DEF Consume, Relevant
          <6> QED BY <1>2, <6>2, <6>3, <6>4
        <5> QED BY <5>1, <5>2
      <4> QED BY <1>9, <1>10, <4>1, <4>2 DEF Unread
    <3> QED BY <1>9, <1>16, <2>2, <3>1, <3>2, <3>3 DEF InHand
  <2> QED BY <2>1, <2>2
<1> QED BY <1>1, <1>9, <1>13, <1>14, <1>15, <1>18, <1>19 DEF Lone

LEMMA DispatchLone ==
  ASSUME NoJoins, LoneIInv, Dispatch PROVE Lone'
<1>1. PICK i \in DOMAIN log :
         /\ Consume(Runner, i)
         /\ IF Ends(log[i]) THEN Finished ELSE Spawn(log[i].node)
  BY DEF Dispatch
<1>2. CASE ~ Ends(log[i]) BY <1>1, <1>2, SpawnLone
<1>3. CASE Ends(log[i])
  <2>1. TasksTyped /\ OrchaIInv BY RunnerFacts, TaskFacts
  <2>2. UNCHANGED <<edges, tokens, nodeStatus, graphStatus, dispatched, frame, log, left>>
    BY <1>1, <1>3 DEF Consume, Finished, lattice, topology
  <2>3. \A t \in Task : task'[t].pc = "none" <=> task[t].pc = "none"
    BY <1>1, <1>3, <2>1, ReceiversChange DEF Finished
  <2>4. stream[Runner].pc = "batch" /\ stream'[Runner].pc = "closed"
    BY <1>1, <1>3, <2>1, RunnerStream DEF Consume, StreamState
  <2>5. StreamKept BY <2>4 DEF StreamKept, Driving
  <2> QED BY <2>2, <2>3, <2>5, QuietTables
<1> QED BY <1>2, <1>3

LEMMA CancelGraphLone == ASSUME LoneIInv, CancelGraph PROVE Lone'
<1>1. TasksTyped BY TaskFacts
<1>2. UNCHANGED <<edges, tokens, nodeStatus, graphStatus, dispatched, frame, log, left, stream>>
  BY DEF CancelGraph, lattice, topology, notify
<1>3. \A t \in Task : task'[t].pc = "none" <=> task[t].pc = "none"
  BY <1>1, ReceiversChange DEF CancelGraph
<1>4. StreamKept BY <1>2 DEF StreamKept, Driving, Unread
<1> QED BY <1>2, <1>3, <1>4, QuietTables

LEMMA StartGraphLone ==
  ASSUME LoneIInv, StartGraph PROVE Lone'
<1>1. /\ Lone /\ Typed /\ OrchaIInv /\ Runner \in Worker /\ Runner \notin Task
      /\ Worker = {Runner} \cup Task
  BY RunnerFacts
<1> DEFINE g == [IdleFrame EXCEPT !.pc = "roots", !.op = "start"]
<1>2. frame' = [frame EXCEPT ![Runner] = g] BY DEF StartGraph, Start
<1>3. g.pc = "roots" /\ g.op = "start" /\ g.roots = {} BY DEF IdleFrame
<1> HIDE DEF g
<1>4. frame'[Runner] = g /\ \A u \in Worker \ {Runner} : frame'[u] = frame[u]
  BY <1>1, <1>2 DEF Typed
<1>5. /\ UNCHANGED <<edges, tokens, nodeStatus, dispatched, left, log, task>>
      /\ graphStatus = "pending" /\ graphStatus' = "running" /\ At(Runner, "idle")
  BY DEF StartGraph, Start, topology, orcha
<1>6. /\ stream'[Runner].cursor = stream[Runner].cursor /\ stream[Runner].pc = "start"
  BY <1>1, RunnerStream DEF StartGraph, StreamState
<1>7. TablesKept
  <2>1. StreamKept BY <1>5, <1>6 DEF StreamKept, Driving, Unread
  <2> QED BY <1>5, <2>1 DEF TablesKept, Heard, Events
<1>8. Seeding'
  <2>1. \A n \in Node : nodeStatus[n] = "pending" BY <1>1, <1>5 DEF Lone, Seeding
  <2> QED BY <1>3, <1>4, <1>5, <2>1 DEF Seeding
<1>9. \A m : /\ AboutToLog(m)' <=> AboutToLog(m)
             /\ \A w \in Worker : Announces(w, m)' <=> Announces(w, m)
  <2>1. frame[Runner].pc # "ready" /\ frame'[Runner].pc # "ready" BY <1>3, <1>4, <1>5 DEF At
  <2> QED BY <1>1, <1>4, <2>1, SameAnnouncers
<1>10. \A t \in Task : frame'[t] = frame[t] BY <1>1, <1>4
<1> QED BY <1>1, <1>5, <1>7, <1>8, <1>9, <1>10, LightOther

LEMMA ReemissionLone ==
  ASSUME LoneIInv, ResetRunning \/ ReemitReady PROVE Lone'
<1>1. /\ Lone /\ Typed /\ OrchaIInv /\ Runner \in Worker /\ Runner \notin Task
      /\ Worker = {Runner} \cup Task /\ SetsTyped
  BY RunnerFacts, TaskFacts
<1>2. PICK n \in left : /\ EmitReady(n) /\ left' = left \ {n}
                        /\ \/ nodeStatus[n] = "running" /\ SetNode(n, "ready", {})
                           \/ UNCHANGED nodeStatus
  BY DEF ResetRunning, ReemitReady
<1>3. /\ UNCHANGED <<edges, tokens, graphStatus, dispatched, log, task, notify>>
      /\ stream[Runner].pc \in {"recover", "reemit"} /\ At(Runner, "idle")
  BY DEF ResetRunning, ReemitReady, topology
<1> DEFINE g == [IdleFrame EXCEPT !.pc = "ready", !.op = "node", !.target = n]
<1>4. frame' = [frame EXCEPT ![Runner] = g] BY <1>2 DEF EmitReady
<1>5. g.pc = "ready" /\ g.op = "node" /\ g.target = n /\ g.roots = {} BY DEF IdleFrame
<1> HIDE DEF g
<1>6. frame'[Runner] = g /\ \A u \in Worker \ {Runner} : frame'[u] = frame[u]
  BY <1>1, <1>4 DEF Typed
<1>7. TablesKept
  <2>1. n \in Node BY <1>1, <1>2 DEF SetsTyped
  <2>2. StreamKept BY <1>3 DEF StreamKept, Driving, notify
  <2>3. \A m \in Node : \/ nodeStatus'[m] = nodeStatus[m]
                        \/ {nodeStatus[m], nodeStatus'[m]} \subseteq {"ready", "running"}
    BY <1>1, <1>2, <2>1 DEF SetNode, Typed, TypeOK
  <2> QED BY <1>2, <1>3, <2>2, <2>3 DEF TablesKept, Heard, Events
<1>8. Seeding'
  <2>1. graphStatus = "pending" => \A m \in Node : nodeStatus'[m] = "pending"
    BY <1>1, <1>7, StatusKept DEF Lone, Seeding
  <2> QED BY <1>3, <1>5, <1>6, <2>1 DEF Seeding, notify
<1>9. \A m : Announces(Runner, m)' <=> Announces(Runner, m)
  BY <1>3, <1>5, <1>6 DEF Announces, At
<1>10. \A m : AboutToLog(m)' => AboutToLog(m) \/ m \in left
  BY <1>1, <1>2, <1>5, <1>6 DEF AboutToLog, At
<1>11. ~ Driving' BY <1>3 DEF Driving, notify
<1>12. \A t \in Task : frame'[t] = frame[t] BY <1>1, <1>6
<1> QED BY <1>1, <1>3, <1>7, <1>8, <1>9, <1>10, <1>11, <1>12, LightOther

LEMMA FindReadyLone ==
  ASSUME LoneIInv, FindReady PROVE Lone'
<1>1. OrchaIInv /\ Typed /\ nodes \subseteq Node BY RunnerFacts
<1>2. UNCHANGED <<edges, tokens, nodeStatus, graphStatus, dispatched, frame, log, task>>
  BY DEF FindReady, lattice, topology
<1>3. stream[Runner].pc = "recover" /\ stream'[Runner].pc = "reemit"
  BY <1>1, RunnerStream DEF FindReady, StreamState
<1>4. StreamKept BY <1>3 DEF StreamKept, Driving
<1>5. \A n \in Node : n \in left' => nodeStatus[n] # "pending" BY DEF FindReady
<1> QED BY <1>2, <1>4, <1>5, QuietTables

\* No call is in progress.
Still == \A w \in Worker : At(w, "idle")

LEMMA StillLone ==
  ASSUME LoneIInv, Still',
         \A t \in Task : task'[t].pc = "none",
         UNCHANGED <<edges, tokens, nodeStatus, graphStatus, log>>,
         frame'[Runner] = IdleFrame \/ frame'[Runner] = frame[Runner],
         \A t \in Task : frame'[t] = IdleFrame \/ frame'[t] = frame[t],
         \A n \in Node : n \in dispatched' \/ n \in left' => nodeStatus[n] # "pending",
         \A n \in Node : nodeStatus[n] \in {"ready", "running"} =>
            Heard(n) /\ (Driving' => Unread(n)' /\ n \notin dispatched')
  PROVE  Lone'
<1>1. Lone /\ Typed /\ edges = InitEdge /\ Worker = {Runner} \cup Task BY RunnerFacts
<1>2. \A w \in Worker : frame'[w].pc = "idle" BY DEF Still, At
<1>3. \A t \in Task : t \in Worker /\ t[1] \in Node BY WorkerKinds
<1>4. \A n : Inbound(n)' = Inbound(n) BY QueriesKept
<1>5. \A e : HasToken(e)' <=> HasToken(e) BY QueriesKept
<1>6. \A n : Heard(n)' <=> Heard(n) BY DEF Heard, Events
<1>7. ASSUME NEW t \in Task
      PROVE  /\ LoneCall(frame'[t], t[1]) /\ Stage(t)' /\ ~ Visits(frame'[t])
             /\ \A e \in InitEdge : ~ Owes(frame'[t], e)
  <2>1. LoneCall(frame'[t], t[1])
    <3>1. LoneCall(IdleFrame, t[1])
      <4>1. IdleFrame.pc = "idle" /\ IdleFrame.queue = <<>> /\ IdleFrame.todo = {}
        BY DEF IdleFrame
      <4> HIDE DEF IdleFrame
      <4> QED BY <4>1 DEF LoneCall, Passing
    <3> QED BY <1>1, <3>1 DEF Lone
  <2>2. frame'[t].pc = "idle" /\ frame'[t].todo = {} /\ frame'[t].queue = <<>>
    BY <1>2, <1>3, <2>1 DEF LoneCall, Passing
  <2>3. ~ Holds(frame'[t], t[1]) BY <2>2 DEF Holds
  <2>4. ~ Begun(t)' /\ ~ Live(t)' BY <2>2, <2>3 DEF Begun, Live, At
  <2> QED BY <2>1, <2>2, <2>4 DEF Stage, Visits, Owes
<1>8. Seeding'
  <2>1. frame'[Runner].pc = "idle" BY <1>1, <1>2
  <2>2. frame'[Runner].op = "none" /\ frame'[Runner].roots = {}
    BY <1>1, <2>1 DEF Lone, Seeding, IdleFrame
  <2> QED BY <1>1, <2>1, <2>2 DEF Lone, Seeding
<1>9. OnTheWay' BY <1>1, <1>4, <1>5, <1>7 DEF Lone, OnTheWay
<1>10. \A n : ~ AboutToLog(n)' /\ \A w \in Worker : ~ Announces(w, n)'
  BY <1>2 DEF AboutToLog, Announces, At
<1>11. AnnouncedOnce'
  <2>1. \A n \in Node : Announced(n)' => Announced(n) BY <1>6, <1>10 DEF Announced, Heard
  <2> QED BY <1>1, <1>6, <1>10, <2>1 DEF Lone, AnnouncedOnce
<1>12. InGoodHands' BY DEF InGoodHands, InHand
<1> QED BY <1>1, <1>7, <1>8, <1>9, <1>11, <1>12 DEF Lone

LEMMA AttachLone ==
  ASSUME LoneIInv, Launch \/ Reattach PROVE Lone'
<1>1. /\ Lone /\ Typed /\ OrchaIInv /\ Worker = {Runner} \cup Task /\ TasksTyped /\ Rows
      /\ nodes \subseteq Node
  BY RunnerFacts, TaskFacts DEF LoneIInv
<1>2. /\ UNCHANGED <<edges, tokens, nodeStatus, graphStatus, log, frame, left>>
      /\ dispatched' = Terminal /\ stream[Runner].pc \in {"off", "recover", "reemit"}
      /\ At(Runner, "idle") /\ task' = Orphan(task)
  BY DEF Launch, Reattach, Attach, Known, lattice, topology
<1>3. \A t \in Task : task[t].pc = "none" /\ At(t, "idle")
  BY <1>1, <1>2 DEF OrchaIInv, Detached, Live
<1>4. \A t \in Task : task'[t].pc = "none" BY <1>1, <1>2, <1>3, ReceiversChange
<1>5. Still /\ Still' BY <1>1, <1>2, <1>3 DEF Still, At
<1>6. stream'[Runner].cursor = 0
  <2>1. PICK p \in {"start", "open"} : Attach(p) BY DEF Launch, Reattach
  <2> QED BY <1>1, <2>1, RunnerStream DEF Attach, AtStart
<1>7. \A n \in Node : n \in dispatched' \/ n \in left' => nodeStatus[n] # "pending"
  BY <1>1, <1>2 DEF Lone, AnnouncedOnce, Terminal, IsTerminal
<1>8. ASSUME NEW n \in Node, nodeStatus[n] \in {"ready", "running"}
      PROVE  Heard(n) /\ Unread(n)' /\ n \notin dispatched'
  <2>1. Heard(n) BY <1>1, <1>5, <1>8 DEF Lone, AnnouncedOnce, Announces, Still, At
  <2>2. PICK i \in DOMAIN log : log[i] = Ev("NodeReady", n) BY <2>1 DEF Heard, Events
  <2>3. i > 0 BY <1>1, <2>2 DEF Typed, TypeOK
  <2>4. Unread(n)' BY <1>2, <1>6, <2>2, <2>3 DEF Unread
  <2> QED BY <1>2, <1>8, <2>1, <2>4 DEF Terminal, IsTerminal
<1> QED BY <1>2, <1>4, <1>5, <1>7, <1>8, StillLone

LEMMA RestartLone ==
  ASSUME LoneIInv, ~ RestartInCall, Restart PROVE Lone'
<1>1. /\ Lone /\ Typed /\ OrchaIInv /\ Worker = {Runner} \cup Task
  BY RunnerFacts
<1>2. /\ UNCHANGED <<edges, tokens, nodeStatus, graphStatus, log>>
      /\ dispatched' = {} /\ \A n \in left' : nodeStatus[n] # "pending"
  BY DEF Restart, topology
<1>3. /\ \A w \in Worker : frame'[w] = IdleFrame
      /\ \A t \in Task : task'[t].pc = "none"
  BY DEF Restart, NoTask
<1>4. Still' BY <1>3 DEF Still, At, IdleFrame
<1>5. ~ Driving'
  BY <1>1, RunnerStream DEF Restart, Driving, AtStart
<1>6. \A w \in Worker : At(w, "idle") \/ frame[w].op = "node" BY DEF Restart, Cuttable
<1>7. \A n \in Node : nodeStatus[n] \in {"ready", "running"} => Heard(n)
  BY <1>1, <1>6 DEF Lone, AnnouncedOnce, Announces, At
<1>8. \A t \in Task : frame'[t] = IdleFrame BY <1>1, <1>3
<1>9. frame'[Runner] = IdleFrame BY <1>1, <1>3
<1> QED BY <1>2, <1>3, <1>4, <1>5, <1>7, <1>8, <1>9, StillLone

LEMMA InitLone == OrchaInit => Lone /\ Rows
<1> SUFFICES ASSUME OrchaInit PROVE Lone /\ Rows OBVIOUS
<1>1. /\ nodes = InitNode /\ edges = InitEdge /\ tokens = {} /\ log = <<>>
      /\ \A n \in Node : nodeStatus[n] = "pending"
      /\ dispatched = {} /\ left = {}
      /\ \A w \in Worker : frame[w] = IdleFrame
      /\ \A t \in Task : task[t].pc = "none"
      /\ Runner \in Worker /\ Task \subseteq Worker
      /\ \A t \in Task : t[1] \in Node
  BY WorkerKinds DEF OrchaInit, Init, NoTask
<1>2. /\ IdleFrame.pc = "idle" /\ IdleFrame.queue = <<>> /\ IdleFrame.todo = {}
      /\ IdleFrame.op = "none" /\ IdleFrame.roots = {}
  BY DEF IdleFrame
<1> HIDE DEF IdleFrame
<1>3. \A n \in Node : LoneCall(IdleFrame, n) BY <1>2 DEF LoneCall, Passing
<1>4. ASSUME NEW t \in Task PROVE LoneCall(frame[t], t[1]) /\ Stage(t)
  <2>1. frame[t] = IdleFrame /\ ~ Holds(frame[t], t[1]) BY <1>1, <1>2 DEF Holds
  <2>2. ~ Begun(t) /\ ~ Live(t) BY <1>1, <1>2, <2>1 DEF Begun, Live, At
  <2> QED BY <1>1, <1>3, <2>1, <2>2 DEF Stage
<1>5. Seeding BY <1>1, <1>2 DEF Seeding
<1>6. \A e : ~ HasToken(e) BY <1>1 DEF HasToken
<1>7. \A t \in Task : ~ Visits(frame[t]) BY <1>1, <1>2 DEF Visits
<1>8. OnTheWay BY <1>1, <1>6, <1>7 DEF OnTheWay
<1>9. \A n : ~ Heard(n) /\ ~ AboutToLog(n) BY <1>1, <1>2 DEF Heard, Events, AboutToLog, At
<1>10. AnnouncedOnce
  <2>1. \A n : ~ Announced(n) BY <1>9 DEF Announced, Heard
  <2>2. \A w \in Worker : \A n : ~ Announces(w, n) BY <1>1, <1>2 DEF Announces, At
  <2> QED BY <1>1, <2>1, <2>2 DEF AnnouncedOnce
<1>11. InGoodHands BY <1>1 DEF InGoodHands
<1>12. Rows BY <1>1, <1>2 DEF Rows
<1> QED BY <1>1, <1>4, <1>5, <1>8, <1>10, <1>11, <1>12 DEF Lone
-----------------------------------------------------------------------------
(***************************************************************************)
(* The nodes that calls touch are rows.                                    *)
(***************************************************************************)
LEMMA RowsStay ==
  ASSUME LoneIInv, UNCHANGED nodes, frame'[Runner].roots \subseteq nodes,
         \A n \in Node : \/ nodeStatus'[n] = nodeStatus[n]
                         \/ nodeStatus[n] # "pending" \/ n \in nodes
  PROVE  Rows'
  BY DEF LoneIInv, Rows

LEMMA SetNodeRows ==
  ASSUME LoneIInv, NEW n, NEW s, NEW o, SetNode(n, s, o),
         n \in Node => nodeStatus[n] # "pending" \/ n \in nodes
  PROVE  \A m \in Node : \/ nodeStatus'[m] = nodeStatus[m]
                         \/ nodeStatus[m] # "pending" \/ m \in nodes
<1>1. Typed BY RunnerFacts
<1> QED BY <1>1 DEF SetNode, Typed, TypeOK

LEMMA EngineRows ==
  ASSUME NoJoins, LoneIInv, NEW w \in Worker, Engine(w) PROVE Rows'
<1>1. /\ Lone /\ Typed /\ edges = InitEdge /\ Worker = {Runner} \cup Task
      /\ frame[Runner] \in Frame /\ Rows /\ \A t \in Task : CallFacts(t)
      /\ Runner \in Worker
  BY RunnerFacts, CallIsLone DEF LoneIInv
<1>2. Step(w) /\ nodes' = nodes BY StepTopology DEF Engine
<1>3. frame'[Runner].roots \subseteq nodes
  <2>1. CASE w # Runner BY <1>1, <1>2, <2>1, StepIsLocal DEF Rows
  <2>2. CASE w = Runner
    <3> PICK f : f = frame[Runner] OBVIOUS
    <3>1. f.roots \subseteq nodes /\ f \in Frame BY <1>1 DEF Rows
    <3>2. IdleFrame.roots = {} BY DEF IdleFrame
    <3>3. f.pc \in {"idle", "roots", "seed", "ready", "done", "doneevent"}
      BY <1>1 DEF Lone, Seeding
    <3>4. \/ ReadRoots(w) \/ Seed(w) \/ Seeded(w) \/ CompleteGraph(w) \/ LogGraphDone(w)
          \/ LogReady(w)
      BY <1>2, <2>2, <3>3
      DEF Step, Pop, Mark, LogNode, Route, Deliver, Routed, FailGraph, LogGraphFailed, Finish,
          Check, NotEnabled, EnableTask, EnableGather, At
    <3>5. CASE Seeded(w) \/ LogGraphDone(w)
      <4>1. frame'[Runner] = IdleFrame
        BY <1>1, <2>2, <3>5, FrameIs DEF Seeded, LogGraphDone, Return
      <4> QED BY <3>2, <4>1
    <3>6. CASE CompleteGraph(w)
      <4>1. frame'[Runner] = [f EXCEPT !.pc = "doneevent"]
        BY <1>1, <2>2, <3>6, FrameIs DEF CompleteGraph, Goto
      <4> QED BY <3>1, <4>1 DEF Frame
    <3>7. CASE LogReady(w)
      <4>1. frame'[Runner] = Resume(f) BY <1>1, <2>2, <3>7, FrameIs DEF LogReady
      <4> QED BY <3>1, <3>2, <4>1 DEF Resume, Frame
    <3>8. CASE Seed(w)
      <4>1. PICK n \in f.roots : frame' = [frame EXCEPT ![Runner].pc = "ready",
                                    ![Runner].target = n, ![Runner].roots = @ \ {n}]
        BY <2>2, <3>8 DEF Seed
      <4>2. frame'[Runner] = [f EXCEPT !.pc = "ready", !.target = n, !.roots = @ \ {n}]
        BY <1>1, <4>1 DEF Typed
      <4> QED BY <3>1, <4>2 DEF Frame
    <3>9. CASE ReadRoots(w)
      <4> PICK roots : roots = Roots \ Gather OBVIOUS
      <4>1. \/ frame'[Runner] = [f EXCEPT !.pc = "done"]
            \/ frame'[Runner] = [f EXCEPT !.pc = "seed", !.roots = roots]
        BY <1>1, <2>2, <3>9, FrameIs DEF ReadRoots
      <4>2. roots \subseteq nodes BY DEF Roots
      <4> QED BY <3>1, <4>1, <4>2 DEF Frame
    <3> QED BY <3>4, <3>5, <3>6, <3>7, <3>8, <3>9
  <2> QED BY <2>1, <2>2
<1>4. CASE UNCHANGED nodeStatus BY <1>2, <1>3, <1>4, RowsStay
<1>5. ASSUME NEW n, NEW s, NEW o, SetNode(n, s, o),
             n \in Node => nodeStatus[n] # "pending" \/ n \in nodes
      PROVE  Rows'
  BY <1>2, <1>3, <1>5, SetNodeRows, RowsStay
<1>6. CASE Seed(w)
  <2>1. frame[w].pc = "seed" BY <1>6 DEF Seed, At
  <2>2. w = Runner
    BY <1>1, <2>1 DEF CallFacts, LoneCall, Passing
  <2> QED BY <1>1, <1>5, <1>6, <2>2 DEF Seed, Rows
<1>7. CASE Mark(w)
  <2>1. frame[w].pc = "mark" BY <1>7 DEF Mark, At
  <2>2. w \in Task BY <1>1, <2>1 DEF Lone, Seeding
  <2>3. Holds(frame[w], frame[w].node) BY <2>1 DEF Holds
  <2>4. frame[w].node \in Node BY <1>1, <2>1, CallFrame, FrameFields DEF TypedFrame
  <2>5. frame[w].node = w[1] BY <1>1, <2>2, <2>3, <2>4 DEF CallFacts
  <2>6. nodeStatus[frame[w].node] \in {"ready", "running"}
    BY <1>1, <2>2, <2>3, <2>5 DEF Lone, Stage, Begun
  <2> QED BY <1>5, <1>7, <2>6 DEF Mark
<1>8. CASE EnableTask(w)
  <2>1. frame[w].pc = "enable" BY <1>8 DEF EnableTask, At
  <2>2. w \in Task BY <1>1, <2>1 DEF Lone, Seeding
  <2>3. \E e \in InitEdge : frame[w].target = To[e]
    BY <1>1, <2>1, <2>2 DEF CallFacts, LoneCall, Passing, EdgesFrom
  <2>4. frame[w].target \in nodes BY <1>1, <2>3, GraphAssumption DEF Rows
  <2> QED BY <1>5, <1>8, <2>4 DEF EnableTask
<1>9. ~ EnableGather(w) BY DEF EnableGather, NoJoins
<1> QED BY <1>2, <1>4, <1>6, <1>7, <1>8, <1>9
  DEF Step, ReadRoots, Seeded, Pop, LogNode, Route, Deliver, Routed, FailGraph, LogGraphFailed,
      Finish, CompleteGraph, LogGraphDone, Check, NotEnabled, LogReady

LEMMA OtherRows ==
  ASSUME LoneIInv, [OrchaNext]_runnerVars, ~ \E w \in Worker : Engine(w)
  PROVE  Rows'
<1>1. /\ Typed /\ Rows /\ Lone /\ Runner \in Worker /\ Runner \notin Task /\ TasksTyped
      /\ \A t \in Task : t # Runner
  BY RunnerFacts, TaskFacts DEF LoneIInv
<1>2. CASE UNCHANGED <<nodes, nodeStatus, frame>> BY <1>1, <1>2 DEF Rows
<1>3. ASSUME UNCHANGED <<nodes, nodeStatus>>, frame'[Runner].roots = {} PROVE Rows'
  BY <1>1, <1>3 DEF Rows
<1>4. ASSUME NEW n, EmitReady(n) PROVE frame'[Runner].roots = {}
  <2> DEFINE g == [IdleFrame EXCEPT !.pc = "ready", !.op = "node", !.target = n]
  <2>1. g.roots = {} BY DEF IdleFrame
  <2> HIDE DEF g
  <2>2. frame' = [frame EXCEPT ![Runner] = g] BY <1>4 DEF EmitReady, g
  <2>3. frame'[Runner] = g BY <1>1, <2>2 DEF Typed
  <2> QED BY <2>1, <2>3
<1>5. CASE \E t \in Task : Run(t) \/ Result(t)
  <2>1. PICK t \in Task : Run(t) \/ Result(t) BY <1>5
  <2>2. CASE StartNode(t)
    <3>1. nodeStatus[t[1]] # "pending" BY <1>1, <2>2 DEF StartNode, Lone, Stage, Begun
    <3>2. \A m \in Node : \/ nodeStatus'[m] = nodeStatus[m]
                          \/ nodeStatus[m] # "pending" \/ m \in nodes
      BY <2>2, <3>1, SetNodeRows DEF StartNode
    <3>3. nodes' = nodes /\ frame'[Runner].roots \subseteq nodes
      BY <1>1, <2>2 DEF StartNode, topology, Rows
    <3> QED BY <3>2, <3>3, RowsStay
  <2>3. CASE LogStarted(t) BY <1>2, <2>3 DEF LogStarted, topology
  <2>4. CASE Succeed(t) \/ Fail(t) \/ Abort(t)
    <3>1. UNCHANGED <<nodes, nodeStatus>>
      BY <2>4 DEF Succeed, Fail, Abort, taskUnchanged, topology
    <3>2. UNCHANGED frame \/ \E failed : ReportResult(t, failed)
      BY <2>4 DEF Succeed, Fail, Abort, AttemptFails
    <3>3. frame'[Runner] = frame[Runner]
      BY <1>1, <3>2 DEF ReportResult, Advance, Typed
    <3> QED BY <1>1, <3>1, <3>3 DEF Rows
  <2> QED BY <2>1, <2>2, <2>3, <2>4 DEF Run, Result
<1>6. CASE StartGraph
  <2> DEFINE g == [IdleFrame EXCEPT !.pc = "roots", !.op = "start"]
  <2>1. g.roots = {} BY DEF IdleFrame
  <2> HIDE DEF g
  <2>2. frame' = [frame EXCEPT ![Runner] = g] BY <1>6 DEF StartGraph, Start, g
  <2>3. frame'[Runner] = g BY <1>1, <2>2 DEF Typed
  <2> QED BY <1>3, <1>6, <2>1, <2>3 DEF StartGraph, Start, topology
<1>7. CASE Restart
  <2>1. frame'[Runner].roots = {} BY <1>1, <1>7 DEF Restart, IdleFrame
  <2> QED BY <1>3, <1>7, <2>1 DEF Restart, topology
<1>8. CASE ResetRunning
  <2>1. PICK n : nodeStatus[n] = "running" /\ SetNode(n, "ready", {}) /\ EmitReady(n)
    BY <1>8 DEF ResetRunning
  <2>2. \A m \in Node : \/ nodeStatus'[m] = nodeStatus[m]
                        \/ nodeStatus[m] # "pending" \/ m \in nodes
    BY <2>1, SetNodeRows
  <2>3. frame'[Runner].roots \subseteq nodes BY <1>4, <2>1
  <2> QED BY <1>8, <2>2, <2>3, RowsStay DEF ResetRunning, topology
<1>9. CASE ReemitReady BY <1>3, <1>4, <1>9 DEF ReemitReady, topology
<1>10. CASE Read(Runner) \/ Dispatch \/ Launch \/ CancelGraph \/ FindReady \/ Reattach
            \/ UNCHANGED runnerVars
  BY <1>2, <1>10 DEF Read, Open, Fetch, Wait, Dispatch, Consume, Launch, CancelGraph, FindReady,
                     Reattach, lattice, topology, runnerVars
<1> QED BY <1>5, <1>6, <1>7, <1>8, <1>9, <1>10 DEF OrchaNext, Recover
-----------------------------------------------------------------------------
(***************************************************************************)
(* The theorem.                                                            *)
(***************************************************************************)
LEMMA NextLone ==
  ASSUME NoJoins, ~ RestartInCall, LoneIInv, [OrchaNext]_runnerVars
  PROVE  LoneIInv'
<1>1. RecoveryIInv' /\ Numbered' /\ Awake'
  BY NextSettles, OrchaNextAwake DEF LoneIInv, RecoveryIInv
<1>2. Rows' BY EngineRows, OtherRows
<1>3. Lone'
  <2>1. CASE \E w \in Worker : Engine(w) BY <2>1, EngineLone
  <2>2. CASE \E t \in Task : Run(t) \/ Result(t)
    BY <2>2, StartNodeLone, LogStartedLone, AnswerLone DEF Run, Result
  <2>3. CASE Read(Runner) \/ Dispatch BY <2>3, ReadLone, DispatchLone
  <2>4. CASE Launch \/ StartGraph \/ CancelGraph
    BY <2>4, AttachLone, StartGraphLone, CancelGraphLone
  <2>5. CASE Restart \/ Recover
    BY <2>5, RestartLone, ReemissionLone, FindReadyLone, AttachLone DEF Recover
  <2>6. CASE UNCHANGED runnerVars
    <3>1. UNCHANGED <<edges, tokens, nodeStatus, graphStatus, dispatched, frame, log, left,
                      task, stream>>
      BY <2>6 DEF runnerVars, lattice, topology, notify, orcha
    <3>2. StreamKept BY <3>1 DEF StreamKept, Driving, Unread
    <3> QED BY <3>1, <3>2, QuietTables
  <2> QED BY <2>1, <2>2, <2>3, <2>4, <2>5, <2>6 DEF OrchaNext
<1> QED BY <1>1, <1>2, <1>3 DEF LoneIInv

LEMMA LoneAlways ==
  ASSUME NoJoins, ~ RestartInCall PROVE OrchaSpec => []LoneIInv
<1>1. OrchaInit => LoneIInv
  BY OrchaInitIInv, InitSettles, OrchaInitAwake, InitLone DEF LoneIInv, RecoveryIInv
<1>2. LoneIInv /\ [OrchaNext]_runnerVars => LoneIInv' BY NextLone
<1> QED BY <1>1, <1>2, PTL DEF OrchaSpec

\* run_graph_execution and recover_running_graphs: in a graph without joins, and with any
\* number of restarts between calls, no node is left behind: while a dispatcher runs, a node
\* that is ready or running has a task, or its NodeReady is about to be logged, or the
\* dispatcher has still to read it and will act on it.
THEOREM NothingLeftBehind ==
  ASSUME NoJoins, ~ RestartInCall PROVE OrchaSpec => []NothingAbandoned
<1>1. LoneIInv => NothingAbandoned
  BY RunnerFacts DEF Lone, InGoodHands, InHand, NothingAbandoned
<1> QED BY <1>1, LoneAlways, PTL

-----------------------------------------------------------------------------
(***************************************************************************)
(* No dead end: in such graphs, without cycles, and as long as no failure  *)
(* was handed on, a dispatcher that has read everything waits for a task.  *)
(***************************************************************************)
\* A graph is acyclic if every set of its nodes has one that none of the set precedes.
Acyclic ==
    \A S \in SUBSET InitNode : S # {} =>
        \E n \in S : \A e \in InitEdge : To[e] = n => From[e] \notin S

\* Every edge takes the token of a success, as those of depends_on do.
SuccessFlows == \A e \in InitEdge : Cond[e] \in {"ok", "any"}

\* A node has failed whose error token an edge takes: a graph of agents may then never
\* report.  Failing: a call that is about to log a failure.
HandedOn == \E e \in InitEdge : Cond[e] # "ok" /\ Ev("NodeFailed", From[e]) \in Events
Failing(f) == \/ \E i \in DOMAIN f.queue : f.queue[i].failed
              \/ f.pc \in {"mark", "log"} /\ f.failed
HandsOn ==
    \E e \in InitEdge : /\ Cond[e] # "ok"
                        /\ \/ Ev("NodeFailed", From[e]) \in Events
                           \/ \E t \in Task : t[1] = From[e] /\ Failing(frame[t])

\* What a task reports: one token of the colour of its answer.  No edge takes a failure.
Reports(S, failed, n) ==
    /\ \E x \in Token : S = {x} /\ x.color = IF failed THEN "error" ELSE "ok"
    /\ failed => \A e \in EdgesFrom(n) : Cond[e] = "ok"

\* A call with a failure has nothing to deliver and goes on to fail the graph.
EndCall(f, n) ==
    /\ \A i \in DOMAIN f.queue : Reports(f.queue[i].out, f.queue[i].failed, n)
    /\ f.pc \in {"mark", "log", "route"} \cup Passing => Reports(f.out, f.failed, n)
    /\ f.failed => f.pc \in {"mark", "log", "route", "failgraph", "failevent"}
    /\ f.failed /\ f.pc = "route" => f.todo = {} /\ ~ f.any
    /\ f.pc \in {"failgraph", "failevent"} => f.failed

\* A task whose answer is recorded and whose call has not ended.
Past(t) == Live(t) /\ ~ Begun(t)
AnswersStand ==
    \A t \in Task : Past(t) =>
        nodeStatus[t[1]] = IF frame[t].failed THEN "failed" ELSE "complete"

Delivered ==
    \A e \in InitEdge : nodeStatus[From[e]] = "complete" =>
        HasToken(e) \/ \E t \in Task : Owes(frame[t], e)
Noticed ==
    \A e \in InitEdge : HasToken(e) /\ nodeStatus[To[e]] = "pending" =>
        \E t \in Task : Visits(frame[t]) /\ frame[t].hop.edge = e

\* start_graph seeds every root.
RootsTold ==
    LET f == frame[Runner] IN
    /\ f.pc \notin {"seed", "ready"} \/ f.op = "node" => f.roots = {}
    /\ \A n \in nodes : Inbound(n) = {} /\ nodeStatus[n] = "pending" =>
           graphStatus = "pending" \/ f.pc = "roots" \/ n \in f.roots

Ended == \E e \in Events : Ends(e)
FailureTold ==
    \A n \in Node : nodeStatus[n] = "failed" =>
        Ended \/ \E t \in Task : t[1] = n /\ Past(t)
Starting == graphStatus = "pending" \/ frame[Runner].pc \in {"roots", "done", "doneevent"}
CompletionTold == AllComplete => Starting \/ Ended \/ \E t \in Task : Past(t)

\* A dispatcher that listens has heard of no end.
Listening ==
    LET p == stream[Runner].pc IN
    /\ Driving => \A i \in DOMAIN log : i <= stream[Runner].cursor => ~ Ends(log[i])
    /\ p \in {"fetch", "batch", "wait"} => At(Runner, "idle")
    /\ p \in {"recover", "reemit", "open", "fetch", "batch", "wait"} => graphStatus # "pending"

Ending == /\ \A t \in Task : EndCall(frame[t], t[1])
          /\ AnswersStand /\ Delivered /\ Noticed /\ FailureTold /\ CompletionTold
EndIInv == LoneIInv /\ RootsTold /\ Listening /\ (HandsOn \/ Ending)
-----------------------------------------------------------------------------
(***************************************************************************)
(* Listening.                                                              *)
(***************************************************************************)
NoEndUpTo(c) == \A i \in DOMAIN log : i <= c => ~ Ends(log[i])
LogExtended == log' = log \/ \E e : log' = Append(log, e)

LEMMA NoEndStays ==
  ASSUME Typed, LogExtended, NEW c \in Nat, c <= Len(log), NoEndUpTo(c)
  PROVE  NoEndUpTo(c)'
<1>1. log \in Seq(Event) BY DEF Typed, TypeOK
<1>2. \A i \in DOMAIN log' : (i \in DOMAIN log /\ log'[i] = log[i]) \/ i = Len(log) + 1
  BY <1>1 DEF LogExtended
<1>3. Len(log) \in Nat BY <1>1
<1> QED BY <1>2, <1>3 DEF NoEndUpTo

LEMMA EndedStays ==
  ASSUME Typed, LogExtended, Ended PROVE Ended'
<1>1. CASE log' = log BY <1>1 DEF Ended, Events
<1>2. ASSUME NEW e, log' = Append(log, e) PROVE Ended'
  BY <1>2, AppendAddsEvent DEF Ended
<1> QED BY <1>1, <1>2 DEF LogExtended

\* What is known of the dispatcher's stream.
LEMMA ReadUpTo ==
  ASSUME LoneIInv
  PROVE  /\ stream[Runner].cursor \in Nat /\ stream[Runner].upto \in Nat /\ Len(log) \in Nat
         /\ stream[Runner].cursor <= stream[Runner].upto /\ stream[Runner].upto <= Len(log)
         /\ stream \in [Stream -> StreamState] /\ Runner \in Stream
         /\ DOMAIN log = 1..Len(log)
<1>1. OrchaIInv /\ Awake /\ Typed BY RunnerFacts
<1>2. stream[Runner] \in StreamState /\ stream \in [Stream -> StreamState] /\ Runner \in Stream
  BY <1>1, RunnerStream
<1>3. log \in Seq(Event) BY <1>1 DEF Typed, TypeOK
<1> QED BY <1>1, <1>2, <1>3 DEF Awake, StreamState

LEMMA ListensOn ==
  ASSUME LoneIInv, Listening, LogExtended,
         stream'[Runner].cursor = stream[Runner].cursor,
         \/ stream'[Runner].pc = stream[Runner].pc
         \/ stream[Runner].pc = "wait" /\ stream'[Runner].pc = "fetch",
         \/ frame'[Runner] = frame[Runner]
         \/ stream[Runner].pc \notin {"fetch", "batch", "wait"},
         graphStatus # "pending" => graphStatus' # "pending"
  PROVE  Listening'
<1>1. Typed BY RunnerFacts
<1> PICK c : c = stream[Runner].cursor OBVIOUS
<1>2. c \in Nat /\ c <= Len(log) BY ReadUpTo
<1>3. Driving' => NoEndUpTo(c)'
  <2>1. Driving' => Driving BY DEF Driving
  <2>2. Driving => NoEndUpTo(c) BY DEF Listening, NoEndUpTo
  <2> QED BY <1>1, <1>2, <2>1, <2>2, NoEndStays
<1> QED BY <1>3 DEF Listening, NoEndUpTo, At

LEMMA StatusStarts ==
  ASSUME NEW w \in Worker, Step(w), graphStatus # "pending" PROVE graphStatus' # "pending"
  BY DEF Step, ReadRoots, Seed, Seeded, Pop, Mark, LogNode, Route, Deliver, Routed,
         FailGraph, LogGraphFailed, Finish, CompleteGraph, LogGraphDone, Check,
         NotEnabled, EnableTask, EnableGather, LogReady

LEMMA StepExtendsLog ==
  ASSUME NEW w \in Worker, Step(w) PROVE LogExtended
  BY DEF LogExtended, Step, ReadRoots, Seed, Seeded, Pop, Mark, LogNode, Route, Deliver, Routed,
         FailGraph, LogGraphFailed, Finish, CompleteGraph, LogGraphDone, Check,
         NotEnabled, EnableTask, EnableGather, LogReady, Persist

LEMMA EngineListens ==
  ASSUME LoneIInv, Listening, NEW w \in Worker, Engine(w) PROVE Listening'
<1>1. OrchaIInv /\ Awake /\ Typed /\ Runner \in Worker BY RunnerFacts
<1>2. Step(w) /\ NotifyStep BY DEF Engine, NotifyStep
<1>3. frame'[Runner] = frame[Runner] \/ stream[Runner].pc \notin {"fetch", "batch", "wait"}
  <2>1. ~ At(w, "idle") /\ \A u \in Worker \ {w} : frame'[u] = frame[u]
    BY <1>1, <1>2, StepIsLocal
  <2> QED BY <1>1, <2>1 DEF Listening
<1> QED BY <1>1, <1>2, <1>3, NotifyStream, StatusStarts, StepExtendsLog, ListensOn

LEMMA ReadListens ==
  ASSUME LoneIInv, Listening, Read(Runner) PROVE Listening'
<1>1. UNCHANGED <<log, frame, graphStatus>> BY DEF Read, Open, Fetch, Wait, lattice
<1>2. /\ stream[Runner].cursor \in Nat /\ stream[Runner].upto \in Nat
      /\ stream \in [Stream -> StreamState] /\ Runner \in Stream /\ DOMAIN log = 1..Len(log)
      /\ Len(log) \in Nat
  BY ReadUpTo
<1>3. Driving /\ stream[Runner].pc \in {"open", "fetch", "batch"}
  BY DEF Read, Open, Fetch, Wait, Driving
<1>4. At(Runner, "idle") /\ graphStatus # "pending"
  BY <1>3 DEF Listening, Read, Open, Fetch, Wait
<1>5. stream'[Runner].pc \in {"fetch", "batch", "wait"}
  BY <1>2 DEF Read, Open, Fetch, Wait, StreamState
<1>6. \A i \in DOMAIN log : i <= stream'[Runner].cursor => ~ Ends(log[i])
  <2>1. CASE Open(Runner) \/ Fetch(Runner)
    <3>1. stream'[Runner].cursor = stream[Runner].cursor
      BY <1>2, <2>1 DEF Open, Fetch, StreamState
    <3> QED BY <1>3, <3>1 DEF Listening
  <2>2. CASE Wait(Runner)
    <3>1. stream'[Runner].cursor = stream[Runner].upto BY <1>2, <2>2 DEF Wait, StreamState
    <3>2. Relevant(Runner) = {} BY <2>2 DEF Wait
    <3> QED BY <1>2, <1>3, <3>1, <3>2 DEF Listening, Relevant
  <2> QED BY <2>1, <2>2 DEF Read
<1> QED BY <1>1, <1>4, <1>5, <1>6 DEF Listening, At

LEMMA DispatchListens ==
  ASSUME LoneIInv, Listening, Dispatch PROVE Listening'
<1>1. PICK i \in DOMAIN log : Consume(Runner, i) BY DEF Dispatch
<1>2. UNCHANGED <<log, frame, graphStatus>> BY <1>1 DEF Consume, lattice
<1>3. /\ stream[Runner].cursor \in Nat /\ stream[Runner].upto \in Nat
      /\ stream \in [Stream -> StreamState] /\ Runner \in Stream /\ DOMAIN log = 1..Len(log)
      /\ Len(log) \in Nat
  BY ReadUpTo
<1>4. Driving /\ stream[Runner].pc = "batch" BY <1>1 DEF Consume, Driving
<1>5. /\ stream'[Runner].cursor = i
      /\ stream'[Runner].pc = IF Ends(log[i]) THEN "closed" ELSE "batch"
  BY <1>1, <1>3, <1>4 DEF Consume, Position, StreamState
<1>6. CASE Ends(log[i])
  <2>1. stream'[Runner].pc = "closed" BY <1>5, <1>6
  <2> QED BY <2>1 DEF Listening, Driving
<1>7. CASE ~ Ends(log[i])
  <2>1. ASSUME NEW j \in DOMAIN log, j <= i, Ends(log[j]) PROVE FALSE
    <3>1. j < i
      <4>1. j # i BY <1>7, <2>1
      <4> QED BY <1>3, <2>1, <4>1
    <3>2. j > stream[Runner].cursor BY <1>3, <1>4, <2>1 DEF Listening
    <3>3. i <= stream[Runner].upto BY <1>1, <1>3 DEF Consume, Relevant
    <3>4. j \in Relevant(Runner) BY <1>3, <2>1, <3>1, <3>2, <3>3 DEF Relevant
    <3>5. i <= j BY <1>1, <3>4 DEF Consume
    <3> QED BY <1>3, <3>1, <3>5
  <2>2. At(Runner, "idle") /\ graphStatus # "pending" BY <1>4 DEF Listening
  <2> QED BY <1>2, <1>5, <1>7, <2>1, <2>2 DEF Listening, At
<1> QED BY <1>6, <1>7

LEMMA RestListens ==
  ASSUME LoneIInv, Listening,
         Launch \/ StartGraph \/ CancelGraph \/ Restart \/ Recover
            \/ \E t \in Task : Run(t) \/ Result(t)
  PROVE  Listening'
<1>1. /\ OrchaIInv /\ Awake /\ Typed /\ Runner \in Worker /\ \A t \in Task : t # Runner
  BY RunnerFacts, WorkerKinds
<1>2. /\ stream \in [Stream -> StreamState] /\ Runner \in Stream /\ DOMAIN log = 1..Len(log)
      /\ Len(log) \in Nat /\ stream[Runner].cursor \in Nat
  BY ReadUpTo
<1>3. ASSUME stream'[Runner].cursor = 0, UNCHANGED log,
             stream'[Runner].pc \notin {"fetch", "batch", "wait"},
             stream'[Runner].pc \in {"open", "recover", "reemit"} => graphStatus' # "pending"
      PROVE  Listening'
  BY <1>2, <1>3 DEF Listening
<1>4. ASSUME NEW p, Attach(p) PROVE stream'[Runner].cursor = 0 /\ stream'[Runner].pc = p
  BY <1>2, <1>4 DEF Attach, AtStart
<1>5. CASE Launch
  <2>1. Attach("start") BY <1>5 DEF Launch
  <2> QED BY <1>3, <1>4, <1>5, <2>1 DEF Launch, lattice
<1>6. CASE Reattach
  <2>1. Attach("open") /\ graphStatus # "pending" BY <1>6 DEF Reattach, Listening
  <2> QED BY <1>3, <1>4, <1>6, <2>1 DEF Reattach, lattice
<1>7. CASE Restart
  <2>1. stream'[Runner] = AtStart(IF Tracked /\ graphStatus = "running" THEN "recover" ELSE "off")
    BY <1>2, <1>7 DEF Restart
  <2> QED BY <1>3, <1>7, <2>1 DEF Restart, AtStart
<1>8. CASE StartGraph
  <2>1. /\ stream[Runner].pc = "start" /\ stream'[Runner].pc = "open"
        /\ stream'[Runner].cursor = stream[Runner].cursor
        /\ graphStatus' # "pending" /\ log' = log
    BY <1>2, <1>8 DEF StartGraph, Start, StreamState
  <2> QED BY <2>1 DEF Listening, Driving
<1>9. CASE FindReady
  <2>1. /\ stream[Runner].pc = "recover" /\ stream'[Runner].pc = "reemit"
        /\ graphStatus' = graphStatus
    BY <1>2, <1>9 DEF FindReady, StreamState, lattice
  <2> QED BY <2>1 DEF Listening, Driving
<1>10. CASE ResetRunning \/ ReemitReady
  <2>1. /\ UNCHANGED <<stream, log, graphStatus>> /\ stream[Runner].pc \in {"recover", "reemit"}
    BY <1>10 DEF ResetRunning, ReemitReady, notify
  <2> QED BY <2>1 DEF Listening, Driving
<1>11. CASE CancelGraph
  BY <1>11, ListensOn DEF CancelGraph, lattice, notify, LogExtended
<1>12. CASE \E t \in Task : Run(t) \/ Result(t)
  <2>1. PICK t \in Task : Run(t) \/ Result(t) BY <1>12
  <2>2. NotifyStep /\ UNCHANGED graphStatus /\ LogExtended
    BY <2>1 DEF Run, Result, StartNode, LogStarted, Succeed, Fail, Abort, taskUnchanged,
                NotifyStep, LogExtended, Persist
  <2>3. frame'[Runner] = frame[Runner]
    <3>1. UNCHANGED frame \/ \E failed : ReportResult(t, failed)
      BY <2>1 DEF Run, Result, StartNode, LogStarted, Succeed, Fail, Abort, AttemptFails
    <3> QED BY <1>1, <3>1 DEF ReportResult, Advance, Typed
  <2> QED BY <1>1, <2>2, <2>3, NotifyStream, ListensOn
<1> QED BY <1>5, <1>6, <1>7, <1>8, <1>9, <1>10, <1>11, <1>12 DEF Recover

LEMMA NextListens ==
  ASSUME LoneIInv, Listening, [OrchaNext]_runnerVars PROVE Listening'
<1>1. CASE UNCHANGED runnerVars
  <2>1. UNCHANGED <<stream, frame, log, graphStatus>>
    BY <1>1 DEF runnerVars, lattice, notify
  <2> QED BY <2>1, ListensOn DEF LogExtended
<1> QED BY <1>1, EngineListens, ReadListens, DispatchListens, RestListens DEF OrchaNext
-----------------------------------------------------------------------------
(***************************************************************************)
(* The roots.                                                              *)
(***************************************************************************)
\* Before the graph starts nothing goes on.
LEMMA PendingIsQuiet ==
  ASSUME LoneIInv, Listening, graphStatus = "pending"
  PROVE  /\ \A n \in Node : nodeStatus[n] = "pending"
         /\ At(Runner, "idle")
         /\ \A t \in Task : ~ Live(t) /\ At(t, "idle")
<1>1. Lone /\ \A t \in Task : t[1] \in Node BY RunnerFacts, WorkerKinds
<1>2. \A n \in Node : nodeStatus[n] = "pending" BY <1>1 DEF Lone, Seeding
<1>3. At(Runner, "idle") BY <1>1 DEF Lone, Seeding, Listening, At
<1>4. \A t \in Task : ~ Live(t) BY <1>1, <1>2 DEF Lone, Stage, IsTerminal
<1> QED BY <1>2, <1>3, <1>4 DEF Live

LEMMA RootsKept ==
  ASSUME LoneIInv, RootsTold, UNCHANGED <<nodes, edges>>, frame'[Runner] = frame[Runner],
         \A n \in Node : nodeStatus'[n] = "pending" => nodeStatus[n] = "pending",
         graphStatus = "pending" => graphStatus' = "pending"
  PROVE  RootsTold'
<1>1. nodes \subseteq Node BY RunnerFacts
<1>2. \A n : Inbound(n)' = Inbound(n) BY DEF Inbound
<1> QED BY <1>1, <1>2 DEF RootsTold

\* All roots are seeded, and the call that did it is over or does not need its roots.
LEMMA RootsDone ==
  ASSUME LoneIInv, UNCHANGED <<nodes, edges>>, frame'[Runner].roots = {},
         \A n \in Node : nodeStatus'[n] = "pending" => nodeStatus[n] = "pending",
         \A n \in nodes : Inbound(n) = {} /\ nodeStatus[n] = "pending" => graphStatus' = "pending"
  PROVE  RootsTold'
<1>1. nodes \subseteq Node BY RunnerFacts
<1>2. \A n : Inbound(n)' = Inbound(n) BY DEF Inbound
<1> QED BY <1>1, <1>2 DEF RootsTold

LEMMA EngineRoots ==
  ASSUME NoJoins, LoneIInv, RootsTold, Listening, NEW w \in Worker, Engine(w)
  PROVE  RootsTold'
<1>1. /\ Lone /\ Typed /\ Worker = {Runner} \cup Task /\ Runner \in Worker /\ Runner \notin Task
      /\ frame[Runner] \in Frame /\ nodes \subseteq Node
  BY RunnerFacts
<1>2. Step(w) BY DEF Engine
<1>3. /\ nodes' = nodes
      /\ \A n \in Node : nodeStatus'[n] = "pending" => nodeStatus[n] = "pending"
  BY <1>1, <1>2, StepTopology, StepMoves DEF StatusMoves, IsTerminal
<1>4. graphStatus # "pending"
  <2>1. ~ At(w, "idle") BY <1>1, <1>2, StepIsLocal
  <2> QED BY <1>1, <2>1, PendingIsQuiet
<1>5. CASE w \in Task
  <2>1. edges' = edges BY <1>5, EngineOfTask DEF TaskStep
  <2>2. frame'[Runner] = frame[Runner] BY <1>1, <1>2, <1>5, StepIsLocal
  <2> QED BY <1>3, <1>4, <2>1, <2>2, RootsKept
<1>6. CASE w = Runner
  <2> PICK f : f = frame[Runner] OBVIOUS
  <2>1. /\ f.pc \in {"idle", "roots", "seed", "ready", "done", "doneevent"} /\ f \in Frame
        /\ f.pc \in {"roots", "seed", "done", "doneevent"} => f.op = "start"
    BY <1>1 DEF Lone, Seeding
  <2>2. \/ ReadRoots(w) \/ Seed(w) \/ Seeded(w) \/ CompleteGraph(w) \/ LogGraphDone(w)
        \/ LogReady(w)
    BY <1>2, <1>6, <2>1
    DEF Step, Pop, Mark, LogNode, Route, Deliver, Routed, FailGraph, LogGraphFailed, Finish,
        Check, NotEnabled, EnableTask, EnableGather, At
  <2>3. edges' = edges
    BY <2>2 DEF ReadRoots, Seed, Seeded, CompleteGraph, LogGraphDone, LogReady, topology
  <2>4. \A n : Inbound(n)' = Inbound(n) BY <2>3 DEF Inbound
  <2>5. IdleFrame.roots = {} BY DEF IdleFrame
  <2>6. ASSUME Return(w), f.roots = {}, f.pc # "roots" PROVE RootsTold'
    <3>1. frame'[Runner] = IdleFrame BY <1>1, <1>6, <2>6, FrameIs DEF Return
    <3> QED BY <1>3, <1>4, <2>3, <2>5, <2>6, <3>1, RootsDone DEF RootsTold
  <2>7. CASE ReadRoots(w)
    <3>1. f.pc = "roots" /\ f.roots = {} /\ f.op = "start"
      BY <1>6, <2>1, <2>7 DEF ReadRoots, At, RootsTold
    <3>2. CASE Roots = {}
      <4>1. frame'[Runner] = [f EXCEPT !.pc = "done"]
        BY <1>1, <1>6, <2>7, <3>2, FrameIs DEF ReadRoots
      <4>2. frame'[Runner].roots = {} BY <2>1, <3>1, <4>1 DEF Frame
      <4> QED BY <1>3, <2>3, <3>2, <4>2, RootsDone DEF Roots
    <3>3. CASE Roots # {}
      <4> PICK roots : roots = Roots \ Gather OBVIOUS
      <4>1. frame'[Runner] = [f EXCEPT !.pc = "seed", !.roots = roots]
        BY <1>1, <1>6, <2>7, <3>3, FrameIs DEF ReadRoots
      <4>2. frame'[Runner].pc = "seed" /\ frame'[Runner].roots = roots /\ frame'[Runner].op = "start"
        BY <2>1, <3>1, <4>1 DEF Frame
      <4>3. roots = Roots BY DEF NoJoins
      <4> QED BY <1>1, <1>3, <2>4, <4>2, <4>3 DEF RootsTold, Roots
    <3> QED BY <3>2, <3>3
  <2>8. CASE Seed(w)
    <3>1. PICK n \in f.roots :
             /\ SetNode(n, "ready", {})
             /\ frame' = [frame EXCEPT ![Runner].pc = "ready", ![Runner].target = n,
                                       ![Runner].roots = @ \ {n}]
      BY <1>6, <2>8 DEF Seed
    <3> PICK rest : rest = f.roots \ {n} OBVIOUS
    <3>2. frame'[Runner] = [f EXCEPT !.pc = "ready", !.target = n, !.roots = rest]
      BY <1>1, <3>1 DEF Typed
    <3>3. f.pc = "seed" /\ f.op = "start" BY <1>6, <2>1, <2>8 DEF Seed, At
    <3>4. frame'[Runner].pc = "ready" /\ frame'[Runner].op = "start" /\ frame'[Runner].roots = rest
      BY <2>1, <3>2, <3>3 DEF Frame
    <3>5. n \in Node /\ nodeStatus'[n] = "ready"
      <4>1. f.roots \subseteq Node BY <1>1, NodesOfCalls
      <4> QED BY <1>1, <3>1, <4>1 DEF SetNode, Typed, TypeOK
    <3>6. \A m \in nodes : Inbound(m) = {} /\ nodeStatus[m] = "pending" => m \in f.roots
      BY <1>4, <3>3 DEF RootsTold
    <3> QED BY <1>1, <1>3, <2>4, <3>4, <3>5, <3>6 DEF RootsTold
  <2>9. CASE Seeded(w)
    <3>1. f.roots = {} /\ f.pc = "seed" BY <1>6, <2>9 DEF Seeded, At
    <3> QED BY <2>6, <2>9, <3>1 DEF Seeded
  <2>10. CASE LogGraphDone(w)
    <3>1. f.roots = {} /\ f.pc = "doneevent" BY <1>6, <2>10 DEF LogGraphDone, At, RootsTold
    <3> QED BY <2>6, <2>10, <3>1 DEF LogGraphDone
  <2>11. CASE CompleteGraph(w)
    <3>1. f.roots = {} /\ f.pc = "done" BY <1>6, <2>11 DEF CompleteGraph, At, RootsTold
    <3>2. frame'[Runner] = [f EXCEPT !.pc = "doneevent"]
      BY <1>1, <1>6, <2>11, FrameIs DEF CompleteGraph, Goto
    <3>3. frame'[Runner].roots = {} BY <2>1, <3>1, <3>2 DEF Frame
    <3> QED BY <1>3, <1>4, <2>3, <3>1, <3>3, RootsDone DEF RootsTold
  <2>12. CASE LogReady(w)
    <3>1. f.pc = "ready" /\ f.op \in {"start", "node"}
      BY <1>1, <1>6, <2>12 DEF LogReady, At, Lone, Seeding
    <3>2. frame'[Runner] = Resume(f) BY <1>1, <1>6, <2>12, FrameIs DEF LogReady
    <3>3. CASE f.op = "start"
      <4>1. /\ frame'[Runner].pc = "seed" /\ frame'[Runner].roots = f.roots
            /\ frame'[Runner].op = "start"
        BY <2>1, <3>2, <3>3 DEF Resume, Frame
      <4> QED BY <1>1, <1>3, <1>4, <2>4, <3>1, <4>1 DEF RootsTold
    <3>4. CASE f.op = "node"
      <4>1. f.roots = {} BY <3>4 DEF RootsTold
      <4>2. frame'[Runner] = IdleFrame BY <3>2, <3>4 DEF Resume
      <4> QED BY <1>3, <1>4, <2>3, <2>5, <3>1, <4>1, <4>2, RootsDone DEF RootsTold
    <3> QED BY <3>1, <3>3, <3>4
  <2> QED BY <2>2, <2>7, <2>8, <2>9, <2>10, <2>11, <2>12
<1> QED BY <1>1, <1>5, <1>6

LEMMA TaskRoots ==
  ASSUME LoneIInv, RootsTold, NEW t \in Task, Run(t) \/ Result(t) PROVE RootsTold'
<1>1. /\ Typed /\ Lone /\ Runner \in Worker /\ TasksTyped /\ t # Runner /\ t[1] \in Node
  BY RunnerFacts, TaskFacts
<1>2. UNCHANGED <<nodes, edges, graphStatus>>
  BY DEF Run, Result, StartNode, LogStarted, Succeed, Fail, Abort, taskUnchanged, topology
<1>3. \A n \in Node : nodeStatus'[n] = "pending" => nodeStatus[n] = "pending"
  <2>1. CASE StartNode(t) BY <1>1, <2>1 DEF StartNode, SetNode, Typed, TypeOK
  <2> QED BY <2>1 DEF Run, Result, LogStarted, Succeed, Fail, Abort, taskUnchanged
<1>4. frame'[Runner] = frame[Runner]
  <2>1. UNCHANGED frame \/ \E failed : ReportResult(t, failed)
    BY DEF Run, Result, StartNode, LogStarted, Succeed, Fail, Abort, AttemptFails
  <2> QED BY <1>1, <2>1 DEF ReportResult, Advance, Typed
<1> QED BY <1>2, <1>3, <1>4, RootsKept

LEMMA RestRoots ==
  ASSUME LoneIInv, ~ RestartInCall, RootsTold, Listening,
         StartGraph \/ Restart \/ ResetRunning \/ ReemitReady
  PROVE  RootsTold'
<1>1. /\ Typed /\ Lone /\ Runner \in Worker /\ nodes \subseteq Node /\ OrchaIInv
  BY RunnerFacts
<1>2. UNCHANGED <<nodes, edges>>
  BY DEF StartGraph, Start, Restart, ResetRunning, ReemitReady, topology
<1>3. CASE StartGraph
  <2> DEFINE g == [IdleFrame EXCEPT !.pc = "roots", !.op = "start"]
  <2>1. frame' = [frame EXCEPT ![Runner] = g] BY <1>3 DEF StartGraph, Start
  <2>2. g.pc = "roots" /\ g.roots = {} BY DEF IdleFrame
  <2> HIDE DEF g
  <2>3. frame'[Runner] = g BY <1>1, <2>1 DEF Typed
  <2> QED BY <2>2, <2>3 DEF RootsTold
<1>4. CASE Restart
  <2>1. frame'[Runner] = IdleFrame BY <1>1, <1>4 DEF Restart
  <2>2. IdleFrame.roots = {} BY DEF IdleFrame
  <2>3. At(Runner, "idle") \/ frame[Runner].op = "node" BY <1>1, <1>4 DEF Restart, Cuttable
  <2>4. frame[Runner].roots = {} /\ frame[Runner].pc # "roots"
    BY <1>1, <2>3 DEF At, RootsTold, Lone, Seeding
  <2>5. UNCHANGED <<nodeStatus, graphStatus>> BY <1>4 DEF Restart
  <2> QED BY <1>2, <2>1, <2>2, <2>4, <2>5, RootsDone DEF RootsTold
<1>5. CASE ResetRunning \/ ReemitReady
  <2>1. /\ stream[Runner].pc \in {"recover", "reemit"} /\ At(Runner, "idle")
        /\ UNCHANGED graphStatus
    BY <1>5 DEF ResetRunning, ReemitReady
  <2>2. graphStatus # "pending" BY <2>1 DEF Listening
  <2>3. frame[Runner].roots = {} /\ frame[Runner].pc # "roots" BY <2>1 DEF At, RootsTold
  <2>4. PICK n : EmitReady(n) BY <1>5 DEF ResetRunning, ReemitReady
  <2> DEFINE g == [IdleFrame EXCEPT !.pc = "ready", !.op = "node", !.target = n]
  <2>5. frame' = [frame EXCEPT ![Runner] = g] BY <2>4 DEF EmitReady
  <2>6. g.roots = {} BY DEF IdleFrame
  <2> HIDE DEF g
  <2>7. frame'[Runner] = g BY <1>1, <2>5 DEF Typed
  <2>8. \A m \in Node : nodeStatus'[m] = "pending" => nodeStatus[m] = "pending"
    BY <1>1, <1>5 DEF ResetRunning, ReemitReady, SetNode, Typed, TypeOK
  <2> QED BY <1>2, <2>2, <2>3, <2>6, <2>7, <2>8, RootsDone DEF RootsTold
<1> QED BY <1>3, <1>4, <1>5

LEMMA NextRoots ==
  ASSUME NoJoins, ~ RestartInCall, LoneIInv, RootsTold, Listening, [OrchaNext]_runnerVars
  PROVE  RootsTold'
<1>1. CASE UNCHANGED lattice BY <1>1, RootsKept DEF lattice, topology
<1>2. UNCHANGED lattice \/ ~ (Read(Runner) \/ Dispatch \/ Launch \/ CancelGraph
                                \/ FindReady \/ Reattach \/ UNCHANGED runnerVars)
  BY DEF Read, Open, Fetch, Wait, Dispatch, Consume, Launch, CancelGraph, FindReady, Reattach,
         runnerVars
<1> QED BY <1>1, <1>2, EngineRoots, TaskRoots, RestRoots DEF OrchaNext, Recover
-----------------------------------------------------------------------------
(***************************************************************************)
(* The end of the graph: what all steps but Mark have in common.           *)
(***************************************************************************)
\* The call of a task does not forget what it has still to do or to tell.
TaskKept(t) ==
    /\ EndCall(frame'[t], t[1])
    /\ Past(t)' => Past(t) /\ frame'[t].failed = frame[t].failed
    /\ Past(t) => \/ Past(t)' \/ Ended'
                  \/ nodeStatus[t[1]] # "failed" /\ ~ AllComplete
    /\ \A e \in InitEdge : nodeStatus[From[e]] = "complete" /\ Owes(frame[t], e) =>
          Owes(frame'[t], e) \/ HasToken(e)'
    /\ \A e \in InitEdge :
          nodeStatus'[To[e]] = "pending" /\ Visits(frame[t]) /\ frame[t].hop.edge = e =>
             Visits(frame'[t]) /\ frame'[t].hop.edge = e

LEMMA EndingKept ==
  ASSUME LoneIInv, Ending, nodes' = nodes, LogExtended,
         \A n \in Node : \/ nodeStatus'[n] = nodeStatus[n]
                         \/ nodeStatus[n] \notin {"complete", "failed"}
                               /\ nodeStatus'[n] \in {"ready", "running"},
         \A e \in InitEdge : HasToken(e) => HasToken(e)',
         \A e \in InitEdge : HasToken(e)' /\ ~ HasToken(e) =>
            \E t \in Task : Visits(frame'[t]) /\ frame'[t].hop.edge = e,
         \A t \in Task : TaskKept(t),
         Starting => Starting' \/ Ended' \/ ~ AllComplete
  PROVE  Ending'
<1>1. /\ Typed /\ nodes \subseteq Node /\ \A t \in Task : t[1] \in Node
      /\ \A e \in InitEdge : From[e] \in Node /\ To[e] \in Node
  BY RunnerFacts, WorkerKinds, NodesOfCalls
<1>2. \A n \in Node : nodeStatus'[n] \in {"pending", "complete", "failed"} =>
         nodeStatus'[n] = nodeStatus[n]
  OBVIOUS
<1>3. Ended => Ended' BY <1>1, EndedStays
<1>4. AllComplete' => AllComplete BY <1>1, <1>2 DEF AllComplete
<1>5. \A t \in Task : EndCall(frame[t], t[1])' BY DEF TaskKept
<1>6. AnswersStand'
  <2> SUFFICES ASSUME NEW t \in Task, Past(t)'
               PROVE  nodeStatus'[t[1]] = IF frame'[t].failed THEN "failed" ELSE "complete"
    BY DEF AnswersStand
  <2>1. Past(t) /\ frame'[t].failed = frame[t].failed BY DEF TaskKept
  <2> QED BY <1>1, <2>1 DEF Ending, AnswersStand
<1>7. Delivered'
  <2> SUFFICES ASSUME NEW e \in InitEdge, nodeStatus'[From[e]] = "complete"
               PROVE  HasToken(e)' \/ \E t \in Task : Owes(frame'[t], e)
    BY DEF Delivered
  <2>1. nodeStatus[From[e]] = "complete" BY <1>1, <1>2
  <2>2. HasToken(e) \/ \E t \in Task : Owes(frame[t], e) BY <2>1 DEF Ending, Delivered
  <2> QED BY <2>1, <2>2 DEF TaskKept
<1>8. Noticed'
  <2> SUFFICES ASSUME NEW e \in InitEdge, HasToken(e)', nodeStatus'[To[e]] = "pending"
               PROVE  \E t \in Task : Visits(frame'[t]) /\ frame'[t].hop.edge = e
    BY DEF Noticed
  <2>1. CASE HasToken(e)
    <3>1. nodeStatus[To[e]] = "pending" BY <1>1, <1>2
    <3> QED BY <2>1, <3>1 DEF Ending, Noticed, TaskKept
  <2> QED BY <2>1
<1>9. FailureTold'
  <2> SUFFICES ASSUME NEW n \in Node, nodeStatus'[n] = "failed"
               PROVE  Ended' \/ \E t \in Task : t[1] = n /\ Past(t)'
    BY DEF FailureTold
  <2>1. nodeStatus[n] = "failed" BY <1>2
  <2> QED BY <1>3, <2>1 DEF Ending, FailureTold, TaskKept
<1>10. CompletionTold' BY <1>3, <1>4 DEF Ending, CompletionTold, TaskKept
<1> QED BY <1>5, <1>6, <1>7, <1>8, <1>9, <1>10 DEF Ending

\* A call in which nothing happens.
LEMMA SameTask ==
  ASSUME Ending, NEW t \in Task, frame'[t] = frame[t], Past(t)' <=> Past(t)
  PROVE  TaskKept(t)
<1>1. EndCall(frame[t], t[1]) BY DEF Ending
<1> QED BY <1>1 DEF TaskKept

\* A call that has recorded its answer and goes on.
LEMMA PassesOn ==
  ASSUME NEW t \in Task, CallFacts(t), UNCHANGED task, task[t].pc = "none",
         frame[t].pc # "idle", ~ Holds(frame[t], t[1]),
         NEW g, frame'[t] = g, g.pc \notin {"idle", "mark"}, g.queue = <<>>,
         g.failed = frame[t].failed, EndCall(g, t[1]),
         \A e \in InitEdge : nodeStatus[From[e]] = "complete" /\ Owes(frame[t], e) =>
            Owes(g, e) \/ HasToken(e)',
         \A e \in InitEdge :
            nodeStatus'[To[e]] = "pending" /\ Visits(frame[t]) /\ frame[t].hop.edge = e =>
               Visits(g) /\ g.hop.edge = e
  PROVE  TaskKept(t)
<1>1. Past(t) BY DEF Past, Live, Begun, At
<1>2. Past(t)' BY DEF Past, Live, Begun, At, Holds
<1> QED BY <1>1, <1>2 DEF TaskKept

LEMMA IdleEnds == ASSUME NEW n PROVE EndCall(IdleFrame, n)
<1>1. IdleFrame.pc = "idle" /\ IdleFrame.queue = <<>> /\ IdleFrame.failed = FALSE
  BY DEF IdleFrame
<1> HIDE DEF IdleFrame
<1> QED BY <1>1 DEF EndCall, Passing

\* A call that returns.
LEMMA CallOver ==
  ASSUME NEW t \in Task, UNCHANGED task, task[t].pc = "none", frame'[t] = IdleFrame,
         \A e \in InitEdge : ~ Owes(frame[t], e), ~ Visits(frame[t]),
         Ended' \/ (nodeStatus[t[1]] # "failed" /\ ~ AllComplete)
  PROVE  TaskKept(t)
<1>1. ~ Past(t)' BY DEF Past, Live, At, IdleFrame
<1> QED BY <1>1, IdleEnds DEF TaskKept

(***************************************************************************)
(* The statements of a task's call.                                        *)
(***************************************************************************)
LEMMA CallEnds ==
  ASSUME NoJoins, LoneIInv, Ending, NEW t \in Task, Engine(t)
  PROVE  /\ TaskStep(t) /\ CallFacts(t) /\ Typed /\ t \in Worker /\ edges = InitEdge
         /\ frame[t] \in Frame /\ LoneCall(frame[t], t[1]) /\ EndCall(frame[t], t[1])
         /\ frame[t].pc # "idle" /\ frame[t].op = "advance"
         /\ task[t].pc = "none" /\ UNCHANGED task
         /\ ~ Holds(frame[t], t[1]) => Past(t)
         /\ Past(t) => nodeStatus[t[1]] = IF frame[t].failed THEN "failed" ELSE "complete"
<1>1. TaskStep(t) /\ CallFacts(t) /\ Typed BY EngineOfTask DEF TaskStep
<1>2. t \in Worker /\ frame[t] \in Frame /\ LoneCall(frame[t], t[1]) /\ Stage(t)
  BY <1>1 DEF CallFacts
<1>3. ~ At(t, "idle") BY <1>1, <1>2, StepIsLocal DEF Engine
<1>4. task[t].pc = "none" /\ UNCHANGED task BY <1>1, <1>2, <1>3 DEF Stage, TaskStep
<1>5. EndCall(frame[t], t[1]) /\ AnswersStand BY DEF Ending
<1>6. edges = InitEdge BY DEF LoneIInv, Lone
<1>7. frame[t].op = "advance" BY <1>2, <1>3 DEF LoneCall, At
<1>8. ~ Holds(frame[t], t[1]) => Past(t) BY <1>3, <1>4 DEF Past, Live, Begun
<1>9. Past(t) => nodeStatus[t[1]] = IF frame[t].failed THEN "failed" ELSE "complete"
  BY <1>5 DEF AnswersStand
<1> QED BY <1>1, <1>2, <1>3, <1>4, <1>5, <1>6, <1>7, <1>8, <1>9 DEF At

\* Pop takes the item up.
LEMMA PopEnds ==
  ASSUME NoJoins, LoneIInv, Ending, NEW t \in Task, Engine(t), Pop(t) PROVE TaskKept(t)
<1> PICK f : f = frame[t] OBVIOUS
<1> DEFINE i == f.queue[Len(f.queue)]
           rest == SubSeq(f.queue, 1, Len(f.queue) - 1)
<1>1. /\ CallFacts(t) /\ Typed /\ t \in Worker /\ f \in Frame /\ LoneCall(f, t[1])
      /\ EndCall(f, t[1]) /\ task[t].pc = "none" /\ UNCHANGED task
  BY CallEnds
<1>2. f.pc = "pop" /\ f.queue # <<>> /\ f.queue \in Seq(Item) BY <1>1 DEF Pop, At, Frame
<1>3. Len(f.queue) = 1 /\ 1 \in DOMAIN f.queue BY <1>1, <1>2 DEF LoneCall
<1>4. i = f.queue[1] /\ rest = <<>> /\ i \in Item BY <1>2, <1>3
<1>5. Holds(f, i.node) BY <1>3, <1>4 DEF Holds
<1>6. i.node = t[1] BY <1>1, <1>4, <1>5 DEF CallFacts, Item
<1>7. ~ IsTerminal(nodeStatus[i.node])
  BY <1>1, <1>5, <1>6 DEF CallFacts, Stage, Begun, IsTerminal
<1> DEFINE h == [f EXCEPT !.pc = "mark", !.queue = rest, !.node = i.node,
                          !.out = i.out, !.failed = i.failed]
<1>8. frame'[t] = h
  <2>1. frame' = [frame EXCEPT ![t] = h] BY <1>7 DEF Pop
  <2> QED BY <1>1, <2>1, FrameIs
<1>9. /\ h.pc = "mark" /\ h.queue = <<>> /\ h.node = t[1] /\ h.out = i.out /\ h.failed = i.failed
  <2> HIDE DEF i, rest
  <2> QED BY <1>1, <1>4, <1>6 DEF Frame
<1> PICK g : g = h OBVIOUS
<1> HIDE DEF h
<1>10. Reports(i.out, i.failed, t[1]) BY <1>1, <1>3, <1>4 DEF EndCall
<1> HIDE DEF i
<1>11. EndCall(g, t[1]) BY <1>9, <1>10 DEF EndCall, Passing
<1>12. ~ Past(t) /\ ~ Past(t)' BY <1>5, <1>6, <1>8, <1>9 DEF Past, Begun, Holds
<1>13. ~ Visits(f) /\ \A e \in InitEdge : ~ Owes(f, e)
  BY <1>1, <1>2 DEF Visits, Owes, LoneCall, Passing
<1> QED BY <1>8, <1>11, <1>12, <1>13 DEF TaskKept

\* An answer that is no failure goes over every edge.
LEMMA SuccessPasses ==
  ASSUME SuccessFlows, NEW n, NEW S, Reports(S, FALSE, n), NEW e \in InitEdge
  PROVE  \E x \in S : Matches(Cond[e], x.color)
<1>1. PICK x \in Token : S = {x} /\ x.color = "ok" BY DEF Reports
<1>2. Cond[e] = "ok" \/ Cond[e] = "any" BY DEF SuccessFlows
<1> QED BY <1>1, <1>2 DEF Matches

LEMMA LogNodeEnds ==
  ASSUME NoJoins, SuccessFlows, LoneIInv, Ending, NEW t \in Task, Engine(t), LogNode(t)
  PROVE  TaskKept(t)
<1> PICK f : f = frame[t] OBVIOUS
<1>1. /\ CallFacts(t) /\ Typed /\ t \in Worker /\ f \in Frame /\ LoneCall(f, t[1])
      /\ EndCall(f, t[1]) /\ task[t].pc = "none" /\ UNCHANGED task /\ edges = InitEdge
      /\ ~ Holds(f, t[1]) => Past(t)
      /\ Past(t) => nodeStatus[t[1]] = IF f.failed THEN "failed" ELSE "complete"
  BY CallEnds
<1>2. f.pc = "log" BY DEF LogNode, At
<1>3. f.queue = <<>> /\ f.node = t[1] /\ Reports(f.out, f.failed, t[1]) /\ f.todo = {}
  BY <1>1, <1>2 DEF LoneCall, EndCall, Passing
<1>4. ~ Holds(f, t[1]) BY <1>2, <1>3 DEF Holds
<1> PICK todo : todo = {h \in [tok : f.out, edge : Outbound(f.node)] :
                           Matches(Cond[h.edge], h.tok.color)} OBVIOUS
<1> DEFINE h == [f EXCEPT !.pc = "route", !.any = FALSE, !.hop = NoHop, !.todo = todo]
<1>5. frame'[t] = h BY <1>1, FrameIs DEF LogNode
<1>6. /\ h.pc = "route" /\ h.queue = <<>> /\ h.out = f.out /\ h.failed = f.failed
      /\ h.todo = todo /\ h.any = FALSE
  BY <1>1, <1>3 DEF Frame
<1> PICK g : g = h OBVIOUS
<1> HIDE DEF h
<1>7. f.failed => todo = {}
  <2> SUFFICES ASSUME f.failed, NEW x \in todo PROVE FALSE OBVIOUS
  <2>1. x.edge \in EdgesFrom(t[1]) /\ Matches(Cond[x.edge], x.tok.color) /\ x.tok \in f.out
    BY <1>1, <1>3 DEF Outbound, EdgesFrom
  <2>2. x.tok.color = "error" BY <1>3, <2>1 DEF Reports
  <2>3. Cond[x.edge] = "ok" BY <1>3, <2>1 DEF Reports
  <2> QED BY <2>1, <2>2, <2>3 DEF Matches
<1>8. EndCall(g, t[1]) BY <1>3, <1>6, <1>7 DEF EndCall, Passing
<1>9. ASSUME NEW e \in InitEdge, nodeStatus[From[e]] = "complete", Owes(f, e) PROVE Owes(g, e)
  <2>1. From[e] = t[1] BY <1>2, <1>3, <1>9 DEF Owes
  <2>2. ~ f.failed BY <1>1, <1>4, <1>9, <2>1
  <2>3. f.failed = FALSE BY <1>1, <2>2 DEF Frame
  <2>4. PICK x \in f.out : Matches(Cond[e], x.color)
    <3>1. Reports(f.out, FALSE, t[1]) BY <1>3, <2>3
    <3> QED BY <3>1, SuccessPasses
  <2>5. e \in Outbound(f.node) BY <1>1, <1>3, <2>1 DEF Outbound
  <2>6. [tok |-> x, edge |-> e] \in todo BY <2>4, <2>5
  <2> QED BY <1>6, <2>6 DEF Owes
<1>10. ~ Visits(f) BY <1>2 DEF Visits
<1> QED BY <1>1, <1>2, <1>4, <1>5, <1>6, <1>8, <1>9, <1>10, PassesOn

LEMMA RouteEnds ==
  ASSUME NoJoins, LoneIInv, Ending, NEW t \in Task, Engine(t), Route(t) PROVE TaskKept(t)
<1> PICK f : f = frame[t] OBVIOUS
<1>1. /\ CallFacts(t) /\ Typed /\ t \in Worker /\ f \in Frame /\ LoneCall(f, t[1])
      /\ EndCall(f, t[1]) /\ task[t].pc = "none" /\ UNCHANGED task
  BY CallEnds
<1>2. f.pc = "route" BY DEF Route, At
<1>3. f.queue = <<>> /\ Reports(f.out, f.failed, t[1]) BY <1>1, <1>2 DEF LoneCall, EndCall
<1>4. PICK x : /\ x \in f.todo
               /\ frame' = [frame EXCEPT ![t] = [f EXCEPT !.pc = "deliver", !.hop = x,
                                     !.todo = @ \ {x}, !.seq = NextSeq(x.edge)]]
  BY DEF Route, NextHops
<1> PICK rest : rest = f.todo \ {x} OBVIOUS
<1> DEFINE h == [f EXCEPT !.pc = "deliver", !.hop = x, !.todo = @ \ {x}, !.seq = NextSeq(x.edge)]
<1>5. frame'[t] = h BY <1>1, <1>4, FrameIs
<1>6. /\ h.pc = "deliver" /\ h.queue = <<>> /\ h.out = f.out /\ h.failed = f.failed
      /\ h.todo = rest /\ h.hop = x
  BY <1>1, <1>3 DEF Frame
<1> PICK g : g = h OBVIOUS
<1> HIDE DEF h
<1>7. ~ f.failed BY <1>1, <1>2, <1>4 DEF EndCall
<1>8. EndCall(g, t[1]) BY <1>3, <1>6, <1>7 DEF EndCall, Passing
<1>9. \A e \in InitEdge : Owes(f, e) => Owes(g, e) BY <1>2, <1>6 DEF Owes
<1>10. ~ Visits(f) /\ ~ Holds(f, t[1]) BY <1>2, <1>3 DEF Visits, Holds
<1> QED BY <1>1, <1>2, <1>5, <1>6, <1>8, <1>9, <1>10, PassesOn

\* The call goes on to the next item, or fails or completes the graph.
LEMMA MovedEnds ==
  ASSUME NoJoins, LoneIInv, Ending, NEW t \in Task, Engine(t),
         NEW p \in {"route", "pop", "failgraph", "failevent", "done", "doneevent"},
         frame' = [frame EXCEPT ![t] = [frame[t] EXCEPT !.pc = p]],
         frame[t].pc # "mark", frame[t].queue = <<>>, ~ Visits(frame[t]),
         p = "route" => frame[t].pc \in Passing,
         p # "route" => frame[t].todo = {},
         frame[t].pc # "log", frame[t].pc # "deliver",
         IF frame[t].failed THEN p \in {"failgraph", "failevent"}
                            ELSE p \notin {"failgraph", "failevent"}
  PROVE  TaskKept(t)
<1> PICK f : f = frame[t] OBVIOUS
<1>1. /\ CallFacts(t) /\ Typed /\ t \in Worker /\ f \in Frame
      /\ EndCall(f, t[1]) /\ task[t].pc = "none" /\ UNCHANGED task /\ f.pc # "idle"
  BY CallEnds
<1> DEFINE h == [f EXCEPT !.pc = p]
<1>2. frame'[t] = h BY <1>1, FrameIs
<1>3. /\ h.pc = p /\ h.queue = <<>> /\ h.out = f.out /\ h.failed = f.failed
      /\ h.todo = f.todo
  BY <1>1 DEF Frame
<1> PICK g : g = h OBVIOUS
<1> HIDE DEF h
<1>4. EndCall(g, t[1]) BY <1>1, <1>3 DEF EndCall, Passing
<1>5. \A e \in InitEdge : Owes(f, e) => Owes(g, e) BY <1>3 DEF Owes
<1>6. ~ Holds(f, t[1]) BY DEF Holds
<1> QED BY <1>1, <1>2, <1>3, <1>4, <1>5, <1>6, PassesOn

LEMMA ReturnEnds ==
  ASSUME NoJoins, LoneIInv, Ending, NEW t \in Task, Engine(t), Return(t),
         frame[t].pc \in {"pop", "failevent", "doneevent"}, frame[t].queue = <<>>,
         Ended' \/ (~ AllComplete /\ frame[t].pc = "pop")
  PROVE  TaskKept(t)
<1> PICK f : f = frame[t] OBVIOUS
<1>1. /\ Typed /\ t \in Worker /\ LoneCall(f, t[1])
      /\ EndCall(f, t[1]) /\ task[t].pc = "none" /\ UNCHANGED task
      /\ ~ Holds(f, t[1]) => Past(t)
      /\ Past(t) => nodeStatus[t[1]] = IF f.failed THEN "failed" ELSE "complete"
  BY CallEnds
<1>2. frame'[t] = IdleFrame BY <1>1, FrameIs DEF Return
<1>3. ~ Visits(f) /\ \A e \in InitEdge : ~ Owes(f, e)
  BY <1>1 DEF Visits, Owes, LoneCall, Passing
<1>4. f.pc = "pop" => nodeStatus[t[1]] # "failed"
  <2>1. ~ Holds(f, t[1]) BY DEF Holds
  <2>2. f.pc = "pop" => ~ f.failed BY <1>1 DEF EndCall
  <2> QED BY <1>1, <2>1, <2>2
<1> QED BY <1>1, <1>2, <1>3, <1>4, CallOver

LEMMA AppendEnds ==
  ASSUME Typed, NEW e, log' = Append(log, e), Ends(e) PROVE Ended'
  BY AppendAddsEvent DEF Ended

LEMMA LastEnds ==
  ASSUME NoJoins, LoneIInv, Ending, NEW t \in Task, Engine(t),
         Routed(t) \/ FailGraph(t) \/ LogGraphFailed(t) \/ Finish(t)
            \/ CompleteGraph(t) \/ LogGraphDone(t)
  PROVE  TaskKept(t)
<1> PICK f : f = frame[t] OBVIOUS
<1>1. /\ Typed /\ t \in Worker /\ LoneCall(f, t[1]) /\ EndCall(f, t[1]) /\ f.op = "advance"
      /\ f \in Frame
  BY CallEnds
<1>2. CASE Routed(t)
  <2>1. f.pc = "route" /\ f.todo = {} /\ f.queue = <<>>
    BY <1>1, <1>2 DEF Routed, At, LoneCall
  <2>2. AfterRouting(f) = IF f.failed THEN "failgraph" ELSE "pop"
    BY <1>1, <2>1 DEF AfterRouting, Unhandled, EndCall
  <2> PICK p : p = AfterRouting(f) OBVIOUS
  <2>3. frame' = [frame EXCEPT ![t] = [f EXCEPT !.pc = p]] BY <1>2 DEF Routed, Goto
  <2>4. p \in {"pop", "failgraph"} /\ IF f.failed THEN p = "failgraph" ELSE p = "pop" BY <2>2
  <2> QED BY <2>1, <2>3, <2>4, MovedEnds DEF Visits
<1>3. CASE FailGraph(t)
  <2>1. f.pc = "failgraph" /\ f.todo = {} /\ f.queue = <<>> /\ f.failed
    BY <1>1, <1>3 DEF FailGraph, At, LoneCall, EndCall, Passing
  <2>2. frame' = [frame EXCEPT ![t] = [f EXCEPT !.pc = "failevent"]]
    BY <1>3 DEF FailGraph, Goto
  <2> QED BY <2>1, <2>2, MovedEnds DEF Visits
<1>4. CASE LogGraphFailed(t)
  <2>1. f.pc = "failevent" /\ f.queue = <<>> BY <1>1, <1>4 DEF LogGraphFailed, At, LoneCall
  <2>2. Ended' BY <1>1, <1>4, AppendEnds DEF LogGraphFailed, Persist, Ends, Ev
  <2> QED BY <1>4, <2>1, <2>2, ReturnEnds DEF LogGraphFailed
<1>5. CASE Finish(t)
  <2>1. f.pc = "pop" /\ f.queue = <<>> /\ f.todo = {} /\ ~ f.failed
    BY <1>1, <1>5 DEF Finish, At, LoneCall, EndCall, Passing
  <2>2. CASE AllComplete
    <3>1. frame' = [frame EXCEPT ![t] = [f EXCEPT !.pc = "done"]]
      BY <1>5, <2>2 DEF Finish, Goto
    <3> QED BY <2>1, <3>1, MovedEnds DEF Visits
  <2>3. CASE ~ AllComplete BY <1>5, <2>1, <2>3, ReturnEnds DEF Finish
  <2> QED BY <2>2, <2>3
<1>6. CASE CompleteGraph(t)
  <2>1. f.pc = "done" /\ f.queue = <<>> /\ f.todo = {} /\ ~ f.failed
    BY <1>1, <1>6 DEF CompleteGraph, At, LoneCall, EndCall, Passing
  <2>2. frame' = [frame EXCEPT ![t] = [f EXCEPT !.pc = "doneevent"]]
    BY <1>6 DEF CompleteGraph, Goto
  <2> QED BY <2>1, <2>2, MovedEnds DEF Visits
<1>7. CASE LogGraphDone(t)
  <2>1. f.pc = "doneevent" /\ f.queue = <<>> BY <1>1, <1>7 DEF LogGraphDone, At, LoneCall
  <2>2. Ended' BY <1>1, <1>7, AppendEnds DEF LogGraphDone, Persist, Ends, Ev
  <2> QED BY <1>7, <2>1, <2>2, ReturnEnds DEF LogGraphDone
<1> QED BY <1>2, <1>3, <1>4, <1>5, <1>6, <1>7

\* check_and_ready finds that a token waits for a pending target.
LEMMA CheckEnds ==
  ASSUME NoJoins, LoneIInv, Ending, NEW t \in Task, Engine(t), Check(t) PROVE TaskKept(t)
<1> PICK f : f = frame[t] OBVIOUS
<1>1. /\ CallFacts(t) /\ Typed /\ t \in Worker /\ f \in Frame /\ LoneCall(f, t[1])
      /\ EndCall(f, t[1]) /\ task[t].pc = "none" /\ UNCHANGED task /\ f.op = "advance"
  BY CallEnds
<1>2. f.pc = "check" BY DEF Check, At
<1>3. /\ f.queue = <<>> /\ Reports(f.out, f.failed, t[1]) /\ ~ f.failed
      /\ f.target = To[f.hop.edge]
  BY <1>1, <1>2 DEF LoneCall, EndCall, Passing
<1>4. PICK p \in {"route", "enable"} :
        /\ frame' = [frame EXCEPT ![t] = [f EXCEPT !.pc = p]]
        /\ nodeStatus[f.target] = "pending" => p = "enable"
  BY <1>1 DEF Check, Resume, MayBecomeReady
<1> DEFINE h == [f EXCEPT !.pc = p]
<1>5. frame'[t] = h BY <1>1, <1>4, FrameIs
<1>6. /\ h.pc = p /\ h.queue = <<>> /\ h.out = f.out /\ h.failed = f.failed
      /\ h.todo = f.todo /\ h.hop = f.hop
  BY <1>1, <1>3 DEF Frame
<1> PICK g : g = h OBVIOUS
<1> HIDE DEF h
<1>7. EndCall(g, t[1]) BY <1>3, <1>6 DEF EndCall, Passing
<1>8. \A e \in InitEdge : Owes(f, e) => Owes(g, e) BY <1>2, <1>6 DEF Owes
<1>9. \A e \in InitEdge : nodeStatus'[To[e]] = "pending" /\ f.hop.edge = e =>
         Visits(g) /\ g.hop.edge = e
  <2>1. nodeStatus' = nodeStatus BY DEF Check
  <2> QED BY <1>3, <1>4, <1>6, <2>1 DEF Visits
<1>10. ~ Holds(f, t[1]) BY <1>2, <1>3 DEF Holds
<1> QED BY <1>1, <1>2, <1>5, <1>6, <1>7, <1>8, <1>9, <1>10, PassesOn

\* An acyclic graph has no self-loop: the token that was delivered enables its target.
LEMMA AlwaysEnabled ==
  ASSUME NoJoins, Acyclic, LoneIInv, NEW t \in Task, frame[t].pc = "enable"
  PROVE  Enabled(frame[t].target)
<1> PICK f : f = frame[t] OBVIOUS
<1> PICK e : e = f.hop.edge OBVIOUS
<1>1. CallFacts(t) /\ Lone /\ edges = InitEdge BY CallIsLone, RunnerFacts
<1>2. e \in InitEdge /\ f.target = To[e]
  BY <1>1 DEF CallFacts, LoneCall, Passing, EdgesFrom
<1>3. HasToken(e) BY <1>1 DEF Lone, OnTheWay, Visits
<1>4. From[e] # To[e]
  <2>1. From[e] \in InitNode BY <1>2, GraphAssumption
  <2>2. {From[e]} \in SUBSET InitNode /\ {From[e]} # {} BY <2>1
  <2> QED BY <1>2, <2>2 DEF Acyclic
<1>5. e \in Inbound(To[e]) /\ \A d \in Inbound(To[e]) : d = e
  BY <1>1, <1>2, <1>4 DEF Inbound, NoJoins
<1> QED BY <1>2, <1>3, <1>5 DEF Enabled

LEMMA LightEnds ==
  ASSUME NoJoins, Acyclic, SuccessFlows, LoneIInv, Ending, NEW t \in Task, Engine(t),
         LightAction(t)
  PROVE  TaskKept(t)
<1>1. ~ NotEnabled(t) BY AlwaysEnabled DEF NotEnabled, At
<1> QED BY <1>1, PopEnds, LogNodeEnds, RouteEnds, LastEnds, CheckEnds DEF LightAction

LEMMA DeliverEnds ==
  ASSUME NoJoins, LoneIInv, Ending, NEW t \in Task, Engine(t), Deliver(t)
  PROVE  /\ TaskKept(t)
         /\ \A e : HasToken(e) => HasToken(e)'
         /\ \A e : HasToken(e)' => HasToken(e) \/ (Visits(frame'[t]) /\ frame'[t].hop.edge = e)
<1> PICK f : f = frame[t] OBVIOUS
<1> PICK e : e = f.hop.edge OBVIOUS
<1>1. /\ CallFacts(t) /\ Typed /\ t \in Worker /\ f \in Frame /\ LoneCall(f, t[1])
      /\ EndCall(f, t[1]) /\ task[t].pc = "none" /\ UNCHANGED task /\ f.op = "advance"
  BY CallEnds
<1>2. f.pc = "deliver" BY DEF Deliver, At
<1>3. /\ f.queue = <<>> /\ Reports(f.out, f.failed, t[1]) /\ ~ f.failed
      /\ e \in InitEdge
  BY <1>1, <1>2 DEF LoneCall, EndCall, Passing, EdgesFrom
<1>4. ~ HasToken(e) BY <1>2, <1>3 DEF LoneIInv, Lone, OnTheWay, Owes
<1> DEFINE r == [edge |-> e, seq |-> f.seq, color |-> f.hop.tok.color]
           h == [f EXCEPT !.any = TRUE, !.target = To[e], !.pc = "check"]
<1>5. tokens' = tokens \cup {r} /\ frame'[t] = h
  <2>1. ~ \E q \in tokens : q.edge = e /\ q.seq = f.seq BY <1>4 DEF HasToken
  <2>2. tokens' = tokens \cup {r} /\ frame' = [frame EXCEPT ![t] = h]
    BY <1>1, <2>1 DEF Deliver
  <2> HIDE DEF h, r
  <2> QED BY <1>1, <2>2, FrameIs
<1>6. /\ h.pc = "check" /\ h.queue = <<>> /\ h.out = f.out /\ h.failed = f.failed
      /\ h.todo = f.todo /\ h.hop = f.hop
  BY <1>1, <1>3 DEF Frame
<1> PICK g : g = h OBVIOUS
<1> HIDE DEF h
<1>7. \A d : HasToken(d)' <=> HasToken(d) \/ d = e
  <2>1. r.edge = e OBVIOUS
  <2> HIDE DEF r
  <2> QED BY <1>5, <2>1 DEF HasToken
<1>8. EndCall(g, t[1]) BY <1>3, <1>6 DEF EndCall, Passing
<1>9. \A d \in InitEdge : Owes(f, d) => Owes(g, d) \/ HasToken(d)'
  BY <1>2, <1>6, <1>7 DEF Owes
<1>10. ~ Visits(f) /\ ~ Holds(f, t[1]) BY <1>2, <1>3 DEF Visits, Holds
<1>11. TaskKept(t) BY <1>1, <1>2, <1>5, <1>6, <1>8, <1>9, <1>10, PassesOn
<1>12. Visits(g) /\ g.hop.edge = e BY <1>6 DEF Visits
<1> QED BY <1>5, <1>7, <1>11, <1>12

LEMMA EnableEnds ==
  ASSUME NoJoins, LoneIInv, Ending, NEW t \in Task, Engine(t), EnableTask(t)
  PROVE  /\ TaskKept(t)
         /\ nodeStatus[frame[t].target] = "pending"
         /\ \A n \in Node : \/ nodeStatus'[n] = nodeStatus[n]
                            \/ n = frame[t].target /\ nodeStatus'[n] = "ready"
<1> PICK f : f = frame[t] OBVIOUS
<1>1. /\ CallFacts(t) /\ Typed /\ t \in Worker /\ f \in Frame /\ LoneCall(f, t[1])
      /\ EndCall(f, t[1]) /\ task[t].pc = "none" /\ UNCHANGED task /\ f.op = "advance"
  BY CallEnds
<1>2. f.pc = "enable" BY DEF EnableTask, At
<1>3. /\ f.queue = <<>> /\ Reports(f.out, f.failed, t[1]) /\ ~ f.failed
      /\ f.target = To[f.hop.edge]
  BY <1>1, <1>2 DEF LoneCall, EndCall, Passing
<1>4. nodeStatus[f.target] = "pending"
  <2>1. Inbound(f.target) # {} BY DEF EnableTask, Enabled
  <2> QED BY <1>2, <2>1 DEF LoneIInv, Lone, OnTheWay, Visits
<1>5. f.target \in Node BY <1>1, <1>2, NodesOfCalls DEF Visits
<1>6. /\ nodeStatus'[f.target] = "ready"
      /\ \A n \in Node : n # f.target => nodeStatus'[n] = nodeStatus[n]
  BY <1>1, <1>5 DEF EnableTask, SetNode, Typed, TypeOK
<1> DEFINE h == [f EXCEPT !.pc = "ready"]
<1>7. frame'[t] = h BY <1>1, FrameIs DEF EnableTask, Goto
<1>8. /\ h.pc = "ready" /\ h.queue = <<>> /\ h.out = f.out /\ h.failed = f.failed
      /\ h.todo = f.todo
  BY <1>1, <1>3 DEF Frame
<1> PICK g : g = h OBVIOUS
<1> HIDE DEF h
<1>9. EndCall(g, t[1]) BY <1>3, <1>8 DEF EndCall, Passing
<1>10. \A e \in InitEdge : Owes(f, e) => Owes(g, e) BY <1>2, <1>8 DEF Owes
<1>11. \A e \in InitEdge : f.hop.edge = e => nodeStatus'[To[e]] # "pending" BY <1>3, <1>6
<1>12. ~ Holds(f, t[1]) BY <1>2, <1>3 DEF Holds
<1>13. TaskKept(t) BY <1>1, <1>2, <1>7, <1>8, <1>9, <1>10, <1>11, <1>12, PassesOn
<1> QED BY <1>4, <1>6, <1>13

LEMMA LogReadyEnds ==
  ASSUME NoJoins, LoneIInv, Ending, NEW t \in Task, Engine(t), LogReady(t) PROVE TaskKept(t)
<1> PICK f : f = frame[t] OBVIOUS
<1>1. /\ CallFacts(t) /\ Typed /\ t \in Worker /\ f \in Frame /\ LoneCall(f, t[1])
      /\ EndCall(f, t[1]) /\ task[t].pc = "none" /\ UNCHANGED task /\ f.op = "advance"
  BY CallEnds
<1>2. f.pc = "ready" BY DEF LogReady, At
<1>3. f.queue = <<>> /\ Reports(f.out, f.failed, t[1]) /\ ~ f.failed
  BY <1>1, <1>2 DEF LoneCall, EndCall, Passing
<1> DEFINE h == [f EXCEPT !.pc = "route"]
<1>4. frame'[t] = h
  <2>1. Resume(f) = h BY <1>1 DEF Resume
  <2> QED BY <1>1, <2>1, FrameIs DEF LogReady
<1>5. /\ h.pc = "route" /\ h.queue = <<>> /\ h.out = f.out /\ h.failed = f.failed
      /\ h.todo = f.todo
  BY <1>1, <1>3 DEF Frame
<1> PICK g : g = h OBVIOUS
<1> HIDE DEF h
<1>6. EndCall(g, t[1]) BY <1>3, <1>5 DEF EndCall, Passing
<1>7. \A e \in InitEdge : Owes(f, e) => Owes(g, e) BY <1>2, <1>5 DEF Owes
<1>8. ~ Visits(f) /\ ~ Holds(f, t[1]) BY <1>2, <1>3 DEF Visits, Holds
<1> QED BY <1>1, <1>2, <1>4, <1>5, <1>6, <1>7, <1>8, PassesOn

\* A statement of a call other than Mark.
LEMMA TaskEngineEnding ==
  ASSUME NoJoins, Acyclic, SuccessFlows, LoneIInv, Listening, Ending, NEW t \in Task,
         Engine(t), ~ Mark(t)
  PROVE  Ending'
<1>1. /\ Lone /\ Typed /\ Worker = {Runner} \cup Task /\ t \in Worker /\ t # Runner
      /\ UNCHANGED task
  BY RunnerFacts, CallEnds
<1>2. Step(t) /\ nodes' = nodes /\ LogExtended BY <1>1, StepTopology, StepExtendsLog DEF Engine
<1>3. ~ At(t, "idle") /\ \A u \in Worker \ {t} : frame'[u] = frame[u]
  BY <1>1, <1>2, StepIsLocal
<1>4. \A u \in Task \ {t} : TaskKept(u)
  <2>1. \A u \in Task \ {t} : frame'[u] = frame[u] /\ (Past(u)' <=> Past(u))
    BY <1>1, <1>3 DEF Past, Live, Begun, At
  <2> QED BY <2>1, SameTask
<1>5. Starting => Starting'
  <2>1. graphStatus # "pending" BY <1>3, PendingIsQuiet
  <2> QED BY <1>1, <1>3, <2>1 DEF Starting
<1>6. \/ LightAction(t) \/ Deliver(t) \/ EnableTask(t) \/ LogReady(t)
  <2>1. LoneCall(frame[t], t[1]) BY CallEnds
  <2>2. frame[t].pc \notin {"roots", "seed"} BY <2>1 DEF LoneCall, Passing
  <2>3. ~ ReadRoots(t) /\ ~ Seed(t) /\ ~ Seeded(t) BY <2>2 DEF ReadRoots, Seed, Seeded, At
  <2>4. ~ EnableGather(t) BY DEF EnableGather, NoJoins
  <2> QED BY <1>2, <2>3, <2>4 DEF Step, LightAction
<1>7. CASE LightAction(t) \/ LogReady(t)
  <2>1. UNCHANGED <<nodeStatus, tokens>>
    BY <1>7 DEF LightAction, Pop, LogNode, Route, Routed, FailGraph, LogGraphFailed, Finish,
                CompleteGraph, LogGraphDone, Check, NotEnabled, LogReady
  <2>2. \A e : HasToken(e)' <=> HasToken(e) BY <2>1 DEF HasToken
  <2>3. TaskKept(t) BY <1>7, LightEnds, LogReadyEnds
  <2> QED BY <1>2, <1>4, <1>5, <2>1, <2>2, <2>3, EndingKept
<1>8. CASE Deliver(t)
  <2>1. UNCHANGED nodeStatus BY <1>8 DEF Deliver
  <2>2. /\ TaskKept(t)
        /\ \A e : HasToken(e) => HasToken(e)'
        /\ \A e : HasToken(e)' => HasToken(e) \/ (Visits(frame'[t]) /\ frame'[t].hop.edge = e)
    BY <1>8, DeliverEnds
  <2> QED BY <1>2, <1>4, <1>5, <2>1, <2>2, EndingKept
<1>9. CASE EnableTask(t)
  <2>1. UNCHANGED tokens BY <1>9 DEF EnableTask
  <2>2. \A e : HasToken(e)' <=> HasToken(e) BY <2>1 DEF HasToken
  <2>3. /\ TaskKept(t)
        /\ nodeStatus[frame[t].target] = "pending"
        /\ \A n \in Node : \/ nodeStatus'[n] = nodeStatus[n]
                           \/ n = frame[t].target /\ nodeStatus'[n] = "ready"
    BY <1>9, EnableEnds
  <2> QED BY <1>2, <1>4, <1>5, <2>2, <2>3, EndingKept
<1> QED BY <1>6, <1>7, <1>8, <1>9

\* Mark decides what the node's status says and who knows of it.
LEMMA MarkEnding ==
  ASSUME NoJoins, LoneIInv, Ending, NEW t \in Task, Engine(t), Mark(t)
  PROVE  Ending'
<1> PICK f : f = frame[t] OBVIOUS
<1> PICK n : n = t[1] OBVIOUS
<1>1. /\ CallFacts(t) /\ Typed /\ t \in Worker /\ f \in Frame /\ LoneCall(f, n)
      /\ EndCall(f, n) /\ task[t].pc = "none" /\ UNCHANGED task /\ OrchaIInv /\ n \in Node
      /\ \A u \in Task : CallFacts(u) /\ u[1] \in Node /\ u \in Worker
      /\ \A e \in InitEdge : From[e] \in Node /\ To[e] \in Node
  BY CallEnds, CallIsLone, RunnerFacts, WorkerKinds, NodesOfCalls
<1>2. f.pc = "mark" BY DEF Mark, At
<1>3. f.node = n /\ f.todo = {} /\ f.queue = <<>> /\ Reports(f.out, f.failed, n)
  <2>1. f.node \in Node BY <1>1, <1>2, CallFrame, FrameFields DEF TypedFrame
  <2>2. Holds(f, f.node) BY <1>2 DEF Holds
  <2>3. f.node = n BY <1>1, <2>1, <2>2 DEF CallFacts
  <2> QED BY <1>1, <1>2, <2>3 DEF LoneCall, EndCall, Passing
<1>4. Begun(t) /\ Live(t) /\ nodeStatus[n] \in {"ready", "running"}
  BY <1>1, <1>2, <1>3 DEF CallFacts, Stage, Begun, Holds, Live, At
<1> DEFINE h == [f EXCEPT !.pc = "log"]
<1>5. frame'[t] = h BY <1>1, FrameIs DEF Mark, Goto
<1>6. /\ h.pc = "log" /\ h.node = n /\ h.queue = <<>> /\ h.todo = {} /\ h.out = f.out
      /\ h.failed = f.failed
  BY <1>1, <1>3 DEF Frame
<1> PICK g : g = h OBVIOUS
<1> HIDE DEF h
<1>7. /\ UNCHANGED <<tokens, log>>
      /\ nodeStatus'[n] = IF f.failed THEN "failed" ELSE "complete"
      /\ \A m \in Node \ {n} : nodeStatus'[m] = nodeStatus[m]
  BY <1>1, <1>3 DEF Mark, SetNode, Typed, TypeOK
<1>8. \A u \in Task \ {t} : /\ frame'[u] = frame[u]
                            /\ Past(u)' <=> Past(u)
                            /\ Live(u) => u[1] # n
  <2>1. \A u \in Task \ {t} : frame'[u] = frame[u] BY <1>1, StepIsLocal DEF Engine
  <2> QED BY <1>1, <1>4, <2>1, OtherTask DEF Past, Live, Begun, At
<1>9. Past(t)' /\ ~ Past(t) BY <1>1, <1>4, <1>5, <1>6 DEF Past, Live, Begun, Holds, At
<1>10. \A e : HasToken(e)' <=> HasToken(e) BY <1>7 DEF HasToken
<1>11. \A u \in Task : EndCall(frame'[u], u[1])
  <2>1. EndCall(g, n) BY <1>3, <1>6 DEF EndCall, Passing
  <2> QED BY <1>5, <1>8, <2>1 DEF Ending
<1>12. AnswersStand'
  <2> SUFFICES ASSUME NEW u \in Task, Past(u)'
               PROVE  nodeStatus'[u[1]] = IF frame'[u].failed THEN "failed" ELSE "complete"
    BY DEF AnswersStand
  <2>1. CASE u = t BY <1>5, <1>6, <1>7, <2>1
  <2>2. CASE u # t BY <1>1, <1>7, <1>8, <2>2 DEF Ending, AnswersStand, Past
  <2> QED BY <2>1, <2>2
<1>13. Delivered'
  <2> SUFFICES ASSUME NEW e \in InitEdge, nodeStatus'[From[e]] = "complete"
               PROVE  HasToken(e)' \/ \E u \in Task : Owes(frame'[u], e)
    BY DEF Delivered
  <2>1. CASE From[e] = n BY <1>5, <1>6, <2>1 DEF Owes
  <2>2. CASE From[e] # n
    <3>1. HasToken(e) \/ \E u \in Task : Owes(frame[u], e)
      BY <1>1, <1>7, <2>2 DEF Ending, Delivered
    <3>2. ~ Owes(f, e) BY <1>2, <1>3 DEF Owes
    <3> QED BY <1>8, <1>10, <3>1, <3>2
  <2> QED BY <2>1, <2>2
<1>14. Noticed'
  <2> SUFFICES ASSUME NEW e \in InitEdge, HasToken(e)', nodeStatus'[To[e]] = "pending"
               PROVE  \E u \in Task : Visits(frame'[u]) /\ frame'[u].hop.edge = e
    BY DEF Noticed
  <2>1. nodeStatus[To[e]] = "pending" BY <1>1, <1>7
  <2>2. PICK u \in Task : Visits(frame[u]) /\ frame[u].hop.edge = e
    BY <1>10, <2>1 DEF Ending, Noticed
  <2>3. u # t BY <1>2, <2>2 DEF Visits
  <2> QED BY <1>8, <2>2, <2>3
<1>15. FailureTold'
  <2> SUFFICES ASSUME NEW m \in Node, nodeStatus'[m] = "failed"
               PROVE  Ended' \/ \E u \in Task : u[1] = m /\ Past(u)'
    BY DEF FailureTold
  <2>1. CASE m = n BY <1>9, <2>1
  <2>2. CASE m # n
    <3>1. Ended \/ \E u \in Task : u[1] = m /\ Past(u)
      BY <1>7, <2>2 DEF Ending, FailureTold
    <3>2. Ended => Ended' BY <1>7 DEF Ended, Events
    <3> QED BY <1>8, <1>9, <3>1, <3>2
  <2> QED BY <2>1, <2>2
<1>16. CompletionTold' BY <1>9 DEF CompletionTold
<1> QED BY <1>11, <1>12, <1>13, <1>14, <1>15, <1>16 DEF Ending

(***************************************************************************)
(* All other steps.                                                        *)
(***************************************************************************)
\* A status moves on to one that is neither an answer nor the absence of a release.
StatusesMoveOn ==
    \A n \in Node : \/ nodeStatus'[n] = nodeStatus[n]
                    \/ /\ nodeStatus[n] \notin {"complete", "failed"}
                       /\ nodeStatus'[n] \in {"ready", "running"}

LEMMA TablesEnding ==
  ASSUME LoneIInv, Ending, UNCHANGED <<nodes, tokens>>, LogExtended, StatusesMoveOn,
         \A t \in Task : TaskKept(t),
         Starting => Starting' \/ Ended' \/ ~ AllComplete
  PROVE  Ending'
<1>1. \A e : HasToken(e)' <=> HasToken(e) BY DEF HasToken
<1> QED BY <1>1, EndingKept DEF StatusesMoveOn

LEMMA QuietEnding ==
  ASSUME LoneIInv, Ending, UNCHANGED <<nodes, tokens>>, LogExtended, StatusesMoveOn,
         \A t \in Task : frame'[t] = frame[t] /\ (Past(t)' <=> Past(t)),
         Starting => Starting' \/ Ended' \/ ~ AllComplete
  PROVE  Ending'
<1>1. \A t \in Task : TaskKept(t) BY SameTask
<1> QED BY <1>1, TablesEnding

LEMMA RunnerEnding ==
  ASSUME NoJoins, LoneIInv, Listening, Ending, Engine(Runner) PROVE Ending'
<1> PICK f : f = frame[Runner] OBVIOUS
<1>1. /\ Lone /\ Typed /\ Worker = {Runner} \cup Task /\ Runner \in Worker /\ Runner \notin Task
      /\ f \in Frame /\ nodes \subseteq Node
  BY RunnerFacts
<1>2. Step(Runner) /\ nodes' = nodes /\ LogExtended /\ UNCHANGED task
  BY <1>1, StepTopology, StepExtendsLog DEF Engine, orcha
<1>3. ~ At(Runner, "idle") /\ \A u \in Task : frame'[u] = frame[u] BY <1>1, <1>2, StepIsLocal
<1>4. \A u \in Task : Past(u)' <=> Past(u) BY <1>2, <1>3 DEF Past, Live, Begun, At
<1>5. graphStatus # "pending" BY <1>3, PendingIsQuiet
<1>6. f.pc \in {"idle", "roots", "seed", "ready", "done", "doneevent"}
  BY <1>1 DEF Lone, Seeding
<1>7. \/ ReadRoots(Runner) \/ Seed(Runner) \/ Seeded(Runner) \/ CompleteGraph(Runner)
      \/ LogGraphDone(Runner) \/ LogReady(Runner)
  BY <1>2, <1>6
  DEF Step, Pop, Mark, LogNode, Route, Deliver, Routed, FailGraph, LogGraphFailed, Finish,
      Check, NotEnabled, EnableTask, EnableGather, At
<1>8. UNCHANGED tokens
  BY <1>7 DEF ReadRoots, Seed, Seeded, CompleteGraph, LogGraphDone, LogReady
<1>9. StatusesMoveOn
  <2>1. CASE Seed(Runner)
    <3>1. PICK n \in f.roots : SetNode(n, "ready", {}) BY <2>1 DEF Seed
    <3>2. n \in Node /\ nodeStatus[n] = "pending" BY <1>1, NodesOfCalls DEF Lone, Seeding
    <3> QED BY <1>1, <3>1, <3>2 DEF SetNode, Typed, TypeOK, StatusesMoveOn
  <2> QED BY <1>7, <2>1
          DEF ReadRoots, Seeded, CompleteGraph, LogGraphDone, LogReady, StatusesMoveOn
<1>10. Starting => Starting' \/ Ended' \/ ~ AllComplete
  <2>1. CASE ReadRoots(Runner) /\ Roots = {}
    <3>1. frame'[Runner] = [f EXCEPT !.pc = "done"] BY <1>1, <2>1, FrameIs DEF ReadRoots
    <3>2. frame'[Runner].pc = "done" BY <1>1, <3>1 DEF Frame
    <3> QED BY <3>2 DEF Starting
  <2>2. CASE ReadRoots(Runner) /\ Roots # {}
    <3>1. PICK n \in nodes : Inbound(n) = {} BY <2>2 DEF Roots
    <3>2. nodeStatus[n] = "pending" BY <1>1, <2>2, <3>1 DEF Lone, Seeding, ReadRoots, At
    <3> QED BY <3>1, <3>2 DEF AllComplete
  <2>3. CASE CompleteGraph(Runner)
    <3>1. frame'[Runner] = [f EXCEPT !.pc = "doneevent"]
      BY <1>1, <2>3, FrameIs DEF CompleteGraph, Goto
    <3>2. frame'[Runner].pc = "doneevent" BY <1>1, <3>1 DEF Frame
    <3> QED BY <3>2 DEF Starting
  <2>4. CASE LogGraphDone(Runner)
    BY <1>1, <2>4, AppendEnds DEF LogGraphDone, Persist, Ends, Ev
  <2>5. CASE Seed(Runner) \/ Seeded(Runner) \/ LogReady(Runner)
    BY <1>5, <2>5 DEF Seed, Seeded, LogReady, At, Starting
  <2> QED BY <1>7, <2>1, <2>2, <2>3, <2>4, <2>5
<1> QED BY <1>2, <1>3, <1>4, <1>8, <1>9, <1>10, QuietEnding

\* The one token of an answer.  A task fails by its own answer or by a cancel.
LEMMA ReportEnding ==
  ASSUME NoJoins, LoneIInv, Ending, NEW t \in Task, NEW failed \in BOOLEAN,
         task[t].pc = "working", ReportResult(t, failed), UNCHANGED taskUnchanged,
         failed => \A e \in EdgesFrom(t[1]) : Cond[e] = "ok"
  PROVE  Ending'
<1>1. /\ Lone /\ Typed /\ TasksTyped /\ CallFacts(t) /\ Worker = {Runner} \cup Task
      /\ t \in Worker /\ t # Runner /\ Runner \notin Task /\ Runner \in Worker
  BY RunnerFacts, TaskFacts, CallIsLone
<1>2. UNCHANGED <<nodes, tokens, graphStatus, nodeStatus, log>> BY DEF taskUnchanged, topology
<1> PICK x : x = Fresh(1, IF failed THEN "error" ELSE "ok") OBVIOUS
<1> PICK q : q = <<[node |-> t[1], out |-> {x}, failed |-> failed]>> OBVIOUS
<1> DEFINE g == [IdleFrame EXCEPT !.pc = "pop", !.op = "advance", !.queue = q]
<1>3. frame' = [frame EXCEPT ![t] = g] /\ task' = [task EXCEPT ![t] = NoTask]
  BY DEF ReportResult, Advance
<1>4. frame'[t] = g /\ \A u \in Worker \ {t} : frame'[u] = frame[u]
  <2> HIDE DEF g
  <2> QED BY <1>1, <1>3 DEF Typed
<1>5. \A u \in Task \ {t} : task'[u] = task[u] BY <1>1, <1>3 DEF TasksTyped
<1>6. g.pc = "pop" /\ g.queue = q /\ g.failed = FALSE BY DEF IdleFrame
<1> PICK h : h = g OBVIOUS
<1> HIDE DEF g
<1>7. x \in Token /\ x.color = IF failed THEN "error" ELSE "ok" BY DEF Fresh, Token, Color
<1>8. DOMAIN q = {1} /\ q[1].out = {x} /\ q[1].failed = failed /\ q[1].node = t[1] OBVIOUS
<1>9. EndCall(h, t[1])
  <2>1. Reports({x}, failed, t[1]) BY <1>7 DEF Reports
  <2>2. \A i \in DOMAIN q : Reports(q[i].out, q[i].failed, t[1]) BY <1>8, <2>1
  <2> QED BY <1>6, <2>2 DEF EndCall, Passing
<1>10. Begun(t) /\ Begun(t)' BY <1>4, <1>6, <1>8 DEF Begun, Holds
<1>11. frame[t].pc = "idle" BY <1>1 DEF Lone, Stage, At
<1>12. ~ Visits(frame[t]) /\ \A e \in InitEdge : ~ Owes(frame[t], e)
  BY <1>1, <1>11 DEF CallFacts, LoneCall, Passing, Visits, Owes
<1>13. TaskKept(t) BY <1>4, <1>9, <1>10, <1>12 DEF TaskKept, Past
<1>14. \A u \in Task \ {t} : TaskKept(u)
  <2>1. \A u \in Task \ {t} : frame'[u] = frame[u] /\ (Past(u)' <=> Past(u))
    BY <1>1, <1>4, <1>5 DEF Past, Live, Begun, At
  <2> QED BY <2>1, SameTask
<1>15. Starting => Starting' BY <1>1, <1>2, <1>4 DEF Starting
<1> QED BY <1>2, <1>13, <1>14, <1>15, TablesEnding DEF LogExtended, StatusesMoveOn

LEMMA TaskEnding ==
  ASSUME NoJoins, LoneIInv, Ending, ~ HandsOn', NEW t \in Task, Run(t) \/ Result(t)
  PROVE  Ending'
<1>1. /\ Lone /\ Typed /\ TasksTyped /\ t \in Worker /\ t # Runner /\ t[1] \in Node
  BY RunnerFacts, TaskFacts
<1>2. ASSUME UNCHANGED <<nodes, tokens, frame, graphStatus>>, LogExtended, StatusesMoveOn,
             \A u \in Task : task'[u].pc = "none" <=> task[u].pc = "none"
      PROVE  Ending'
  <2>1. \A u \in Task : Past(u)' <=> Past(u) BY <1>2 DEF Past, Live, Begun, At
  <2>2. Starting => Starting' BY <1>2 DEF Starting
  <2> QED BY <1>2, <2>1, <2>2, QuietEnding
<1>3. CASE StartNode(t)
  <2>1. nodeStatus[t[1]] \in {"ready", "running"} BY <1>1, <1>3 DEF StartNode, Lone, Stage, Begun
  <2>2. StatusesMoveOn BY <1>1, <1>3, <2>1 DEF StartNode, SetNode, Typed, TypeOK, StatusesMoveOn
  <2>3. \A u \in Task : task'[u].pc = "none" <=> task[u].pc = "none"
    BY <1>1, <1>3 DEF StartNode, TasksTyped, TaskState
  <2> QED BY <1>2, <1>3, <2>2, <2>3 DEF StartNode, topology, LogExtended
<1>4. CASE LogStarted(t)
  <2>1. \A u \in Task : task'[u].pc = "none" <=> task[u].pc = "none"
    BY <1>1, <1>4 DEF LogStarted, TasksTyped, TaskState
  <2> QED BY <1>2, <1>4, <2>1 DEF LogStarted, Persist, topology, LogExtended, StatusesMoveOn
<1>5. CASE Succeed(t) \/ Fail(t) \/ Abort(t)
  <2>1. UNCHANGED taskUnchanged /\ task[t].pc = "working" BY <1>5 DEF Succeed, Fail, Abort
  <2>2. CASE Retry(t) /\ AttemptFails(t)
    <3>1. UNCHANGED <<nodes, tokens, nodeStatus, frame, graphStatus, log>>
      BY <2>1, <2>2 DEF taskUnchanged, topology, AttemptFails
    <3>2. \A u \in Task : task'[u].pc = "none" <=> task[u].pc = "none"
      BY <1>1, <2>1, <2>2 DEF AttemptFails, TasksTyped, TaskState
    <3> QED BY <1>2, <3>1, <3>2 DEF LogExtended, StatusesMoveOn
  <2>3. CASE Succeed(t) BY <2>1, <2>3, ReportEnding DEF Succeed
  <2>4. CASE ReportResult(t, TRUE) /\ (Fail(t) \/ Abort(t))
    <3>1. Failing(frame'[t])
      <4> DEFINE q == <<[node |-> t[1], out |-> {Fresh(1, "error")}, failed |-> TRUE]>>
                 g == [IdleFrame EXCEPT !.pc = "pop", !.op = "advance", !.queue = q]
      <4>1. frame' = [frame EXCEPT ![t] = g] BY <2>4 DEF ReportResult, Advance
      <4>2. frame'[t] = g BY <1>1, <4>1, FrameIs
      <4>3. 1 \in DOMAIN q /\ q[1].failed OBVIOUS
      <4>4. \A s : [IdleFrame EXCEPT !.pc = "pop", !.op = "advance", !.queue = s].queue = s
        BY DEF IdleFrame
      <4>5. g.queue = q BY <4>4
      <4> HIDE DEF g, q
      <4> QED BY <4>2, <4>3, <4>5 DEF Failing
    <3>2. \A e \in EdgesFrom(t[1]) : Cond[e] = "ok" BY <3>1 DEF EdgesFrom, HandsOn
    <3> QED BY <2>1, <2>4, <3>2, ReportEnding
  <2> QED BY <1>5, <2>2, <2>3, <2>4 DEF Fail, Abort, AttemptFails
<1> QED BY <1>3, <1>4, <1>5 DEF Run, Result

\* The streams and the methods change no call and no table of the engine.
LEMMA LatticeEnding ==
  ASSUME LoneIInv, Ending, UNCHANGED lattice, \A u \in Task : Past(u)' <=> Past(u)
  PROVE  Ending'
<1>1. /\ UNCHANGED <<nodes, tokens, frame, graphStatus, nodeStatus, log>>
  BY DEF lattice, topology
<1>2. Starting => Starting' BY <1>1 DEF Starting
<1> QED BY <1>1, <1>2, QuietEnding DEF LogExtended, StatusesMoveOn

LEMMA StreamEnding ==
  ASSUME LoneIInv, Ending,
         \/ Read(Runner) \/ Dispatch \/ Launch \/ CancelGraph \/ FindReady \/ Reattach
         \/ UNCHANGED runnerVars
  PROVE  Ending'
<1>1. TasksTyped /\ \A u \in Task : u[1] \in Node BY TaskFacts
<1>2. UNCHANGED lattice
  BY DEF Read, Open, Fetch, Wait, Dispatch, Consume, Launch, CancelGraph, FindReady, Reattach,
         runnerVars
<1>3. frame' = frame BY <1>2 DEF lattice
<1>4. ASSUME \A u \in Task : task'[u].pc = "none" <=> task[u].pc = "none"
      PROVE  \A u \in Task : Past(u)' <=> Past(u)
  BY <1>3, <1>4 DEF Past, Live, Begun, At
<1>5. CASE UNCHANGED task BY <1>2, <1>4, <1>5, LatticeEnding
<1>6. CASE task' = Orphan(task) \/ task' = Fire(task)
  BY <1>1, <1>2, <1>4, <1>6, ReceiversChange, LatticeEnding
<1>7. ASSUME NEW n, Spawn(n) PROVE Ending'
  <2>1. PICK k \in Copy : /\ ~ Live(<<n, k>>)
                          /\ task' = [task EXCEPT ![<<n, k>>] =
                                        [pc |-> "spawned", attempt |-> 0, rx |-> token]]
    BY <1>7 DEF Spawn, FreeCopy
  <2> PICK t : t = <<n, k>> OBVIOUS
  <2>2. \A u \in Task : u # t => task'[u] = task[u] BY <1>1, <2>1 DEF TasksTyped
  <2>3. t \in Task => task'[t].pc = "spawned" BY <1>1, <2>1 DEF TasksTyped
  <2>4. \A u \in Task : Past(u)' <=> Past(u)
    <3>1. ASSUME NEW u \in Task, u # t PROVE Past(u)' <=> Past(u)
      BY <1>3, <2>2, <3>1 DEF Past, Live, Begun, At
    <3>2. t \in Task => ~ Past(t) /\ ~ Past(t)' BY <2>1, <2>3 DEF Past, Begun
    <3> QED BY <3>1, <3>2
  <2> QED BY <1>2, <2>4, LatticeEnding
<1> QED BY <1>5, <1>6, <1>7
        DEF Read, Open, Fetch, Wait, Dispatch, Finished, Launch, CancelGraph, FindReady,
            Reattach, Attach, orcha, runnerVars

LEMMA StartEnding ==
  ASSUME LoneIInv, Ending, StartGraph PROVE Ending'
<1>1. Typed /\ Runner \in Worker /\ \A t \in Task : t \in Worker /\ t # Runner
  BY RunnerFacts, WorkerKinds
<1> DEFINE g == [IdleFrame EXCEPT !.pc = "roots", !.op = "start"]
<1>2. frame' = [frame EXCEPT ![Runner] = g] BY DEF StartGraph, Start
<1>3. g.pc = "roots" BY DEF IdleFrame
<1> HIDE DEF g
<1>4. frame'[Runner] = g /\ \A t \in Task : frame'[t] = frame[t] BY <1>1, <1>2 DEF Typed
<1>5. UNCHANGED <<nodes, tokens, nodeStatus, log, task>>
  BY DEF StartGraph, Start, topology, orcha
<1>6. \A t \in Task : Past(t)' <=> Past(t) BY <1>4, <1>5 DEF Past, Live, Begun, At
<1>7. Starting' BY <1>3, <1>4 DEF Starting
<1> QED BY <1>4, <1>5, <1>6, <1>7, QuietEnding DEF LogExtended, StatusesMoveOn

LEMMA ReemissionEnding ==
  ASSUME LoneIInv, Listening, Ending, ResetRunning \/ ReemitReady PROVE Ending'
<1>1. Typed /\ Runner \in Worker /\ \A t \in Task : t \in Worker /\ t # Runner
  BY RunnerFacts, WorkerKinds
<1>2. PICK n \in left : /\ EmitReady(n)
                        /\ \/ nodeStatus[n] = "running" /\ SetNode(n, "ready", {})
                           \/ UNCHANGED nodeStatus
  BY DEF ResetRunning, ReemitReady
<1>3. /\ UNCHANGED <<nodes, tokens, graphStatus, log, task>>
      /\ stream[Runner].pc \in {"recover", "reemit"} /\ At(Runner, "idle")
  BY DEF ResetRunning, ReemitReady, topology
<1>4. \A t \in Task : frame'[t] = frame[t] BY <1>1, <1>2 DEF EmitReady, Typed
<1>5. \A t \in Task : Past(t)' <=> Past(t) BY <1>3, <1>4 DEF Past, Live, Begun, At
<1>6. ~ Starting BY <1>3 DEF Starting, Listening, At
<1>7. StatusesMoveOn BY <1>1, <1>2 DEF SetNode, Typed, TypeOK, StatusesMoveOn
<1> QED BY <1>3, <1>4, <1>5, <1>6, <1>7, QuietEnding DEF LogExtended

\* A restart between two calls: none has anything to deliver or to tell.
LEMMA RestartEnding ==
  ASSUME LoneIInv, ~ RestartInCall, Ending, Restart PROVE Ending'
<1>1. /\ Lone /\ Typed /\ Runner \in Worker /\ \A t \in Task : t \in Worker
  BY RunnerFacts, WorkerKinds
<1>2. UNCHANGED <<nodes, tokens, nodeStatus, graphStatus, log>> BY DEF Restart, topology
<1>3. ASSUME NEW t \in Task PROVE TaskKept(t)
  <2>1. LoneCall(frame[t], t[1]) BY <1>1 DEF Lone
  <2>2. frame[t].pc = "idle" BY <1>1, <2>1 DEF Restart, Cuttable, At, LoneCall
  <2>3. ~ Visits(frame[t]) /\ \A e \in InitEdge : ~ Owes(frame[t], e)
    BY <2>1, <2>2 DEF LoneCall, Passing, Visits, Owes
  <2>4. ~ Past(t) BY <2>2 DEF Past, Live, Begun, At
  <2>5. frame'[t] = IdleFrame /\ task'[t] = NoTask BY <1>1 DEF Restart
  <2>6. ~ Past(t)' BY <2>5 DEF Past, Live, At, IdleFrame, NoTask
  <2> QED BY <2>3, <2>4, <2>5, <2>6, IdleEnds DEF TaskKept
<1>4. Starting => Starting'
  <2>1. At(Runner, "idle") \/ frame[Runner].op = "node" BY <1>1 DEF Restart, Cuttable
  <2> QED BY <1>1, <1>2, <2>1 DEF Lone, Seeding, Starting, At
<1> QED BY <1>2, <1>3, <1>4, TablesEnding DEF LogExtended, StatusesMoveOn

LEMMA InitEnding == OrchaInit => RootsTold /\ Listening /\ Ending
<1> SUFFICES ASSUME OrchaInit PROVE RootsTold /\ Listening /\ Ending OBVIOUS
<1>1. /\ frame = [w \in Worker |-> IdleFrame] /\ graphStatus = "pending" /\ tokens = {}
      /\ nodeStatus = [n \in Node |-> "pending"] /\ task = [t \in Task |-> NoTask]
      /\ stream = [s \in Stream |-> AtStart("off")]
  BY DEF OrchaInit, Init
<1>2. Runner \in Worker /\ Runner \in Stream /\ \A t \in Task : t \in Worker /\ t[1] \in Node
  BY WorkerKinds
<1>3. IdleFrame.pc = "idle" /\ IdleFrame.roots = {} /\ NoTask.pc = "none"
  BY DEF IdleFrame, NoTask
<1>4. \A n : EndCall(IdleFrame, n) BY IdleEnds
<1> HIDE DEF IdleFrame, NoTask
<1>5. RootsTold BY <1>1, <1>2, <1>3 DEF RootsTold
<1>6. Listening BY <1>1, <1>2 DEF Listening, Driving, AtStart
<1>7. \A t \in Task : ~ Past(t) BY <1>1, <1>2, <1>3 DEF Past, Live, At
<1>8. AnswersStand /\ CompletionTold BY <1>1, <1>7 DEF AnswersStand, CompletionTold, Starting
<1>9. Delivered /\ Noticed BY <1>1, GraphAssumption DEF Delivered, Noticed, HasToken
<1>10. FailureTold BY <1>1 DEF FailureTold
<1> QED BY <1>1, <1>2, <1>4, <1>5, <1>6, <1>8, <1>9, <1>10 DEF Ending

\* A failure that was handed on stays in the log; a call that is about to log it does.
LEMMA FailingCall ==
  ASSUME NoJoins, LoneIInv, NEW t \in Task, Engine(t), Failing(frame[t])
  PROVE  Failing(frame'[t]) \/ Ev("NodeFailed", t[1]) \in Events'
<1> PICK f : f = frame[t] OBVIOUS
<1>1. CallFacts(t) /\ Typed /\ f \in Frame /\ t \in Worker /\ LoneCall(f, t[1]) BY CallIsLone DEF CallFacts
<1>2. Step(t) BY DEF Engine
<1>3. CASE f.queue # <<>>
  <2>1. f.pc = "pop" /\ Len(f.queue) = 1 BY <1>1, <1>3 DEF LoneCall
  <2> DEFINE i == f.queue[Len(f.queue)]
             rest == SubSeq(f.queue, 1, Len(f.queue) - 1)
             h == [f EXCEPT !.pc = "mark", !.queue = rest, !.node = i.node,
                            !.out = i.out, !.failed = i.failed]
  <2>2. 1 \in DOMAIN f.queue /\ i = f.queue[1] /\ i.failed
    <3>1. f.queue \in Seq(Item) BY <1>1 DEF Frame
    <3>2. DOMAIN f.queue = {1} BY <2>1, <3>1
    <3> QED BY <2>1, <3>2 DEF Failing
  <2>3. Holds(f, i.node) BY <2>2 DEF Holds
  <2>4. i.node = t[1] /\ ~ IsTerminal(nodeStatus[i.node])
    <3>1. i \in Item BY <1>1, <2>2 DEF Frame
    <3> QED BY <1>1, <2>3, <3>1 DEF CallFacts, Stage, Begun, IsTerminal, Item
  <2>5. Pop(t)
    BY <1>2, <2>1 DEF Step, ReadRoots, Seed, Seeded, Mark, LogNode, Route, Deliver, Routed,
         FailGraph, LogGraphFailed, Finish, CompleteGraph, LogGraphDone, Check,
         NotEnabled, EnableTask, EnableGather, LogReady, At
  <2>6. frame'[t] = h
    <3>1. frame' = [frame EXCEPT ![t] = h] BY <2>4, <2>5 DEF Pop
    <3> QED BY <1>1, <3>1, FrameIs
  <2>7. h.pc = "mark" /\ h.failed = i.failed
    <3> HIDE DEF i, rest
    <3> QED BY <1>1 DEF Frame
  <2> QED BY <2>2, <2>6, <2>7 DEF Failing
<1>4. CASE f.queue = <<>>
  <2>1. f.pc \in {"mark", "log"} /\ f.failed BY <1>4 DEF Failing
  <2>2. Mark(t) \/ LogNode(t)
    BY <1>2, <2>1 DEF Step, ReadRoots, Seed, Seeded, Pop, Route, Deliver, Routed,
         FailGraph, LogGraphFailed, Finish, CompleteGraph, LogGraphDone, Check,
         NotEnabled, EnableTask, EnableGather, LogReady, At
  <2>3. CASE Mark(t)
    <3> DEFINE h == [f EXCEPT !.pc = "log"]
    <3>1. frame'[t] = h BY <1>1, <2>3, FrameIs DEF Mark, Goto
    <3>2. h.pc = "log" /\ h.failed = f.failed BY <1>1 DEF Frame
    <3> QED BY <2>1, <3>1, <3>2 DEF Failing
  <2>4. CASE LogNode(t)
    <3>1. f.node = t[1] BY <1>1, <2>4 DEF LoneCall, LogNode, At
    <3>2. log' = Append(log, Ev("NodeFailed", t[1])) BY <2>1, <2>4, <3>1 DEF LogNode, Persist
    <3> QED BY <1>1, <3>2, AppendAddsEvent
  <2> QED BY <2>2, <2>3, <2>4
<1> QED BY <1>3, <1>4

LEMMA HandsOnStays ==
  ASSUME NoJoins, ~ RestartInCall, LoneIInv, [OrchaNext]_runnerVars, HandsOn
  PROVE  HandsOn'
<1>1. PICK e \in InitEdge : /\ Cond[e] # "ok"
                            /\ \/ Ev("NodeFailed", From[e]) \in Events
                               \/ \E t \in Task : t[1] = From[e] /\ Failing(frame[t])
  BY DEF HandsOn
<1>2. Typed /\ Worker = {Runner} \cup Task /\ Runner \notin Task BY RunnerFacts
<1>3. LogExtended
  BY StepExtendsLog DEF OrchaNext, Engine, Run, StartNode, LogStarted, Abort, Result, Succeed,
     Fail, taskUnchanged, Persist, Read, Open, Fetch, Wait, Dispatch, Consume, Launch, StartGraph,
     Start, CancelGraph, Restart, Recover, ResetRunning, FindReady, ReemitReady, Reattach,
     lattice, runnerVars, LogExtended
<1>4. CASE Ev("NodeFailed", From[e]) \in Events
  <2>1. Ev("NodeFailed", From[e]) \in Events'
    BY <1>2, <1>3, <1>4, AppendAddsEvent DEF LogExtended, Events
  <2> QED BY <1>1, <2>1 DEF HandsOn
<1>5. ASSUME NEW t \in Task, t[1] = From[e], Failing(frame[t]) PROVE HandsOn'
  <2>1. CallFacts(t) /\ t \in Worker BY CallIsLone DEF CallFacts
  <2>2. ~ At(t, "idle") /\ frame[t].op = "advance"
    BY <1>5, <2>1 DEF CallFacts, LoneCall, Failing, At
  <2>3. CASE frame'[t] = frame[t] BY <1>1, <1>5, <2>3 DEF HandsOn
  <2>4. CASE Engine(t) BY <1>1, <1>5, <2>4, FailingCall DEF HandsOn
  <2>5. frame'[t] = frame[t] \/ Engine(t)
    <3>1. CASE \E w \in Worker : Engine(w)
      BY <1>2, <2>1, <3>1, StepIsLocal DEF Engine
    <3>2. ASSUME NEW u \in Task, Run(u) \/ Result(u) PROVE frame'[t] = frame[t]
      <4>1. /\ u \in Worker /\ (task[u].pc # "none" => At(u, "idle"))
        BY CallIsLone DEF CallFacts, Stage
      <4>2. CASE UNCHANGED frame BY <4>2
      <4>3. ASSUME NEW failed, ReportResult(u, failed), task[u].pc = "working"
            PROVE  frame'[t] = frame[t]
        <5>1. u # t BY <2>2, <4>1, <4>3
        <5> QED BY <1>2, <2>1, <4>3, <5>1 DEF ReportResult, Advance, Typed
      <4> QED BY <3>2, <4>2, <4>3 DEF Run, StartNode, LogStarted, Abort, Result, Succeed, Fail,
                                      AttemptFails
    <3>3. CASE StartGraph \/ ResetRunning \/ ReemitReady
      <4>1. t # Runner BY <1>2
      <4> QED BY <1>2, <2>1, <3>3, <4>1 DEF StartGraph, Start, ResetRunning, ReemitReady,
                                            EmitReady, Typed
    <3>4. CASE Restart
      <4>1. Cuttable(t) BY <2>1, <3>4 DEF Restart
      <4> QED BY <2>2, <4>1 DEF Cuttable
    <3>5. CASE Read(Runner) \/ Dispatch \/ Launch \/ CancelGraph \/ FindReady \/ Reattach
               \/ UNCHANGED runnerVars
      BY <3>5 DEF Read, Open, Fetch, Wait, Dispatch, Consume, Launch, CancelGraph, FindReady,
                  Reattach, lattice, runnerVars
    <3> QED BY <3>1, <3>2, <3>3, <3>4, <3>5 DEF OrchaNext, Recover
  <2> QED BY <2>3, <2>4, <2>5
<1> QED BY <1>1, <1>4, <1>5

LEMMA NextEnding ==
  ASSUME NoJoins, Acyclic, SuccessFlows, ~ RestartInCall, EndIInv, [OrchaNext]_runnerVars
  PROVE  EndIInv'
<1>1. LoneIInv /\ RootsTold /\ Listening /\ (HandsOn \/ Ending) BY DEF EndIInv
<1>2. LoneIInv' /\ RootsTold' /\ Listening' BY <1>1, NextLone, NextRoots, NextListens
<1>3. ASSUME Ending, ~ HandsOn' PROVE Ending'
  <2>1. CASE \E w \in Worker : Engine(w)
    <3>1. Worker = {Runner} \cup Task BY <1>1, RunnerFacts
    <3> QED BY <1>1, <1>3, <2>1, <3>1, RunnerEnding, TaskEngineEnding, MarkEnding
  <2>2. CASE \E t \in Task : Run(t) \/ Result(t) BY <1>1, <1>3, <2>2, TaskEnding
  <2>3. CASE StartGraph \/ Restart \/ ResetRunning \/ ReemitReady
    BY <1>1, <1>3, <2>3, StartEnding, RestartEnding, ReemissionEnding
  <2> QED BY <1>1, <1>3, <2>1, <2>2, <2>3, StreamEnding DEF OrchaNext, Recover
<1>4. HandsOn => HandsOn' BY <1>1, HandsOnStays
<1> QED BY <1>1, <1>2, <1>3, <1>4 DEF EndIInv

\* A dispatcher that has read all of the log and has no task has heard of no end, so not all
\* nodes are complete and none has failed; the first of the others in the order of the graph
\* waits for nothing, and is neither a root nor the target of a token.
LEMMA NobodyWaits ==
  ASSUME Acyclic, EndIInv, ~ HandedOn PROVE NoDeadEnd
<1> SUFFICES ASSUME stream[Runner].pc = "wait", stream[Runner].cursor = Len(log),
                    \A t \in Task : ~ Live(t)
             PROVE  FALSE
  BY DEF NoDeadEnd
<1>1. LoneIInv /\ RootsTold /\ Listening /\ Ending
  <2>1. LoneIInv /\ RootsTold /\ Listening /\ (HandsOn \/ Ending) BY DEF EndIInv
  <2>2. \A t \in Task : LoneCall(frame[t], t[1]) BY <2>1, RunnerFacts DEF Lone
  <2>3. \A t \in Task : ~ Failing(frame[t]) BY <2>2 DEF LoneCall, Failing, Live, At
  <2> QED BY <2>1, <2>3 DEF HandsOn, HandedOn
<1>2. /\ Lone /\ Typed /\ edges = InitEdge /\ Worker = {Runner} \cup Task /\ Runner \in Worker
      /\ Rows /\ \A t \in Task : t[1] \in Node
  BY <1>1, RunnerFacts, WorkerKinds DEF LoneIInv
<1>3. At(Runner, "idle") /\ graphStatus # "pending" /\ Driving BY <1>1 DEF Listening, Driving
<1>4. DOMAIN log = 1..Len(log) /\ Len(log) \in Nat BY <1>1, ReadUpTo
<1>5. ~ Ended BY <1>1, <1>3, <1>4 DEF Listening, Ended, Events
<1>6. \A t \in Task : frame[t].pc = "idle" /\ ~ Past(t) BY DEF Live, Past, At
<1>7. \A n \in Node : nodeStatus[n] # "failed" BY <1>1, <1>5, <1>6 DEF Ending, FailureTold
<1>8. ~ AllComplete BY <1>1, <1>3, <1>5, <1>6 DEF Ending, CompletionTold, Starting, At
<1>9. \A n \in Node : nodeStatus[n] \notin {"ready", "running"}
  <2> SUFFICES ASSUME NEW n \in Node, nodeStatus[n] \in {"ready", "running"} PROVE FALSE OBVIOUS
  <2>1. InHand(n) BY <1>2, <1>3 DEF Lone, InGoodHands
  <2>2. ~ \E k \in Copy : Live(<<n, k>>) BY DEF Task
  <2>3. ~ AboutToLog(n) BY <1>2, <1>3, <1>6 DEF AboutToLog, At
  <2>4. ~ Unread(n) BY <1>4 DEF Unread
  <2> QED BY <2>1, <2>2, <2>3, <2>4 DEF InHand
<1>10. \A n \in Node : nodeStatus[n] \in {"pending", "complete"}
  BY <1>2, <1>7, <1>9 DEF Typed, TypeOK, Status
<1> DEFINE S == {n \in InitNode : nodeStatus[n] = "pending"}
<1>11. S # {}
  <2>1. PICK n \in nodes : nodeStatus[n] # "complete" BY <1>8 DEF AllComplete
  <2>2. n \in InitNode /\ n \in Node BY <1>2, <2>1, GraphAssumption DEF Rows
  <2> QED BY <1>10, <2>1, <2>2
<1>12. PICK n \in S : \A e \in InitEdge : To[e] = n => From[e] \notin S
  BY <1>11 DEF Acyclic
<1>13. n \in nodes /\ n \in Node /\ nodeStatus[n] = "pending" BY <1>2, GraphAssumption DEF Rows
<1>14. CASE Inbound(n) = {}
  <2>1. frame[Runner].pc = "idle" /\ frame[Runner].roots = {} BY <1>2, <1>3 DEF Lone, Seeding, At
  <2> QED BY <1>1, <1>3, <1>13, <1>14, <2>1 DEF RootsTold
<1>15. CASE Inbound(n) # {}
  <2>1. PICK e \in InitEdge : To[e] = n BY <1>2, <1>15 DEF Inbound
  <2>2. nodeStatus[From[e]] = "complete"
    <3>1. From[e] \in InitNode /\ From[e] \in Node BY <2>1, GraphAssumption
    <3> QED BY <1>10, <1>12, <2>1, <3>1
  <2>3. ASSUME NEW t \in Task PROVE ~ Visits(frame[t]) /\ ~ Owes(frame[t], e)
    <3>1. LoneCall(frame[t], t[1]) BY <1>2 DEF Lone
    <3> QED BY <1>6, <3>1 DEF LoneCall, Passing, Visits, Owes
  <2>4. HasToken(e) BY <1>1, <2>2, <2>3 DEF Ending, Delivered
  <2> QED BY <1>1, <1>13, <2>1, <2>3, <2>4 DEF Ending, Noticed
<1> QED BY <1>14, <1>15

\* run_graph_execution and advance_graph: in an acyclic graph without joins, and with any
\* number of restarts between calls, a dispatcher that waits with nothing left to read waits
\* for a task, unless a failure was handed on: the graph has not come to a silent end.
THEOREM EveryWaitEnds ==
  ASSUME NoJoins, Acyclic, SuccessFlows, ~ RestartInCall
  PROVE  OrchaSpec => [](NoDeadEnd \/ HandedOn)
<1>1. OrchaInit => EndIInv
  <2>1. OrchaInit => LoneIInv
    BY OrchaInitIInv, InitSettles, OrchaInitAwake, InitLone DEF LoneIInv, RecoveryIInv
  <2> QED BY <2>1, InitEnding DEF EndIInv
<1>2. EndIInv /\ [OrchaNext]_runnerVars => EndIInv' BY NextEnding
<1>3. EndIInv => NoDeadEnd \/ HandedOn BY NobodyWaits
<1> QED BY <1>1, <1>2, <1>3, PTL DEF OrchaSpec
-----------------------------------------------------------------------------
(***************************************************************************)
(* Dispatch respects the edges: for every graph, and restarts also in the  *)
(* middle of a call, NodeReady follows an answer of every predecessor.     *)
(* What a restart leaves of it is in the tables: a node that is no longer  *)
(* pending is due, so that recovery may announce it.                       *)
(***************************************************************************)
Due(n) == Sources(n) \subseteq Answered

Prepared ==
    /\ \A n \in Node : nodeStatus[n] # "pending" => Due(n)
    /\ \A t \in Task : task[t].pc # "none" => Due(t[1])
    /\ \A w \in Worker : \A n \in Node : Holds(frame[w], n) => Due(n)

OrderIInv == RecoveryIInv /\ Causality /\ Prepared

LEMMA OrderParts ==
  ASSUME OrderIInv PROVE Parts /\ Typed /\ Causality /\ Prepared /\ Settling /\ OrchaIInv
  BY TypeParts DEF OrderIInv, RecoveryIInv, Parts

\* Nothing stops being due.
LEMMA PreparedStep ==
  ASSUME Prepared, Events \subseteq Events',
         \A n \in Node : nodeStatus'[n] # "pending" => nodeStatus[n] # "pending" \/ Due(n),
         \A t \in Task : task'[t].pc # "none" => task[t].pc # "none" \/ Due(t[1]),
         \A w \in Worker : \A n \in Node :
             Holds(frame'[w], n) => Holds(frame[w], n) \/ Due(n)
  PROVE  Prepared'
<1>1. Answered \subseteq Answered' BY AnsweredKept
<1>2. \A n : Due(n) => Due(n)' BY <1>1 DEF Due
<1>3. \A w \in Worker : \A n : Holds(frame[w], n)' = Holds(frame'[w], n) BY DEF Holds
<1> QED BY <1>2, <1>3, WorkerKinds DEF Prepared

\* A node whose NodeReady is in the log is due.
LEMMA AnnouncedIsDue ==
  ASSUME Typed, Causality, NEW i \in DOMAIN log, log[i].type = "NodeReady", log[i].node \in Node
  PROVE  Due(log[i].node)
<1> SUFFICES ASSUME NEW p \in Sources(log[i].node) PROVE p \in Answered BY DEF Due
<1>1. p \in Node BY GraphAssumption DEF Sources
<1>2. p \in Preds(log[i].node) BY PredsAreSources DEF Causality
<1>3. PICK j \in 1..(i - 1) : log[j] \in Answers(p) BY <1>2 DEF Causality, DependencyOrder
<1>4. log \in Seq(Event) BY DEF Typed, TypeOK
<1>5. j \in DOMAIN log BY <1>3, <1>4
<1> QED BY <1>1, <1>3, <1>5 DEF Answered, Events

\* A call takes up only a node that it has found enabled.
LEMMA StepHolds ==
  ASSUME Typed, Causality, NEW w \in Worker, Step(w), NEW n \in Node, Holds(frame'[w], n)
  PROVE  Holds(frame[w], n) \/ Due(n)
<1> DEFINE f == frame[w]
<1>1. CASE QuietAction(w) BY <1>1, QuietSteps, QuietHolds
<1>2. CASE ~ QuietAction(w)
  <2>1. Holds(f, n) \/ (n \in Gather /\ f.pc = "enable" /\ n = f.target)
    BY StepKeepsWork DEF WorkKept, Enables
  <2>2. CASE EnableGather(w)
    BY <2>1, <2>2, EnabledIsAnswered DEF EnableGather, Due
  <2>3. CASE EnableTask(w) BY <2>1, <2>3 DEF EnableTask
  <2>4. CASE Seed(w) \/ Pop(w) \/ Check(w) BY <2>1, <2>4 DEF Seed, Pop, Check, At
  <2> QED BY <1>2, <2>2, <2>3, <2>4 DEF Step, QuietAction
<1> QED BY <1>1, <1>2

LEMMA StepStatus ==
  ASSUME Typed, Causality, Prepared, NEW w \in Worker, Step(w), NEW n \in Node,
         nodeStatus'[n] # "pending"
  PROVE  nodeStatus[n] # "pending" \/ Due(n)
<1> DEFINE f == frame[w]
<1>1. f \in TypedFrame /\ f \in CausalFrame(Answered) BY CallFrame, CausalCall
<1>2. ASSUME NEW m, NEW s, NEW o, SetNode(m, s, o), m # n PROVE nodeStatus'[n] = nodeStatus[n]
  BY <1>2 DEF SetNode, Typed, TypeOK
<1>3. CASE Seed(w)
  <2>1. PICK m \in f.roots : SetNode(m, "ready", {}) BY <1>3 DEF Seed
  <2> QED BY <1>1, <1>2, <2>1 DEF CausalFrame, Due
<1>4. CASE Mark(w)
  <2>1. f.pc = "mark" BY <1>4 DEF Mark, At
  <2>2. \E s, o : SetNode(f.node, s, o) BY <1>4 DEF Mark
  <2>3. Holds(f, f.node) BY <2>1 DEF Holds
  <2> QED BY <1>2, <2>2, <2>3 DEF Prepared
<1>5. CASE EnableTask(w) \/ EnableGather(w)
  <2>1. Enabled(f.target) /\ \E s : SetNode(f.target, s, {})
    BY <1>5 DEF EnableTask, EnableGather
  <2> QED BY <1>2, <2>1, EnabledIsAnswered DEF Due
<1>6. CASE UNCHANGED nodeStatus BY <1>6
<1> QED BY <1>3, <1>4, <1>5, <1>6
        DEF Step, ReadRoots, Seeded, Pop, LogNode, Route, Deliver, Routed, FailGraph,
            LogGraphFailed, Finish, CompleteGraph, LogGraphDone, Check, NotEnabled, LogReady

LEMMA StepEvents == ASSUME Typed, NEW w \in Worker, Step(w) PROVE Events \subseteq Events'
<1>1. CASE UNCHANGED log BY <1>1 DEF Events
<1>2. ASSUME NEW e, Persist(e) PROVE Events \subseteq Events'
  BY <1>2, AppendAddsEvent DEF Persist
<1> QED BY <1>1, <1>2
        DEF Step, ReadRoots, Seed, Seeded, Pop, Mark, LogNode, Route, Deliver, Routed, FailGraph,
            LogGraphFailed, Finish, CompleteGraph, LogGraphDone, Check, NotEnabled, EnableTask,
            EnableGather, LogReady

LEMMA EngineOrder ==
  ASSUME OrderIInv, NEW w \in Worker, Engine(w) PROVE Causality' /\ Prepared'
<1> USE OrderParts
<1>1. Step(w) BY DEF Engine
<1>2. Causality' BY <1>1, NextCausal DEF Next, Execute
<1>3. Events \subseteq Events' BY <1>1, StepEvents
<1>4. \A u \in Worker : \A n \in Node : Holds(frame'[u], n) => Holds(frame[u], n) \/ Due(n)
  <2> SUFFICES ASSUME NEW u \in Worker, NEW n \in Node, Holds(frame'[u], n)
               PROVE  Holds(frame[u], n) \/ Due(n)
    OBVIOUS
  <2>1. CASE u = w BY <1>1, <2>1, StepHolds
  <2>2. CASE u # w BY <1>1, <2>2, StepIsLocal
  <2> QED BY <2>1, <2>2
<1>5. \A n \in Node : nodeStatus'[n] # "pending" => nodeStatus[n] # "pending" \/ Due(n)
  BY <1>1, StepStatus
<1>6. task' = task BY DEF Engine, orcha
<1> QED BY <1>2, <1>3, <1>4, <1>5, <1>6, PreparedStep

\* A step that leaves the engine's tables, its log and its calls as they are.
LEMMA StillOrder ==
  ASSUME Causality, Prepared, UNCHANGED lattice,
         \A t \in Task : task'[t].pc # "none" => task[t].pc # "none" \/ Due(t[1])
  PROVE  Causality' /\ Prepared'
<1>1. UNCHANGED <<edges, nodeStatus, tokens, log, frame>> BY DEF lattice, topology
<1>2. Events' = Events /\ Answered' = Answered BY <1>1 DEF Events, Answered
<1>3. DependencyOrder' BY <1>1 DEF Causality, DependencyOrder, Preds, Inbound
<1>4. Causality' BY <1>1, <1>2, <1>3 DEF Causality
<1> QED BY <1>1, <1>2, <1>4, PreparedStep

LEMMA StartNodeOrder ==
  ASSUME OrderIInv, NEW t \in Task, StartNode(t) PROVE Causality' /\ Prepared'
<1> USE OrderParts
<1>1. UNCHANGED <<edges, tokens, log, frame>> /\ SetNode(t[1], "running", {})
  BY DEF StartNode, topology
<1>2. Events' = Events /\ Answered' = Answered BY <1>1 DEF Events, Answered
<1>3. DependencyOrder' BY <1>1 DEF Causality, DependencyOrder, Preds, Inbound
<1>4. Causality' BY <1>1, <1>2, <1>3 DEF Causality
<1>5. Due(t[1]) BY DEF StartNode, Prepared
<1>6. \A n \in Node : nodeStatus'[n] # "pending" => nodeStatus[n] # "pending" \/ Due(n)
  BY <1>1, <1>5 DEF SetNode, Typed, TypeOK
<1>7. \A u \in Task : task'[u].pc # "none" => task[u].pc # "none"
  BY DEF StartNode, Parts, TasksTyped
<1> QED BY <1>1, <1>2, <1>4, <1>6, <1>7, PreparedStep

LEMMA LogStartedOrder ==
  ASSUME OrderIInv, NEW t \in Task, LogStarted(t) PROVE Causality' /\ Prepared'
<1> USE OrderParts
<1> DEFINE e == Ev("NodeStarted", t[1])
           g == frame[t]
<1>1. UNCHANGED <<edges, tokens, nodeStatus, frame>> /\ log' = Append(log, e)
  BY DEF LogStarted, topology, Persist
<1>2. e \in Event /\ e.type # "NodeReady" BY WorkerKinds DEF Ev, Event, EventType
<1>3. Events \subseteq Events' BY <1>1, <1>2, AppendKeeps
<1>4. g \in CausalFrame(Answered') BY <1>3, AnsweredKept, CausalFrameMonotone, CausalCall, WorkerKinds
<1>5. frame' = [frame EXCEPT ![t] = g] BY <1>1 DEF Typed
<1> HIDE DEF e, g
<1>6. Causality' BY <1>1, <1>2, <1>4, <1>5, LoggingStep, WorkerKinds
<1>7. \A u \in Task : task'[u].pc # "none" => task[u].pc # "none"
  BY DEF LogStarted, Parts, TasksTyped
<1> QED BY <1>1, <1>3, <1>6, <1>7, PreparedStep

\* A call that begins with the work w, on a node that is due.
LEMMA BeginOrder ==
  ASSUME OrderIInv, UNCHANGED <<edges, tokens, log>>, NEW w \in Worker,
         NEW g \in TypedFrame, frame' = [frame EXCEPT ![w] = g],
         g.todo = {}, g.hop = NoHop, g.roots = {}, NEW n \in Node, Due(n),
         g.pc = "ready" => g.target = n,
         \A m \in Node : Holds(g, m) => m = n,
         nodeStatus' = nodeStatus \/ \E s : SetNode(n, s, {}),
         \A t \in Task : task'[t].pc # "none" => task[t].pc # "none"
  PROVE  Causality' /\ Prepared'
<1> USE OrderParts
<1>1. NoHop \notin Hop BY GraphAssumption DEF NoHop, Hop, Fresh
<1>2. g \in CausalFrame(Answered) BY <1>1 DEF CausalFrame, Due
<1>3. Causality' BY <1>2, QuietStep
<1>4. Events' = Events BY DEF Events
<1>5. \A u \in Worker : \A m \in Node : Holds(frame'[u], m) => Holds(frame[u], m) \/ Due(m)
  BY DEF Typed
<1>6. \A m \in Node : nodeStatus'[m] # "pending" => nodeStatus[m] # "pending" \/ Due(m)
  BY DEF SetNode, Typed, TypeOK
<1> QED BY <1>3, <1>4, <1>5, <1>6, PreparedStep

LEMMA AnswerOrder ==
  ASSUME OrderIInv, NEW t \in Task, Succeed(t) \/ Fail(t) \/ Abort(t)
  PROVE  Causality' /\ Prepared'
<1> USE OrderParts
<1>1. UNCHANGED <<edges, tokens, log, nodeStatus>> /\ UNCHANGED taskUnchanged
  BY DEF Succeed, Fail, Abort, taskUnchanged, topology
<1>2. \A u \in Task : task'[u].pc # "none" => task[u].pc # "none"
  BY DEF Succeed, Fail, Abort, AttemptFails, ReportResult, NoTask, Parts, TasksTyped
<1>3. UNCHANGED frame \/ \E failed : ReportResult(t, failed)
  BY DEF Succeed, Fail, Abort, AttemptFails
<1>4. CASE UNCHANGED frame
  BY <1>1, <1>2, <1>4, StillOrder DEF taskUnchanged, lattice, topology
<1>5. ASSUME NEW failed, ReportResult(t, failed) PROVE Causality' /\ Prepared'
  <2> DEFINE item == [node |-> t[1], out |-> {Fresh(1, IF failed THEN "error" ELSE "ok")},
                      failed |-> failed]
             g == [IdleFrame EXCEPT !.pc = "pop", !.op = "advance", !.queue = <<item>>]
  <2>1. Due(t[1]) /\ t \in Worker /\ t[1] \in Node
    BY WorkerKinds DEF Prepared, Succeed, Fail, Abort
  <2>2. frame' = [frame EXCEPT ![t] = g] BY <1>5 DEF ReportResult, Advance
  <2>3. g.pc = "pop" /\ g.roots = {} /\ g.queue = <<item>> /\ g.todo = {} /\ g.hop = NoHop
    BY DEF IdleFrame
  <2>4. \A m : Holds(g, m) => m = t[1]
    <3> HIDE DEF g
    <3> QED BY <2>3 DEF Holds
  <2>5. g \in TypedFrame
    <3>1. Typed' BY TypeParts, AnswerKeeps DEF Parts
    <3>2. frame'[t] = g BY <2>1, <2>2, FrameIs
    <3> QED BY <2>1, <3>1, <3>2 DEF Typed
  <2> HIDE DEF g, item
  <2> QED BY <1>1, <1>2, <2>1, <2>2, <2>3, <2>4, <2>5, BeginOrder
<1> QED BY <1>3, <1>4, <1>5

LEMMA DispatchOrder ==
  ASSUME OrderIInv, Dispatch PROVE Causality' /\ Prepared'
<1> USE OrderParts
<1>1. PICK i \in DOMAIN log :
         /\ Consume(Runner, i)
         /\ IF Ends(log[i]) THEN Finished ELSE Spawn(log[i].node)
  BY DEF Dispatch
<1>2. UNCHANGED lattice BY <1>1 DEF Consume
<1>3. CASE Finished
  BY <1>2, <1>3, ReceiversChange, StillOrder DEF Finished, Parts
<1>4. CASE ~ Ends(log[i]) /\ Spawn(log[i].node)
  <2>1. ToDispatch(log[i]) BY <1>1, <1>4 DEF Consume, Relevant
  <2>2. Due(log[i].node) BY <2>1, AnnouncedIsDue DEF ToDispatch, Parts, ReadyNamesNode
  <2>3. PICK k \in Copy : task' = [task EXCEPT ![<<log[i].node, k>>] =
                                       [pc |-> "spawned", attempt |-> 0, rx |-> token]]
    BY <1>4 DEF Spawn, FreeCopy
  <2>4. \A t \in Task : task'[t].pc # "none" => task[t].pc # "none" \/ Due(t[1])
    BY <2>2, <2>3 DEF Parts, TasksTyped
  <2> QED BY <1>2, <2>4, StillOrder
<1> QED BY <1>1, <1>3, <1>4

LEMMA StartGraphOrder ==
  ASSUME OrderIInv, StartGraph PROVE Causality' /\ Prepared'
<1> USE OrderParts
<1> DEFINE g == [IdleFrame EXCEPT !.pc = "roots", !.op = "start"]
<1>1. Start(Runner) /\ task' = task /\ Runner \in Worker
  BY WorkerKinds DEF StartGraph, orcha
<1>2. Causality' BY <1>1, StartCausal
<1>3. frame' = [frame EXCEPT ![Runner] = g] /\ UNCHANGED <<nodeStatus, log>>
  BY <1>1 DEF Start
<1>4. g.pc = "roots" /\ g.queue = <<>> BY DEF IdleFrame
<1> HIDE DEF g
<1>5. \A n : ~ Holds(g, n) BY <1>4 DEF Holds
<1>6. \A u \in Worker : \A n \in Node : Holds(frame'[u], n) => Holds(frame[u], n)
  BY <1>3, <1>5 DEF Typed
<1>7. Events' = Events BY <1>3 DEF Events
<1> QED BY <1>1, <1>2, <1>3, <1>6, <1>7, PreparedStep

LEMMA RestartOrder ==
  ASSUME OrderIInv, Restart PROVE Causality' /\ Prepared'
<1> USE OrderParts
<1>1. UNCHANGED <<edges, tokens, log, nodeStatus>> BY DEF Restart, topology
<1>2. Events' = Events /\ Answered' = Answered BY <1>1 DEF Events, Answered
<1>3. DependencyOrder' BY <1>1 DEF Causality, DependencyOrder, Preds, Inbound
<1>4. frame' = [w \in Worker |-> IdleFrame] BY DEF Restart
<1>5. frame' \in [Worker -> CausalFrame(Answered)] BY <1>4, IdleIsCausal
<1>6. Causality' BY <1>1, <1>2, <1>3, <1>5 DEF Causality
<1>7. \A n : ~ Holds(IdleFrame, n) BY DEF Holds, IdleFrame
<1>8. \A t \in Task : task'[t].pc = "none" BY DEF Restart, NoTask
<1> QED BY <1>1, <1>2, <1>4, <1>6, <1>7, <1>8, PreparedStep

\* Recovery announces a node that is ready or was running, hence due.
LEMMA ReemissionOrder ==
  ASSUME OrderIInv, ResetRunning \/ ReemitReady PROVE Causality' /\ Prepared'
<1> USE OrderParts
<1>1. PICK n \in left : /\ EmitReady(n)
                        /\ SetNode(n, "ready", {}) \/ UNCHANGED nodeStatus
  BY DEF ResetRunning, ReemitReady
<1>2. UNCHANGED <<edges, tokens, log, task>> BY DEF ResetRunning, ReemitReady, topology
<1> DEFINE g == [IdleFrame EXCEPT !.pc = "ready", !.op = "node", !.target = n]
<1>3. n \in Node /\ Runner \in Worker BY WorkerKinds DEF Parts, SetsTyped
<1>4. Due(n) BY <1>3 DEF Settling, NeverPendingAgain, Prepared
<1>5. frame' = [frame EXCEPT ![Runner] = g] BY <1>1 DEF EmitReady
<1>6. /\ g.pc = "ready" /\ g.target = n /\ g.roots = {} /\ g.queue = <<>>
      /\ g.todo = {} /\ g.hop = NoHop
  BY DEF IdleFrame
<1>7. g \in TypedFrame BY <1>3, IdleFrameType, ZenonT(40) DEF TypedFrame, Frame, Pc, Op
<1> HIDE DEF g
<1>8. \A m : ~ Holds(g, m) BY <1>6 DEF Holds
<1>9. nodeStatus' = nodeStatus \/ \E s : SetNode(n, s, {}) BY <1>1
<1> QED BY <1>2, <1>3, <1>4, <1>5, <1>6, <1>7, <1>8, <1>9, BeginOrder

LEMMA NextOrder == OrderIInv /\ [OrchaNext]_runnerVars => OrderIInv'
<1> SUFFICES ASSUME OrderIInv, [OrchaNext]_runnerVars PROVE Causality' /\ Prepared'
  BY NextSettles DEF OrderIInv
<1> USE OrderParts
<1>1. CASE UNCHANGED runnerVars BY <1>1, StillOrder DEF runnerVars, orcha
<1>2. CASE \E w \in Worker : Engine(w) BY <1>2, EngineOrder
<1>3. CASE \E t \in Task : Run(t) \/ Result(t)
  BY <1>3, StartNodeOrder, LogStartedOrder, AnswerOrder DEF Run, Result
<1>4. CASE Read(Runner) \/ FindReady
  BY <1>4, StillOrder DEF Read, Open, Fetch, Wait, FindReady, orcha
<1>5. CASE Launch \/ Reattach \/ CancelGraph
  BY <1>5, ReceiversChange, StillOrder DEF Launch, Reattach, Attach, CancelGraph, Parts
<1>6. CASE Dispatch \/ StartGraph \/ Restart \/ ResetRunning \/ ReemitReady
  BY <1>6, DispatchOrder, StartGraphOrder, RestartOrder, ReemissionOrder
<1> QED BY <1>1, <1>2, <1>3, <1>4, <1>5, <1>6 DEF OrchaNext, Recover

LEMMA InitOrder == OrchaInit => OrderIInv
<1> SUFFICES ASSUME OrchaInit PROVE Causality /\ Prepared
  BY OrchaInitIInv, InitSettles DEF OrderIInv, RecoveryIInv
<1>1. Causality BY InitCausal DEF OrchaInit
<1>2. \A w \in Worker : frame[w] = IdleFrame BY DEF OrchaInit, Init
<1>3. \A n : ~ Holds(IdleFrame, n) BY DEF Holds, IdleFrame
<1>4. \A t \in Task : task[t].pc = "none" BY DEF OrchaInit, NoTask
<1>5. \A n \in Node : nodeStatus[n] = "pending" BY DEF OrchaInit, Init
<1> QED BY <1>1, <1>2, <1>3, <1>4, <1>5 DEF Prepared

LEMMA OrderAlways == OrchaSpec => []OrderIInv
  BY InitOrder, NextOrder, PTL DEF OrchaSpec

\* run_graph_execution, advance_graph and recover_running_graphs: for every graph, any
\* number of tasks at once and any number of restarts, also in the middle of a call, a
\* NodeReady is logged, and hence a task spawned, only when every predecessor has answered.
THEOREM DispatchRespectsDependencies == OrchaSpec => []DependencyOrder
<1>1. OrderIInv => DependencyOrder BY DEF OrderIInv, Causality
<1> QED BY <1>1, OrderAlways, PTL

-----------------------------------------------------------------------------
(***************************************************************************)
(* The promise of Dataflow holds for the clients of the dispatcher as      *)
(* well, and across restarts between two calls.  (A call that is cut off   *)
(* after it has marked a node settles that node and forgets that it has.)  *)
(***************************************************************************)
\* A task that has not answered makes no call, and its node is released.
Busy == \A t \in Task : task[t].pc # "none" => At(t, "idle") /\ t[1] \in Released

\* The nodes that NodeReady names and those that recovery inspects are in the graph.
LoggedInGraph == \A n \in Node : Ev("NodeReady", n) \in Events => n \in InitNode

Vowed == Pledge /\ left \subseteq InitNode /\ LoggedInGraph /\ Busy
VowIInv == OrderIInv /\ Vowed

LEMMA VowParts ==
  ASSUME VowIInv
  PROVE  OrderIInv /\ Parts /\ Typed /\ Causality /\ Prepared /\ OrchaIInv /\ Settling /\ Pledge
         /\ Busy /\ left \subseteq InitNode /\ LoggedInGraph
  BY OrderParts DEF VowIInv, Vowed

LEMMA ReleasedGrows ==
  ASSUME Typed, nodes' = nodes, StatusMoves PROVE Released \subseteq Released'
  BY DEF Released, StatusMoves, IsTerminal, Typed, TypeOK

LEMMA BusyKept ==
  ASSUME Busy, Released \subseteq Released',
         \A t \in Task : task'[t].pc # "none" =>
             \/ task[t].pc # "none" /\ frame'[t].pc = frame[t].pc
             \/ frame'[t].pc = "idle" /\ t[1] \in Released
  PROVE  Busy'
  BY DEF Busy, At

LEMMA LoggedSame == ASSUME LoggedInGraph, UNCHANGED log PROVE LoggedInGraph'
  BY DEF LoggedInGraph, Events, Ev

LEMMA StepLogged ==
  ASSUME Typed, Pledge, LoggedInGraph, NEW w \in Worker, Step(w) PROVE LoggedInGraph'
<1>1. CASE UNCHANGED log BY <1>1, LoggedSame
<1>2. ASSUME NEW e, Persist(e), \A n \in Node : e = Ev("NodeReady", n) => n \in InitNode
      PROVE  LoggedInGraph'
  BY <1>2, AppendAddsEvent DEF Persist, LoggedInGraph, Ev
<1>3. CASE LogNode(w) \/ LogGraphFailed(w) \/ LogGraphDone(w)
  <2>1. \A t, m, n : t # "NodeReady" => Ev(t, m) # Ev("NodeReady", n) BY DEF Ev
  <2>2. \E t, m : t # "NodeReady" /\ Persist(Ev(t, m))
    BY <1>3 DEF LogNode, LogGraphFailed, LogGraphDone
  <2> QED BY <1>2, <2>1, <2>2
<1>4. CASE LogReady(w)
  <2>1. frame[w].target \in InitNode BY <1>4, KnownCall DEF LogReady, At, KnownFrame
  <2>2. \A n : Ev("NodeReady", frame[w].target) = Ev("NodeReady", n) => n = frame[w].target
    BY DEF Ev
  <2> QED BY <1>2, <1>4, <2>1, <2>2 DEF LogReady
<1> QED
  BY <1>1, <1>3, <1>4
  DEF Step, ReadRoots, Seed, Seeded, Pop, Mark, Route, Deliver, Routed, FailGraph,
      Finish, CompleteGraph, Check, NotEnabled, EnableTask, EnableGather

LEMMA EngineVow ==
  ASSUME VowIInv, NEW w \in Worker, Engine(w) PROVE Vowed' /\ Promised
<1> USE VowParts
<1>1. Step(w) /\ UNCHANGED orcha BY DEF Engine
<1>2. Pledge' /\ Promised BY <1>1, StepPledge
<1>3. Released \subseteq Released' BY <1>1, StepTopology, StepMoves, ReleasedGrows
<1>4. ~ At(w, "idle") /\ \A u \in Worker \ {w} : frame'[u] = frame[u] BY <1>1, StepIsLocal
<1>5. Busy' BY <1>1, <1>3, <1>4, BusyKept, WorkerKinds DEF Busy, At, orcha
<1>6. LoggedInGraph' BY <1>1, StepLogged
<1> QED BY <1>1, <1>2, <1>5, <1>6 DEF Vowed, orcha

LEMMA StillVow ==
  ASSUME VowIInv, UNCHANGED lattice, left' \subseteq InitNode,
         \A t \in Task : task'[t].pc # "none" =>
             task[t].pc # "none" \/ (At(t, "idle") /\ t[1] \in Released)
  PROVE  Vowed' /\ Promised
<1> USE VowParts
<1>1. Pledge' /\ Unmoved BY StillPledge DEF lattice, topology
<1>2. frame' = frame /\ Released' = Released BY <1>1 DEF lattice, Unmoved
<1>3. Busy' BY <1>2, BusyKept DEF At
<1>4. LoggedInGraph' BY LoggedSame DEF lattice
<1> QED BY <1>1, <1>3, <1>4 DEF Vowed, Promised

LEMMA StartNodeVow ==
  ASSUME VowIInv, NEW t \in Task, StartNode(t) PROVE Vowed' /\ Promised
<1> USE VowParts
<1> DEFINE g == frame[t]
<1>1. /\ UNCHANGED <<nodes, log, left>> /\ frame' = frame
      /\ SetNode(t[1], "running", {}) /\ task[t].pc # "none"
  BY DEF StartNode, topology
<1>2. t[1] \in Released /\ At(t, "idle") /\ Due(t[1]) /\ t \in Worker
  BY <1>1, WorkerKinds DEF Busy, Prepared
<1>3. t[1] \in InitNode /\ Released \cup {t[1]} = Released BY <1>2, InGraph
<1>4. g \in KnownFrame(Released \cup {t[1]}, Settled, NodeFailed) BY <1>2, <1>3, KnownCall
<1>5. frame' = [frame EXCEPT ![t] = g] BY <1>1, <1>2 DEF Typed
<1>6. g.pc # "log" BY <1>2 DEF At
<1> HIDE DEF g
<1>7. Pledge' /\ Promised
  BY <1>1, <1>2, <1>3, <1>4, <1>5, <1>6, ReleaseStep DEF Due, g
<1>8. StatusMoves BY <1>1, SetNodeMoves
<1>9. \A u \in Task : task'[u].pc # "none" => task[u].pc # "none"
  BY DEF StartNode, Parts, TasksTyped
<1>10. Busy' BY <1>1, <1>8, <1>9, ReleasedGrows, BusyKept
<1>11. LoggedInGraph' BY <1>1, LoggedSame
<1> QED BY <1>1, <1>7, <1>10, <1>11 DEF Vowed

LEMMA LogStartedVow ==
  ASSUME VowIInv, NEW t \in Task, LogStarted(t) PROVE Vowed' /\ Promised
<1> USE VowParts
<1> DEFINE g == frame[t]
           e == Ev("NodeStarted", t[1])
<1>1. /\ UNCHANGED <<nodes, nodeStatus, left>> /\ frame' = frame
      /\ log' = Append(log, e) /\ task[t].pc # "none"
  BY DEF LogStarted, topology, Persist
<1>2. At(t, "idle") /\ t \in Worker BY <1>1, WorkerKinds DEF Busy
<1>3. e \in Event /\ e.type = "NodeStarted" BY WorkerKinds DEF Ev, Event, EventType
<1>4. g \in KnownFrame(Released, Settled, NodeFailed) /\ g.pc # "log"
  BY <1>2, KnownCall DEF At
<1>5. frame' = [frame EXCEPT ![t] = g] BY <1>1, <1>2 DEF Typed
<1> HIDE DEF g, e
<1>6. /\ Pledge' /\ Released' = Released
      /\ Settled' = Settled /\ FailedOnce' = FailedOnce
      /\ Outcome' = Outcome \cup (CASE e.type = "GraphDone" -> {"done"}
                                    [] e.type = "GraphFailed" -> {"failed"}
                                    [] OTHER -> {})
  BY <1>1, <1>2, <1>3, <1>4, <1>5, LogStep DEF g
<1>7. Outcome' = Outcome BY <1>3, <1>6
<1>8. \A u \in Task : task'[u].pc # "none" => task[u].pc # "none"
  BY DEF LogStarted, Parts, TasksTyped
<1>9. Busy' BY <1>1, <1>6, <1>8, BusyKept
<1>10. LoggedInGraph'
  <2>1. Events' = Events \cup {e} BY <1>1, AppendAddsEvent
  <2> QED BY <1>3, <2>1 DEF LoggedInGraph, Ev
<1> QED BY <1>1, <1>6, <1>7, <1>9, <1>10 DEF Vowed, Unmoved, Promised

LEMMA AnswerVow ==
  ASSUME VowIInv, NEW t \in Task, Succeed(t) \/ Fail(t) \/ Abort(t)
  PROVE  Vowed' /\ Promised
<1> USE VowParts
<1>1. UNCHANGED taskUnchanged /\ UNCHANGED <<nodes, nodeStatus, log, left>> /\ task[t].pc # "none"
  BY DEF Succeed, Fail, Abort, taskUnchanged, topology
<1>2. At(t, "idle") /\ t[1] \in Released /\ t \in Worker BY <1>1, WorkerKinds DEF Busy
<1>3. CASE UNCHANGED frame
  <2>1. \A u \in Task : task'[u].pc # "none" => task[u].pc # "none"
    BY DEF Succeed, Fail, Abort, AttemptFails, ReportResult, NoTask, Parts, TasksTyped
  <2> QED BY <1>1, <1>3, <2>1, StillVow DEF taskUnchanged, lattice, topology
<1>4. ASSUME NEW failed, ReportResult(t, failed) PROVE Vowed' /\ Promised
  <2> DEFINE item == [node |-> t[1], out |-> {Fresh(1, IF failed THEN "error" ELSE "ok")},
                      failed |-> failed]
             g == [IdleFrame EXCEPT !.pc = "pop", !.op = "advance", !.queue = <<item>>]
  <2>1. frame' = [frame EXCEPT ![t] = g] BY <1>4 DEF ReportResult, Advance
  <2>2. g.pc = "pop" /\ g.roots = {} /\ g.queue = <<item>> /\ g.todo = {} /\ g.hop = NoHop
    BY DEF IdleFrame
  <2>3. g \in TypedFrame
    <3>1. Typed' BY TypeParts, AnswerKeeps DEF Parts
    <3>2. frame'[t] = g BY <1>2, <2>1, FrameIs
    <3> QED BY <1>2, <3>1, <3>2 DEF Typed
  <2>4. \A i \in DOMAIN g.queue : g.queue[i].node = t[1] BY <2>2
  <2> HIDE DEF g, item
  <2>5. g \in KnownFrame(Released, Settled, NodeFailed)
    BY <1>2, <2>2, <2>3, <2>4 DEF KnownFrame, Behind
  <2>6. Pledge' /\ Unmoved
    BY <1>1, <1>2, <2>1, <2>2, <2>5, QuietPledge DEF At
  <2>7. task' = [task EXCEPT ![t] = NoTask] BY <1>4 DEF ReportResult
  <2>8. \A u \in Task : task'[u].pc # "none" => u # t /\ task[u].pc # "none"
    BY <2>7 DEF NoTask, Parts, TasksTyped
  <2>9. \A u \in Task : u # t => frame'[u] = frame[u] BY <2>1, WorkerKinds DEF Typed
  <2>10. Busy' BY <2>6, <2>8, <2>9, BusyKept DEF Unmoved
  <2>11. LoggedInGraph' BY <1>1, LoggedSame
  <2> QED BY <1>1, <2>6, <2>10, <2>11 DEF Vowed, Promised
<1>5. UNCHANGED frame \/ \E failed : ReportResult(t, failed)
  BY DEF Succeed, Fail, Abort, AttemptFails
<1> QED BY <1>3, <1>4, <1>5

LEMMA DispatchVow == ASSUME VowIInv, Dispatch PROVE Vowed' /\ Promised
<1> USE VowParts
<1>1. PICK i \in DOMAIN log :
         /\ Consume(Runner, i)
         /\ IF Ends(log[i]) THEN Finished ELSE Spawn(log[i].node)
  BY DEF Dispatch
<1>2. UNCHANGED lattice BY <1>1 DEF Consume
<1>3. CASE Finished
  BY <1>2, <1>3, ReceiversChange, StillVow DEF Finished, Parts
<1>4. CASE ~ Ends(log[i]) /\ Spawn(log[i].node)
  <2>1. ToDispatch(log[i]) BY <1>1, <1>4 DEF Consume, Relevant
  <2> DEFINE n == log[i].node
  <2>2. n \in Released
    <3>1. log[i] \in Event BY DEF Typed, TypeOK
    <3>2. log[i] = Ev("NodeReady", n) /\ n \in Node
      BY <2>1, <3>1 DEF ToDispatch, Event, Ev, Parts, ReadyNamesNode
    <3>3. Ev("NodeReady", n) \in Events BY <3>2 DEF Events
    <3> QED BY <3>2, <3>3 DEF Pledge, LoggedInGraph
  <2>3. PICK k \in FreeCopy(n) : task' = [task EXCEPT ![<<n, k>>] =
                                       [pc |-> "spawned", attempt |-> 0, rx |-> token]]
    BY <1>4 DEF Spawn
  <2>4. At(<<n, k>>, "idle") BY <2>3 DEF FreeCopy, Live
  <2>5. \A t \in Task : task'[t].pc # "none" =>
            task[t].pc # "none" \/ (At(t, "idle") /\ t[1] \in Released)
    BY <2>2, <2>3, <2>4 DEF Parts, TasksTyped
  <2>6. left' = left BY <1>4 DEF Spawn
  <2> QED BY <1>2, <2>5, <2>6, StillVow
<1> QED BY <1>1, <1>3, <1>4

LEMMA StartGraphVow == ASSUME VowIInv, StartGraph PROVE Vowed' /\ Promised
<1> USE VowParts
<1> DEFINE g == [IdleFrame EXCEPT !.pc = "roots", !.op = "start"]
<1>1. Start(Runner) /\ UNCHANGED orcha /\ Runner \in Worker BY WorkerKinds DEF StartGraph
<1>2. Pledge' /\ Unmoved BY <1>1, StartPledge
<1>3. frame' = [frame EXCEPT ![Runner] = g] /\ UNCHANGED log BY <1>1 DEF Start
<1> HIDE DEF g
<1>4. \A t \in Task : frame'[t] = frame[t] BY <1>3, WorkerKinds DEF Typed
<1>5. Busy' BY <1>1, <1>2, <1>4, BusyKept DEF Unmoved, orcha
<1> QED BY <1>1, <1>2, <1>3, <1>5, LoggedSame DEF Vowed, Promised, orcha

\* A restart between two calls finds no call that has marked a node and not logged it.
LEMMA RestartVow == ASSUME VowIInv, ~ RestartInCall, Restart PROVE Vowed' /\ Promised
<1> USE VowParts
<1>1. UNCHANGED <<nodes, log, nodeStatus>> /\ frame' = [w \in Worker |-> IdleFrame]
  BY DEF Restart, topology
<1>2. \A w \in Worker : frame[w].pc # "log" /\ frame'[w].pc # "log"
  <2>1. \A w \in Worker : frame[w] \in TypedFrame /\ Cuttable(w) BY CallFrame DEF Restart
  <2> QED BY <1>1, <2>1 DEF Cuttable, At, TypedFrame, IdleFrame
<1>3. Events' = Events BY <1>1 DEF Events
<1>4. Released' = Released /\ NodeFailed' = NodeFailed
  BY <1>1, <1>3 DEF Released, NodeFailed
<1>5. Settled' = Settled /\ FailedOnce' = FailedOnce
  BY <1>1, <1>2, <1>3 DEF Settled, FailedOnce, InLog, At
<1>6. Outcome' = Outcome BY <1>3 DEF Outcome
<1>7. frame' \in [Worker -> KnownFrame(Released, Settled, NodeFailed)] BY <1>1, IdleKnows
<1>8. Pledge' BY <1>1, <1>3, <1>4, <1>5, <1>7 DEF Pledge
<1>9. Busy' BY DEF Restart, NoTask, Busy
<1>10. left' \subseteq InitNode BY DEF Restart, Pledge
<1> QED BY <1>1, <1>4, <1>5, <1>6, <1>8, <1>9, <1>10, LoggedSame DEF Vowed, Unmoved, Promised

LEMMA ReemissionVow ==
  ASSUME VowIInv, ResetRunning \/ ReemitReady PROVE Vowed' /\ Promised
<1> USE VowParts
<1>1. PICK n \in left : /\ EmitReady(n) /\ left' = left \ {n}
                        /\ SetNode(n, "ready", {}) \/ UNCHANGED nodeStatus
  BY DEF ResetRunning, ReemitReady
<1>2. UNCHANGED <<nodes, log, task>> /\ At(Runner, "idle")
  BY DEF ResetRunning, ReemitReady, topology
<1> DEFINE g == [IdleFrame EXCEPT !.pc = "ready", !.op = "node", !.target = n]
<1>3. n \in InitNode /\ n \in Node /\ Runner \in Worker BY WorkerKinds, GraphAssumption
<1>4. nodeStatus[n] # "pending" /\ Due(n)
  BY <1>3 DEF Settling, NeverPendingAgain, Prepared
<1>5. n \in Released /\ Released \cup {n} = Released BY <1>3, <1>4 DEF Released, Pledge
<1>6. frame' = [frame EXCEPT ![Runner] = g] BY <1>1 DEF EmitReady
<1>7. /\ g.pc = "ready" /\ g.target = n /\ g.roots = {} /\ g.queue = <<>>
      /\ g.todo = {} /\ g.hop = NoHop /\ g.op = "node"
  BY DEF IdleFrame
<1>8. g \in TypedFrame BY <1>3, IdleFrameType, ZenonT(40) DEF TypedFrame, Frame, Pc, Op
<1> HIDE DEF g
<1>9. g \in KnownFrame(Released, Settled, NodeFailed)
  BY <1>3, <1>5, <1>7, <1>8 DEF KnownFrame, Behind
<1>10. frame[Runner].pc # "log" /\ g.pc # "log" BY <1>2, <1>7 DEF At
<1>11. Pledge' /\ Promised
  <2>1. CASE UNCHANGED nodeStatus
    BY <1>2, <1>3, <1>6, <1>9, <1>10, <2>1, QuietPledge DEF Promised
  <2>2. CASE SetNode(n, "ready", {})
    <3>1. g \in KnownFrame(Released \cup {n}, Settled, NodeFailed) BY <1>5, <1>9
    <3> QED BY <1>2, <1>3, <1>4, <1>6, <1>10, <2>2, <3>1, ReleaseStep DEF Due
  <2> QED BY <1>1, <2>1, <2>2
<1>12. StatusMoves BY <1>1, SetNodeMoves DEF StatusMoves
<1>13. \A t \in Task : frame'[t] = frame[t] BY <1>6, WorkerKinds DEF Typed
<1>14. Busy' BY <1>2, <1>12, <1>13, ReleasedGrows, BusyKept
<1> QED BY <1>1, <1>2, <1>11, <1>14, LoggedSame DEF Vowed

LEMMA NextVow ==
  ~ RestartInCall /\ VowIInv /\ [OrchaNext]_runnerVars
    => VowIInv' /\ [Promise!Next]_(Promise!vars)
<1> SUFFICES ASSUME ~ RestartInCall, VowIInv, [OrchaNext]_runnerVars
             PROVE  VowIInv' /\ [Promise!Next]_(Promise!vars)
  OBVIOUS
<1> USE VowParts
<1>1. Vowed' /\ Promised
  <2>1. CASE UNCHANGED runnerVars BY <2>1, StillVow DEF runnerVars, orcha
  <2>2. CASE \E w \in Worker : Engine(w) BY <2>2, EngineVow
  <2>3. CASE \E t \in Task : Run(t) \/ Result(t)
    BY <2>3, StartNodeVow, LogStartedVow, AnswerVow DEF Run, Result
  <2>4. CASE Read(Runner) \/ FindReady
    <3>1. left' = left \/ left' \subseteq nodes
      BY <2>4 DEF Read, Open, Fetch, Wait, FindReady, orcha
    <3> QED BY <2>4, <3>1, StillVow DEF Read, Open, Fetch, Wait, FindReady, orcha, Pledge
  <2>5. CASE Launch \/ Reattach \/ CancelGraph
    BY <2>5, ReceiversChange, StillVow DEF Launch, Reattach, Attach, CancelGraph, Parts
  <2>6. CASE Dispatch \/ StartGraph \/ Restart \/ ResetRunning \/ ReemitReady
    BY <2>6, DispatchVow, StartGraphVow, RestartVow, ReemissionVow
  <2> QED BY <2>1, <2>2, <2>3, <2>4, <2>5, <2>6 DEF OrchaNext, Recover
<1>2. Unmoved => UNCHANGED Promise!vars BY DEF Unmoved, Promise!vars, Released
<1> QED BY <1>1, <1>2, NextOrder DEF Promised, VowIInv

LEMMA InitVow == OrchaInit => VowIInv /\ Promise!Init
<1> SUFFICES ASSUME OrchaInit PROVE Vowed /\ Promise!Init BY InitOrder DEF VowIInv
<1>1. Pledge /\ Promise!Init BY InitPledge DEF OrchaInit
<1>2. left = {} /\ log = <<>> /\ \A t \in Task : task[t].pc = "none"
  BY DEF OrchaInit, Init, NoTask
<1> QED BY <1>1, <1>2 DEF Vowed, LoggedInGraph, Busy, Events

\* The dispatcher, its tasks, the engine and the recovery after a restart together keep
\* the promise of Dataflow: a node is released once its predecessors have settled, only
\* released nodes settle, and an outcome is reported only when it is true.
THEOREM DispatchKeepsPromise ==
  ASSUME ~ RestartInCall PROVE OrchaSpec => KeepsPromise
<1>1. OrchaInit => VowIInv /\ Promise!Init BY InitVow
<1>2. VowIInv /\ [OrchaNext]_runnerVars => VowIInv' /\ [Promise!Next]_(Promise!vars)
  BY NextVow
<1> QED BY <1>1, <1>2, PTL DEF OrchaSpec, KeepsPromise, Promise!Spec
=============================================================================
