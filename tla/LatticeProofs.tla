---------------------------- MODULE LatticeProofs ----------------------------
(***************************************************************************)
(* Theorems about Lattice, for every graph and any number of calls in      *)
(* progress.                                                               *)
(***************************************************************************)
EXTENDS Lattice, FiniteSetTheorems, TLAPS

(***************************************************************************)
(* The types of the operators that actions are built from.                 *)
(***************************************************************************)
LEMMA FrameFields ==
  ASSUME NEW f \in TypedFrame
  PROVE  /\ f \in Frame
         /\ f.queue \in Seq(Item) /\ f.node \in Node \cup {NoNode}
         /\ f.out \in SUBSET Token /\ f.failed \in BOOLEAN
         /\ f.todo \in SUBSET Hop /\ f.hop \in Hop \cup {NoHop}
         /\ f.seq \in Nat /\ f.target \in Node \cup {NoNode}
         /\ f.roots \in SUBSET Node
  BY DEF TypedFrame, Frame

LEMMA CallFrame ==
  ASSUME Typed, NEW w \in Worker
  PROVE  frame[w] \in TypedFrame
  BY DEF Typed

LEMMA IdleFrameType == IdleFrame \in TypedFrame
  BY DEF IdleFrame, TypedFrame, Frame, Pc, Op

\* A pc that asks nothing of the rest of the frame may follow any other.
LEMMA PcType ==
  ASSUME NEW f \in TypedFrame,
         NEW p \in {"done", "doneevent", "failgraph", "failevent"}
  PROVE  [f EXCEPT !.pc = p] \in TypedFrame
<1>1. [f EXCEPT !.pc = p] \in Frame BY DEF TypedFrame, Frame, Pc
<1> QED BY <1>1 DEF TypedFrame, Frame

LEMMA ResumeType == ASSUME NEW f \in TypedFrame PROVE Resume(f) \in TypedFrame
<1>1. CASE f.op = "advance" BY <1>1 DEF Resume, TypedFrame, Frame, Pc
<1>2. CASE f.op = "start" BY <1>2 DEF Resume, TypedFrame, Frame, Pc
<1>3. CASE f.op \notin {"advance", "start"} BY <1>3, IdleFrameType DEF Resume
<1> QED BY <1>1, <1>2, <1>3

LEMMA FreshType ==
  ASSUME NEW i \in Nat \ {0}, NEW c \in Color PROVE Fresh(i, c) \in Token
  BY DEF Fresh, Token

LEMMA InputsType ==
  ASSUME TypeOK, NEW n \in Node PROVE Inputs(n) \subseteq Token
  BY DEF TypeOK, Inputs, Token, Row

LEMMA GatherOutputsType ==
  ASSUME TypeOK, NEW n \in Node, NEW out \in GatherOutputs(n)
  PROVE  out \subseteq Token
<1>1. CASE n \in GatherAll BY <1>1, InputsType DEF GatherOutputs
<1>2. CASE n \notin GatherAll BY <1>2, InputsType DEF GatherOutputs
<1> QED BY <1>1, <1>2

LEMMA EnqueueType ==
  ASSUME NEW f \in TypedFrame, NEW n \in Node, NEW out \in SUBSET Token
  PROVE  Enqueue(f, n, out) \in TypedFrame
<1> DEFINE r == Resume(f)
           q == Append(r.queue, [node |-> n, out |-> out, failed |-> FALSE])
<1>1. r \in TypedFrame BY ResumeType
<1>2. [node |-> n, out |-> out, failed |-> FALSE] \in Item BY DEF Item
<1>3. q \in Seq(Item) BY <1>1, <1>2, FrameFields
<1>4. [r EXCEPT !.queue = q] \in TypedFrame
  <2> HIDE DEF r, q
  <2>1. [r EXCEPT !.queue = q] \in Frame BY <1>1, <1>3 DEF TypedFrame, Frame
  <2> QED BY <1>1, <2>1 DEF TypedFrame, Frame
<1> QED BY <1>1, <1>4 DEF Enqueue

LEMMA SetNodeType ==
  ASSUME TypeOK, NEW n \in Node, NEW s \in Status, NEW o \in SUBSET Token,
         SetNode(n, s, o)
  PROVE  /\ nodeStatus' \in [Node -> Status]
         /\ output' \in [Node -> SUBSET Token]
  BY DEF TypeOK, SetNode

LEMMA PersistType ==
  ASSUME TypeOK, NEW t \in EventType, NEW n \in Node \cup {NoNode},
         Persist(Ev(t, n))
  PROVE  log' \in Seq(Event)
<1>1. Ev(t, n) \in Event BY DEF Ev, Event
<1> QED BY <1>1 DEF TypeOK, Persist

LEMMA CountType ==
  ASSUME Typed, NEW e PROVE CountOn(e) \in Nat
<1>1. IsFiniteSet({r \in tokens : r.edge = e}) BY FS_Subset DEF Typed
<1> QED BY <1>1, FS_CardinalityType DEF CountOn

LEMMA NextSeqType ==
  ASSUME Typed, NEW e \in Edge
  PROVE  NextSeq(e) \in Nat /\ NextSeq(e) > 0
<1>1. CountOn(e) \in Nat BY CountType
<1> QED BY <1>1 DEF NextSeq

\* A new row of an edge is counted, and takes a position that was free.
LEMMA NewRow ==
  ASSUME Typed, NEW r \in Row, r \notin tokens, tokens' = tokens \cup {r}
  PROVE  /\ CountOn(r.edge)' = CountOn(r.edge) + 1
         /\ \A e : e # r.edge => CountOn(e)' = CountOn(e)
<1> DEFINE S == {q \in tokens : q.edge = r.edge}
<1>1. IsFiniteSet(S) /\ r \notin S BY FS_Subset DEF Typed
<1>2. {q \in tokens' : q.edge = r.edge} = S \cup {r} OBVIOUS
<1>3. Cardinality(S \cup {r}) = Cardinality(S) + 1 BY <1>1, FS_AddElement
<1>4. CountOn(r.edge)' = CountOn(r.edge) + 1 BY <1>2, <1>3 DEF CountOn
<1>5. \A e : e # r.edge => {q \in tokens' : q.edge = e} = {q \in tokens : q.edge = e}
  OBVIOUS
<1> QED BY <1>4, <1>5 DEF CountOn

\* What an action shows of the call it belongs to.
LEMMA FrameUpdate ==
  ASSUME Typed, NEW w \in Worker, NEW g \in TypedFrame,
         frame' = [frame EXCEPT ![w] = g]
  PROVE  frame' \in [Worker -> TypedFrame]
  BY DEF Typed

LEMMA FramesAreFrames ==
  ASSUME frame' \in [Worker -> TypedFrame] PROVE frame' \in [Worker -> Frame]
  BY DEF TypedFrame

LEMMA GotoType ==
  ASSUME Typed, NEW w \in Worker,
         NEW p \in {"done", "doneevent", "failgraph", "failevent"},
         Goto(w, p)
  PROVE  frame' \in [Worker -> TypedFrame]
<1>1. [frame[w] EXCEPT !.pc = p] \in TypedFrame BY CallFrame, PcType
<1>2. frame' = [frame EXCEPT ![w] = [frame[w] EXCEPT !.pc = p]] BY DEF Goto
<1> QED BY <1>1, <1>2, FrameUpdate

LEMMA ReturnType ==
  ASSUME Typed, NEW w \in Worker, Return(w)
  PROVE  frame' \in [Worker -> TypedFrame]
  BY IdleFrameType, FrameUpdate DEF Return

LEMMA InitTyped == Init => Typed
  BY GraphAssumption, IdleFrameType, FS_EmptySet DEF Init, Typed, TypeOK, Status, GStatus, TypedFrame
-----------------------------------------------------------------------------
(***************************************************************************)
(* Type correctness: one lemma per action.                                 *)
(***************************************************************************)
LEMMA StartTyped ==
  ASSUME Typed, NEW w \in Worker, Start(w) PROVE Typed'
<1>1. [IdleFrame EXCEPT !.pc = "roots", !.op = "start"] \in TypedFrame
  BY IdleFrameType, ZenonT(40) DEF TypedFrame, Frame, Pc, Op
<1>2. frame' \in [Worker -> TypedFrame] BY <1>1, FrameUpdate DEF Start
<1> QED BY <1>2, FramesAreFrames DEF Start, Typed, TypeOK, GStatus, topology

LEMMA ReadRootsTyped ==
  ASSUME Typed, NEW w \in Worker, ReadRoots(w) PROVE Typed'
<1> DEFINE f == frame[w]
<1>1. f \in TypedFrame BY CallFrame
<1>2. Roots \ Gather \in SUBSET Node BY DEF Typed, TypeOK, Roots
<1>3. [f EXCEPT !.pc = "done"] \in TypedFrame BY <1>1, PcType
<1>4. [f EXCEPT !.pc = "seed", !.roots = Roots \ Gather] \in TypedFrame
  <2>1. f.op = "start" BY <1>1 DEF TypedFrame, ReadRoots, At
  <2> HIDE DEF f
  <2> QED BY <1>1, <1>2, <2>1 DEF TypedFrame, Frame, Pc
<1>5. frame' \in [Worker -> TypedFrame] BY <1>3, <1>4, FrameUpdate DEF ReadRoots
<1> QED BY <1>5, FramesAreFrames DEF ReadRoots, Typed, TypeOK, topology

LEMMA SeedTyped ==
  ASSUME Typed, NEW w \in Worker, Seed(w) PROVE Typed'
<1> DEFINE f == frame[w]
<1>1. f \in TypedFrame BY CallFrame
<1>2. PICK n \in f.roots :
         /\ SetNode(n, "ready", {})
         /\ frame' = [frame EXCEPT ![w].pc = "ready", ![w].target = n,
                                   ![w].roots = @ \ {n}]
  BY DEF Seed
<1>3. n \in Node BY <1>1, <1>2, FrameFields
<1>4. [f EXCEPT !.pc = "ready", !.target = n, !.roots = @ \ {n}] \in TypedFrame
  <2> HIDE DEF f
  <2> QED BY <1>1, <1>3, ZenonT(40) DEF TypedFrame, Frame, Pc
<1>5. frame' \in [Worker -> TypedFrame]
  <2>1. frame' = [frame EXCEPT ![w] =
                     [f EXCEPT !.pc = "ready", !.target = n, !.roots = @ \ {n}]]
    BY <1>2 DEF Typed
  <2> QED BY <2>1, <1>4, FrameUpdate
<1>6. nodeStatus' \in [Node -> Status] /\ output' \in [Node -> SUBSET Token]
  BY <1>2, <1>3, SetNodeType DEF Status, Typed
<1> QED BY <1>5, <1>6, FramesAreFrames DEF Seed, Typed, TypeOK, topology

LEMMA SeededTyped ==
  ASSUME Typed, NEW w \in Worker, Seeded(w) PROVE Typed'
<1>1. frame' \in [Worker -> TypedFrame] BY ReturnType DEF Seeded
<1> QED BY <1>1, FramesAreFrames DEF Seeded, Typed, TypeOK, topology

LEMMA AdvanceType ==
  ASSUME Typed, NEW w \in Worker, NEW n \in Node, NEW out \in SUBSET Token,
         NEW failed \in BOOLEAN, Advance(w, n, out, failed)
  PROVE  frame' \in [Worker -> TypedFrame]
<1> DEFINE item == [node |-> n, out |-> out, failed |-> failed]
<1>1. item \in Item BY DEF Item
<1>2. [IdleFrame EXCEPT !.pc = "pop", !.op = "advance", !.queue = <<item>>]
         \in TypedFrame
  <2>1. <<item>> \in Seq(Item) BY <1>1
  <2> HIDE DEF item
  <2> QED BY <2>1, IdleFrameType, ZenonT(40) DEF TypedFrame, Frame, Pc, Op
<1> QED BY <1>2, FrameUpdate DEF Advance

LEMMA ReportTyped ==
  ASSUME Typed, NEW w \in Worker, NEW n \in Node, Report(w, n) PROVE Typed'
<1>1. PICK out \in SUBSET Token, failed \in BOOLEAN : Advance(w, n, out, failed)
  <2>1. {Fresh(1, "error")} \in SUBSET Token BY FreshType DEF Color
  <2> QED BY <2>1, GraphAssumption DEF Report
<1>2. frame' \in [Worker -> TypedFrame] BY <1>1, AdvanceType
<1>3. reported' \in [Node -> Nat] BY DEF Report, Typed, TypeOK
<1> QED BY <1>2, <1>3, FramesAreFrames DEF Report, Typed, TypeOK, topology

LEMMA PopTyped ==
  ASSUME Typed, NEW w \in Worker, Pop(w) PROVE Typed'
<1> DEFINE f == frame[w]
           i == f.queue[Len(f.queue)]
           rest == SubSeq(f.queue, 1, Len(f.queue) - 1)
<1>1. f \in TypedFrame BY CallFrame
<1>2. f.queue \in Seq(Item) /\ f.queue # <<>> BY <1>1, FrameFields DEF Pop
<1> f.op = "advance" BY <1>1 DEF TypedFrame, Pop, At
<1>3. i \in Item /\ rest \in Seq(Item) BY <1>2
<1>4. [f EXCEPT !.queue = rest] \in TypedFrame
  <2> HIDE DEF f, rest
  <2> QED BY <1>1, <1>3 DEF TypedFrame, Frame
<1>5. [f EXCEPT !.pc = "mark", !.queue = rest, !.node = i.node,
                !.out = i.out, !.failed = i.failed] \in TypedFrame
  <2> HIDE DEF f, rest, i
  <2> QED BY <1>1, <1>3, ZenonT(40) DEF TypedFrame, Frame, Item, Pc
<1>6. frame' \in [Worker -> TypedFrame] BY <1>4, <1>5, FrameUpdate DEF Pop
<1> QED BY <1>6, FramesAreFrames DEF Pop, Typed, TypeOK, topology

LEMMA MarkTyped ==
  ASSUME Typed, NEW w \in Worker, Mark(w) PROVE Typed'
<1> DEFINE f == frame[w]
<1>1. f \in TypedFrame BY CallFrame
<1>2. f.node \in Node /\ f.out \in SUBSET Token /\ f.op = "advance"
  BY <1>1, FrameFields DEF TypedFrame, Mark, At
<1>3. [f EXCEPT !.pc = "log"] \in TypedFrame
  <2> HIDE DEF f
  <2> QED BY <1>1, <1>2 DEF TypedFrame, Frame, Pc
<1>4. frame' \in [Worker -> TypedFrame] BY <1>3, FrameUpdate DEF Mark, Goto
<1>5. nodeStatus' \in [Node -> Status] /\ output' \in [Node -> SUBSET Token]
  BY <1>2, SetNodeType DEF Status, Typed, Mark
<1> QED BY <1>4, <1>5, FramesAreFrames DEF Mark, Typed, TypeOK, topology

LEMMA LogNodeTyped ==
  ASSUME Typed, NEW w \in Worker, LogNode(w) PROVE Typed'
<1> DEFINE f == frame[w]
           hops == {h \in [tok : f.out, edge : Outbound(f.node)] :
                       Matches(Cond[h.edge], h.tok.color)}
<1>1. f \in TypedFrame BY CallFrame
<1> f.op = "advance" BY <1>1 DEF TypedFrame, LogNode, At
<1>2. hops \in SUBSET Hop
  <2>1. f.out \subseteq Token /\ Outbound(f.node) \subseteq Edge
    BY <1>1, FrameFields DEF Typed, TypeOK, Outbound
  <2> HIDE DEF f
  <2> QED BY <2>1 DEF Hop
<1>3. [f EXCEPT !.pc = "route", !.any = FALSE, !.hop = NoHop, !.todo = hops]
         \in TypedFrame
  <2> HIDE DEF f, hops
  <2> QED BY <1>1, <1>2, ZenonT(40) DEF TypedFrame, Frame, Pc
<1>4. frame' \in [Worker -> TypedFrame] BY <1>3, FrameUpdate DEF LogNode
<1>5. log' \in Seq(Event)
  BY <1>1, FrameFields, PersistType DEF LogNode, EventType, Typed
<1> QED BY <1>4, <1>5, FramesAreFrames DEF LogNode, Typed, TypeOK, topology

LEMMA RouteTyped ==
  ASSUME Typed, NEW w \in Worker, Route(w) PROVE Typed'
<1> DEFINE f == frame[w]
<1>1. f \in TypedFrame BY CallFrame
<1>2. PICK h \in NextHops(f) : frame' = [frame EXCEPT ![w] =
         [f EXCEPT !.pc = "deliver", !.hop = h, !.todo = @ \ {h}, !.seq = NextSeq(h.edge)]]
  BY DEF Route
<1> f.op \in {"advance", "edge"} BY <1>1 DEF TypedFrame, Route, At
<1>3. h \in Hop
  <2>1. NextHops(f) \subseteq f.todo BY DEF NextHops
  <2> QED BY <1>1, <1>2, <2>1, FrameFields
<1> DEFINE k == NextSeq(h.edge)
<1>4. k \in Nat /\ k > 0 BY <1>3, NextSeqType DEF Hop
<1>5. [f EXCEPT !.pc = "deliver", !.hop = h, !.todo = @ \ {h}, !.seq = k] \in TypedFrame
  <2> HIDE DEF f, k
  <2> QED BY <1>1, <1>3, <1>4, ZenonT(40) DEF TypedFrame, Frame, Pc
<1>6. frame' \in [Worker -> TypedFrame] BY <1>2, <1>5, FrameUpdate
<1> QED BY <1>6, FramesAreFrames DEF Route, Typed, TypeOK, topology

LEMMA DeliverTyped ==
  ASSUME Typed, NEW w \in Worker, Deliver(w) PROVE Typed'
<1> DEFINE f == frame[w]
           e == f.hop.edge
           row == [edge |-> e, seq |-> f.seq, color |-> f.hop.tok.color]
<1>1. f \in TypedFrame BY CallFrame
<1>2. CASE \E r \in tokens : r.edge = e /\ r.seq = f.seq
  <2>1. Return(w) /\ UNCHANGED tokens BY <1>2 DEF Deliver
  <2>2. frame' \in [Worker -> TypedFrame] BY <2>1, ReturnType
  <2> QED BY <2>1, <2>2, FramesAreFrames DEF Deliver, Typed, TypeOK, topology
<1>3. CASE ~ \E r \in tokens : r.edge = e /\ r.seq = f.seq
  <2>1. f.hop \in Hop /\ f.seq \in Nat /\ f.seq > 0 /\ f.op \in {"advance", "edge"}
    BY <1>1, FrameFields DEF TypedFrame, Deliver, At
  <2>2. row \in Row /\ To[e] \in Node
    <3> HIDE DEF f
    <3> QED BY <2>1, GraphAssumption DEF Row, Hop, Token
  <2>3. tokens' = tokens \cup {row} BY <1>3 DEF Deliver
  <2>4. tokens' \subseteq Row BY <2>2, <2>3 DEF Typed, TypeOK
  <2>5. IsFiniteSet(tokens') BY <2>3, FS_AddElement DEF Typed
  <2> DEFINE p == IF f.op = "advance" THEN "check" ELSE "route"
  <2>6. [f EXCEPT !.any = TRUE, !.target = To[e], !.pc = p] \in TypedFrame
    <3> DEFINE g == [f EXCEPT !.any = TRUE, !.target = To[e], !.pc = p]
    <3>1. p \in {"check", "route"} /\ (p = "route" => f.op = "edge") BY <2>1
    <3> HIDE DEF f, e, p
    <3>2. g \in Frame BY <1>1, <2>2, <3>1 DEF TypedFrame, Frame, Pc
    <3>3. g.pc = p /\ g.op = f.op /\ g.target = To[e] BY <1>1 DEF TypedFrame, Frame
    <3> HIDE DEF g
    <3>4. g \in TypedFrame BY <2>2, <3>1, <3>2, <3>3 DEF TypedFrame
    <3> QED BY <3>4 DEF g
  <2>7. frame' \in [Worker -> TypedFrame]
    <3>1. frame' = [frame EXCEPT ![w] = [f EXCEPT !.any = TRUE, !.target = To[e], !.pc = p]]
      BY <1>3 DEF Deliver
    <3> QED BY <2>6, <3>1, FrameUpdate
  <2> QED BY <2>4, <2>5, <2>7, FramesAreFrames DEF Deliver, Typed, TypeOK, topology
<1> QED BY <1>2, <1>3

LEMMA RoutedTyped ==
  ASSUME Typed, NEW w \in Worker, Routed(w) PROVE Typed'
<1> DEFINE f == frame[w]
           p == AfterRouting(f)
<1>1. f \in TypedFrame BY CallFrame
<1>2. \/ f.op = "advance" /\ p \in {"failgraph", "pop"}
      \/ f.op = "edge" /\ p = "check"
  BY <1>1 DEF AfterRouting, TypedFrame, Routed, At
<1>3. [f EXCEPT !.pc = p] \in TypedFrame
  <2> DEFINE g == [f EXCEPT !.pc = p]
  <2> HIDE DEF f, p
  <2>1. g \in Frame BY <1>1, <1>2 DEF TypedFrame, Frame, Pc
  <2>2. g.pc = p /\ g.op = f.op /\ g.target = f.target BY <1>1 DEF TypedFrame, Frame
  <2> HIDE DEF g
  <2>3. g \in TypedFrame BY <1>1, <1>2, <2>1, <2>2 DEF TypedFrame
  <2> QED BY <2>3 DEF g
<1>4. frame' \in [Worker -> TypedFrame] BY <1>3, FrameUpdate DEF Routed, Goto
<1> QED BY <1>4, FramesAreFrames DEF Routed, Typed, TypeOK, topology

LEMMA FailGraphTyped ==
  ASSUME Typed, NEW w \in Worker, FailGraph(w) \/ LogGraphFailed(w) PROVE Typed'
<1>1. CASE FailGraph(w)
  <2>1. frame' \in [Worker -> TypedFrame] BY <1>1, GotoType DEF FailGraph
  <2> QED BY <1>1, <2>1, FramesAreFrames DEF FailGraph, Typed, TypeOK, GStatus, topology
<1>2. CASE LogGraphFailed(w)
  <2>1. frame' \in [Worker -> TypedFrame] BY <1>2, ReturnType DEF LogGraphFailed
  <2>2. log' \in Seq(Event)
    BY <1>2, CallFrame, FrameFields, PersistType DEF LogGraphFailed, EventType, Typed
  <2> QED BY <1>2, <2>1, <2>2, FramesAreFrames DEF LogGraphFailed, Typed, TypeOK, topology
<1> QED BY <1>1, <1>2

LEMMA FinishTyped ==
  ASSUME Typed, NEW w \in Worker, Finish(w) \/ CompleteGraph(w) \/ LogGraphDone(w)
  PROVE  Typed'
<1>1. CASE Finish(w)
  <2>1. frame' \in [Worker -> TypedFrame]
    BY <1>1, GotoType, ReturnType DEF Finish
  <2> QED BY <1>1, <2>1, FramesAreFrames DEF Finish, Typed, TypeOK, topology
<1>2. CASE CompleteGraph(w)
  <2>1. frame' \in [Worker -> TypedFrame] BY <1>2, GotoType DEF CompleteGraph
  <2> QED BY <1>2, <2>1, FramesAreFrames
          DEF CompleteGraph, Typed, TypeOK, GStatus, topology
<1>3. CASE LogGraphDone(w)
  <2>1. frame' \in [Worker -> TypedFrame] BY <1>3, ReturnType DEF LogGraphDone
  <2>2. log' \in Seq(Event) BY <1>3, PersistType DEF LogGraphDone, EventType, Typed
  <2> QED BY <1>3, <2>1, <2>2, FramesAreFrames DEF LogGraphDone, Typed, TypeOK, topology
<1> QED BY <1>1, <1>2, <1>3

LEMMA CheckTyped ==
  ASSUME Typed, NEW w \in Worker, Check(w) \/ NotEnabled(w) PROVE Typed'
<1> DEFINE f == frame[w]
<1>1. f \in TypedFrame BY CallFrame
<1>2. Resume(f) \in TypedFrame BY <1>1, ResumeType
<1>3. CASE Check(w)
  <2>1. f.target \in Node BY <1>1, <1>3 DEF TypedFrame, Check, At
  <2>2. [f EXCEPT !.pc = "enable"] \in TypedFrame
    <3> HIDE DEF f
    <3> QED BY <1>1, <2>1 DEF TypedFrame, Frame, Pc
  <2>3. frame' \in [Worker -> TypedFrame] BY <1>2, <1>3, <2>2, FrameUpdate DEF Check
  <2> QED BY <1>3, <2>3, FramesAreFrames DEF Check, Typed, TypeOK, topology
<1>4. CASE NotEnabled(w)
  <2>1. frame' \in [Worker -> TypedFrame] BY <1>2, <1>4, FrameUpdate DEF NotEnabled
  <2> QED BY <1>4, <2>1, FramesAreFrames DEF NotEnabled, Typed, TypeOK, topology
<1> QED BY <1>3, <1>4

LEMMA EnableTyped ==
  ASSUME Typed, NEW w \in Worker, EnableTask(w) \/ EnableGather(w) PROVE Typed'
<1> DEFINE f == frame[w]
<1>1. f \in TypedFrame BY CallFrame
<1>2. f.target \in Node BY <1>1 DEF TypedFrame, EnableTask, EnableGather, At
<1>3. CASE EnableTask(w)
  <2>1. [f EXCEPT !.pc = "ready"] \in TypedFrame
    <3> HIDE DEF f
    <3> QED BY <1>1, <1>2 DEF TypedFrame, Frame, Pc
  <2>2. frame' \in [Worker -> TypedFrame] BY <1>3, <2>1, FrameUpdate DEF EnableTask, Goto
  <2>3. nodeStatus' \in [Node -> Status] /\ output' \in [Node -> SUBSET Token]
    BY <1>2, <1>3, SetNodeType DEF EnableTask, Status, Typed
  <2> QED BY <1>3, <2>2, <2>3, FramesAreFrames DEF EnableTask, Typed, TypeOK, topology
<1>4. CASE EnableGather(w)
  <2>1. PICK out \in GatherOutputs(f.target) :
           frame' = [frame EXCEPT ![w] = Enqueue(f, f.target, out)]
    BY <1>4 DEF EnableGather
  <2>2. out \in SUBSET Token BY <1>2, <2>1, GatherOutputsType DEF Typed
  <2>3. Enqueue(f, f.target, out) \in TypedFrame BY <1>1, <1>2, <2>2, EnqueueType
  <2>4. frame' \in [Worker -> TypedFrame] BY <2>1, <2>3, FrameUpdate
  <2>5. nodeStatus' \in [Node -> Status] /\ output' \in [Node -> SUBSET Token]
    BY <1>2, <1>4, SetNodeType DEF EnableGather, Status, Typed
  <2> QED BY <1>4, <2>4, <2>5, FramesAreFrames DEF EnableGather, Typed, TypeOK, topology
<1> QED BY <1>3, <1>4

LEMMA LogReadyTyped ==
  ASSUME Typed, NEW w \in Worker, LogReady(w) PROVE Typed'
<1>1. frame[w] \in TypedFrame BY CallFrame
<1>2. frame' \in [Worker -> TypedFrame] BY <1>1, ResumeType, FrameUpdate DEF LogReady
<1>3. log' \in Seq(Event)
  BY <1>1, FrameFields, PersistType DEF LogReady, EventType, Typed
<1> QED BY <1>2, <1>3, FramesAreFrames DEF LogReady, Typed, TypeOK, topology

LEMMA StepTyped ==
  ASSUME Typed, NEW w \in Worker, Step(w) PROVE Typed'
  BY ReadRootsTyped, SeedTyped, SeededTyped, PopTyped, MarkTyped,
     LogNodeTyped, RouteTyped, DeliverTyped, RoutedTyped, FailGraphTyped,
     FinishTyped, CheckTyped, EnableTyped, LogReadyTyped DEF Step

LEMMA NextTyped == Typed /\ [Next]_vars => Typed'
<1> SUFFICES ASSUME Typed, [Next]_vars PROVE Typed'
  OBVIOUS
<1>1. CASE Cancel
  BY <1>1 DEF Cancel, Typed, TypeOK, GStatus, topology
<1>2. CASE UNCHANGED vars
  BY <1>2 DEF vars, Typed, TypeOK
<1>3. ASSUME NEW w \in Worker, Execute(w) PROVE Typed'
  <2>1. CASE Start(w) BY <2>1, StartTyped
  <2>2. CASE \E n \in Node : Report(w, n) BY <2>2, ReportTyped
  <2>3. CASE Step(w) BY <2>3, StepTyped
  <2> QED BY <1>3, <2>1, <2>2, <2>3 DEF Execute
<1> QED BY <1>1, <1>2, <1>3 DEF Next

LEMMA AlwaysTyped == Spec => []Typed
<1>1. Init => Typed BY InitTyped
<1>2. Typed /\ [Next]_vars => Typed' BY NextTyped
<1> QED BY <1>1, <1>2, PTL DEF Spec

\* Every table, the log and every call's local variables keep their types: no
\* statement is ever issued about a node or an edge that does not exist, and
\* no row of lattice_edge_tokens has position 0.
THEOREM TypeCorrect == Spec => []TypeOK
<1>1. Typed => TypeOK BY DEF Typed
<1> QED BY <1>1, AlwaysTyped, PTL
-----------------------------------------------------------------------------
(***************************************************************************)
(* Causality: NodeReady follows an answer of every predecessor.            *)
(***************************************************************************)
LEMMA CausalFrameMonotone ==
  ASSUME NEW A, NEW B, A \subseteq B
  PROVE  CausalFrame(A) \subseteq CausalFrame(B)
  BY DEF CausalFrame

LEMMA PredsAreSources ==
  ASSUME edges = InitEdge, NEW n
  PROVE  Preds(n) = Sources(n)
  BY DEF Preds, Inbound, Sources

\* The log only grows, so an answered node stays answered.
LEMMA AppendKeeps ==
  ASSUME Typed, NEW e \in Event, log' = Append(log, e)
  PROVE  /\ DOMAIN log' = 1..(Len(log) + 1) /\ DOMAIN log = 1..Len(log)
         /\ \A i \in DOMAIN log : log'[i] = log[i]
         /\ log'[Len(log) + 1] = e
         /\ Events' = Events \cup {e}
<1>1. log \in Seq(Event) BY DEF Typed, TypeOK
<1>2. /\ DOMAIN log' = 1..(Len(log) + 1) /\ DOMAIN log = 1..Len(log)
      /\ \A i \in DOMAIN log : log'[i] = log[i]
      /\ log'[Len(log) + 1] = e
      /\ Len(log) \in Nat
  BY <1>1
<1>3. Events' = Events \cup {e} BY <1>2 DEF Events
<1> QED BY <1>2, <1>3

LEMMA AnsweredKept ==
  ASSUME Events \subseteq Events' PROVE Answered \subseteq Answered'
  BY DEF Answered

\* An event keeps the order if it is not NodeReady, or comes after the answers.
LEMMA OrderKept ==
  ASSUME Typed, DependencyOrder, edges' = edges,
         NEW e \in Event, log' = Append(log, e),
         e.type = "NodeReady" => Preds(e.node) \subseteq Answered
  PROVE  DependencyOrder'
<1> SUFFICES ASSUME NEW i \in DOMAIN log', log'[i].type = "NodeReady",
                    NEW p \in Preds(log'[i].node)
             PROVE  \E j \in 1..(i - 1) : log'[j] \in Answers(p)
  BY DEF DependencyOrder, Preds, Inbound
<1> USE AppendKeeps
<1> Len(log) \in Nat BY DEF Typed, TypeOK
<1>1. CASE i \in DOMAIN log
  <2>1. PICK j \in 1..(i - 1) : log[j] \in Answers(p)
    BY <1>1 DEF DependencyOrder
  <2> QED BY <1>1, <2>1
<1>2. CASE i = Len(log) + 1
  <2>1. p \in Answered BY <1>2
  <2>2. PICK j \in DOMAIN log : log[j] \in Answers(p)
    BY <2>1 DEF Answered, Events
  <2> QED BY <1>2, <2>2
<1> QED BY <1>1, <1>2

\* What is left to show of a statement: the tokens it inserts, the order of
\* the log and its own frame.
LEMMA CausalStep ==
  ASSUME Causality, edges' = edges, Answered \subseteq Answered',
         NEW w \in Worker, NEW g \in CausalFrame(Answered'),
         frame' = [frame EXCEPT ![w] = g],
         \A r \in tokens' : From[r.edge] \in Answered',
         DependencyOrder'
  PROVE  Causality'
<1>1. frame \in [Worker -> CausalFrame(Answered')]
  BY CausalFrameMonotone DEF Causality
<1>2. frame' \in [Worker -> CausalFrame(Answered')] BY <1>1
<1> QED BY <1>2 DEF Causality

\* A statement that neither logs nor inserts only has its frame to show.
LEMMA QuietStep ==
  ASSUME Causality, UNCHANGED <<edges, tokens, log>>,
         NEW w \in Worker, NEW g \in CausalFrame(Answered),
         frame' = [frame EXCEPT ![w] = g]
  PROVE  Causality'
<1>1. Answered' = Answered BY DEF Answered, Events
<1>2. DependencyOrder' BY DEF Causality, DependencyOrder, Preds, Inbound
<1>3. \A r \in tokens' : From[r.edge] \in Answered' BY <1>1 DEF Causality
<1> QED BY <1>1, <1>2, <1>3, CausalStep

\* A statement that logs an event other than NodeReady, or the NodeReady of a
\* node whose predecessors are answered.
LEMMA LoggingStep ==
  ASSUME Typed, Causality, UNCHANGED <<edges, tokens>>,
         NEW e \in Event, log' = Append(log, e),
         e.type = "NodeReady" => Sources(e.node) \subseteq Answered,
         NEW w \in Worker, NEW g \in CausalFrame(Answered'),
         frame' = [frame EXCEPT ![w] = g]
  PROVE  Causality'
<1>1. Answered \subseteq Answered' BY AppendKeeps, AnsweredKept
<1>2. DependencyOrder' BY OrderKept, PredsAreSources DEF Causality
<1>3. \A r \in tokens' : From[r.edge] \in Answered' BY <1>1 DEF Causality
<1> QED BY <1>1, <1>2, <1>3, CausalStep

LEMMA CausalCall ==
  ASSUME Causality, NEW w \in Worker PROVE frame[w] \in CausalFrame(Answered)
  BY DEF Causality

LEMMA IdleIsCausal == ASSUME NEW A PROVE IdleFrame \in CausalFrame(A)
<1>1. NoHop \notin Hop BY GraphAssumption DEF NoHop, Hop, Fresh
<1> QED BY <1>1, IdleFrameType DEF CausalFrame, IdleFrame

LEMMA ResumeIsCausal ==
  ASSUME NEW A, NEW f \in CausalFrame(A) PROVE Resume(f) \in CausalFrame(A)
<1>1. Resume(f) \in TypedFrame BY ResumeType DEF CausalFrame
<1>2. CASE f.op \notin {"advance", "start"} BY <1>2, IdleIsCausal DEF Resume
<1>3. CASE f.op \in {"advance", "start"}
  <2>1. /\ Resume(f).todo = f.todo /\ Resume(f).hop = f.hop
        /\ Resume(f).roots = f.roots /\ Resume(f).pc # "ready"
    BY <1>3 DEF Resume, CausalFrame, TypedFrame, Frame
  <2> QED BY <1>1, <2>1 DEF CausalFrame
<1> QED BY <1>2, <1>3

LEMMA InitCausal == Init => Causality
<1> SUFFICES ASSUME Init PROVE Causality OBVIOUS
<1>1. frame \in [Worker -> CausalFrame(Answered)] BY IdleIsCausal DEF Init
<1>2. DependencyOrder BY DEF Init, DependencyOrder
<1> QED BY <1>1, <1>2 DEF Init, Causality

LEMMA StartCausal ==
  ASSUME Typed, Causality, NEW w \in Worker, Start(w) PROVE Causality'
<1>1. [IdleFrame EXCEPT !.pc = "roots", !.op = "start"] \in TypedFrame
  BY IdleFrameType, ZenonT(40) DEF TypedFrame, Frame, Pc, Op
<1>2. [IdleFrame EXCEPT !.pc = "roots", !.op = "start"] \in CausalFrame(Answered)
  BY <1>1, IdleIsCausal DEF CausalFrame, IdleFrame
<1> QED BY <1>2, QuietStep DEF Start, topology

LEMMA ReadRootsCausal ==
  ASSUME Typed, Causality, NEW w \in Worker, ReadRoots(w) PROVE Causality'
<1> DEFINE f == frame[w]
           R == Roots \ Gather
<1>1. f \in CausalFrame(Answered) /\ f \in TypedFrame BY CausalCall, CallFrame
<1>2. R \in SUBSET Node /\ \A n \in R : Sources(n) = {}
  BY DEF Typed, TypeOK, Roots, Causality, Inbound, Sources
<1>3. [f EXCEPT !.pc = "done"] \in CausalFrame(Answered)
  <2>1. [f EXCEPT !.pc = "done"] \in TypedFrame BY <1>1, PcType
  <2> HIDE DEF f
  <2> QED BY <1>1, <2>1 DEF CausalFrame, TypedFrame, Frame
<1>4. [f EXCEPT !.pc = "seed", !.roots = R] \in CausalFrame(Answered)
  <2>0. f.op = "start" BY <1>1 DEF TypedFrame, ReadRoots, At
  <2> HIDE DEF f, R
  <2> DEFINE g == [f EXCEPT !.pc = "seed", !.roots = R]
  <2>1. g \in TypedFrame BY <1>1, <1>2, <2>0 DEF TypedFrame, Frame, Pc
  <2>2. g.todo = f.todo /\ g.hop = f.hop /\ g.roots = R /\ g.pc = "seed"
    BY <1>1 DEF TypedFrame, Frame
  <2> HIDE DEF g
  <2>3. g \in CausalFrame(Answered) BY <1>1, <1>2, <2>1, <2>2 DEF CausalFrame
  <2> QED BY <2>3 DEF g
<1> QED BY <1>3, <1>4, QuietStep DEF ReadRoots, topology

LEMMA SeedCausal ==
  ASSUME Typed, Causality, NEW w \in Worker, Seed(w) \/ Seeded(w) PROVE Causality'
<1> DEFINE f == frame[w]
<1>1. f \in CausalFrame(Answered) /\ f \in TypedFrame BY CausalCall, CallFrame
<1>2. CASE Seeded(w) BY <1>2, IdleIsCausal, QuietStep DEF Seeded, Return, topology
<1>3. CASE Seed(w)
  <2>1. PICK n \in f.roots :
           frame' = [frame EXCEPT ![w].pc = "ready", ![w].target = n,
                                  ![w].roots = @ \ {n}]
    BY <1>3 DEF Seed
  <2>2. n \in Node /\ Sources(n) = {}
    BY <1>1, <2>1, FrameFields DEF CausalFrame
  <2>3. [f EXCEPT !.pc = "ready", !.target = n, !.roots = @ \ {n}]
           \in CausalFrame(Answered)
    <3> DEFINE g == [f EXCEPT !.pc = "ready", !.target = n, !.roots = @ \ {n}]
    <3> HIDE DEF f
    <3>1. g \in Frame BY <1>1, <2>2 DEF TypedFrame, Frame, Pc
    <3>2. /\ g.pc = "ready" /\ g.target = n /\ g.roots = f.roots \ {n} /\ g.op = f.op
          /\ g.todo = f.todo /\ g.hop = f.hop /\ g.node = f.node
      BY <1>1 DEF TypedFrame, Frame
    <3> HIDE DEF g
    <3>3. g \in TypedFrame BY <2>2, <3>1, <3>2 DEF TypedFrame
    <3>4. g \in CausalFrame(Answered) BY <1>1, <2>2, <3>2, <3>3 DEF CausalFrame
    <3> QED BY <3>4 DEF g
  <2>4. frame' = [frame EXCEPT ![w] =
                     [f EXCEPT !.pc = "ready", !.target = n, !.roots = @ \ {n}]]
    BY <2>1 DEF Typed
  <2> QED BY <1>3, <2>3, <2>4, QuietStep DEF Seed, topology
<1> QED BY <1>2, <1>3

LEMMA ReportCausal ==
  ASSUME Typed, Causality, NEW w \in Worker, NEW n \in Node, Report(w, n)
  PROVE  Causality'
<1>1. Typed' BY ReportTyped
<1>2. PICK out, failed : Advance(w, n, out, failed) BY DEF Report
<1> DEFINE g == [IdleFrame EXCEPT !.pc = "pop", !.op = "advance",
                     !.queue = <<[node |-> n, out |-> out, failed |-> failed]>>]
<1>3. frame' = [frame EXCEPT ![w] = g] BY <1>2 DEF Advance
<1>4. g \in TypedFrame
  <2>1. frame'[w] = g BY <1>3 DEF Typed
  <2> QED BY <1>1, <2>1 DEF Typed
<1>5. g.todo = {} /\ g.hop = NoHop /\ g.roots = {} /\ g.pc = "pop" BY DEF IdleFrame
<1>6. NoHop \notin Hop BY GraphAssumption DEF NoHop, Hop, Fresh
<1>7. g \in CausalFrame(Answered)
  <2> HIDE DEF g
  <2> QED BY <1>4, <1>5, <1>6 DEF CausalFrame
<1> QED BY <1>3, <1>7, QuietStep DEF Report, topology

LEMMA PopCausal ==
  ASSUME Typed, Causality, NEW w \in Worker, Pop(w) PROVE Causality'
<1> DEFINE f == frame[w]
           g == frame'[w]
<1>1. f \in CausalFrame(Answered) /\ f \in TypedFrame BY CausalCall, CallFrame
<1>2. g \in TypedFrame BY PopTyped DEF Typed
<1>3. frame' = [frame EXCEPT ![w] = g] BY DEF Pop, Typed
<1>4. g.todo = f.todo /\ g.hop = f.hop /\ g.roots = f.roots /\ g.pc # "ready"
  BY <1>1 DEF Pop, At, Typed, TypedFrame, Frame
<1>5. g \in CausalFrame(Answered) BY <1>1, <1>2, <1>4 DEF CausalFrame
<1> QED BY <1>3, <1>5, QuietStep DEF Pop, topology

LEMMA MarkCausal ==
  ASSUME Typed, Causality, NEW w \in Worker, Mark(w) PROVE Causality'
<1> DEFINE f == frame[w]
           g == frame'[w]
<1>1. f \in CausalFrame(Answered) /\ f \in TypedFrame BY CausalCall, CallFrame
<1>2. g \in TypedFrame BY MarkTyped DEF Typed
<1>3. frame' = [frame EXCEPT ![w] = g] BY DEF Mark, Goto, Typed
<1>4. g.todo = f.todo /\ g.hop = f.hop /\ g.roots = f.roots /\ g.pc # "ready"
  BY <1>1 DEF Mark, Goto, Typed, TypedFrame, Frame
<1>5. g \in CausalFrame(Answered) BY <1>1, <1>2, <1>4 DEF CausalFrame
<1> QED BY <1>3, <1>5, QuietStep DEF Mark, topology

\* The node's answer is logged before its edges are read.
LEMMA LogNodeCausal ==
  ASSUME Typed, Causality, NEW w \in Worker, LogNode(w) PROVE Causality'
<1> DEFINE f == frame[w]
           g == frame'[w]
           e == Ev(IF f.failed THEN "NodeFailed" ELSE "NodeDone", f.node)
<1>1. f \in CausalFrame(Answered) /\ f \in TypedFrame BY CausalCall, CallFrame
<1>2. g \in TypedFrame BY LogNodeTyped DEF Typed
<1>3. frame' = [frame EXCEPT ![w] = g] BY DEF LogNode, Typed
<1>4. f.node \in Node BY <1>1 DEF LogNode, At, TypedFrame
<1>5. e \in Event /\ e.type # "NodeReady" /\ e \in Answers(f.node)
  BY <1>4 DEF Ev, Event, EventType, Answers
<1>6. log' = Append(log, e) BY DEF LogNode, Persist
<1>7. f.node \in Answered' BY <1>4, <1>5, <1>6, AppendKeeps DEF Answered
<1>8. g.hop = NoHop /\ g.roots = f.roots /\ g.pc = "route"
      /\ \A h \in g.todo : h.edge \in Outbound(f.node)
  BY <1>1 DEF LogNode, Typed, TypedFrame, Frame
<1>9. \A h \in g.todo : From[h.edge] \in Answered' BY <1>7, <1>8 DEF Outbound
<1>10. g \in CausalFrame(Answered')
  <2>1. NoHop \notin Hop BY GraphAssumption DEF NoHop, Hop, Fresh
  <2> QED BY <1>1, <1>2, <1>8, <1>9, <2>1 DEF CausalFrame
<1> QED BY <1>3, <1>5, <1>6, <1>10, LoggingStep DEF LogNode, topology

LEMMA RouteCausal ==
  ASSUME Typed, Causality, NEW w \in Worker, Route(w) PROVE Causality'
<1> DEFINE f == frame[w]
           g == frame'[w]
<1>1. f \in CausalFrame(Answered) /\ f \in TypedFrame BY CausalCall, CallFrame
<1>2. g \in TypedFrame BY RouteTyped DEF Typed
<1>3. frame' = [frame EXCEPT ![w] = g] BY DEF Route, Typed
<1>4. g.todo \subseteq f.todo /\ g.hop \in f.todo /\ g.roots = f.roots /\ g.pc = "deliver"
  <2>1. NextHops(f) \subseteq f.todo BY DEF NextHops
  <2> QED BY <1>1, <2>1 DEF Route, Typed, TypedFrame, Frame
<1>5. g \in CausalFrame(Answered) BY <1>1, <1>2, <1>4 DEF CausalFrame
<1> QED BY <1>3, <1>5, QuietStep DEF Route, topology

\* The token in hand comes from an answered node, and so does its new row.
LEMMA DeliverCausal ==
  ASSUME Typed, Causality, NEW w \in Worker, Deliver(w) PROVE Causality'
<1> DEFINE f == frame[w]
           g == frame'[w]
<1>1. f \in CausalFrame(Answered) /\ f \in TypedFrame BY CausalCall, CallFrame
<1>2. g \in TypedFrame BY DeliverTyped DEF Typed
<1>3. frame' = [frame EXCEPT ![w] = g] BY DEF Deliver, Return, Typed
<1>4. Answered' = Answered BY DEF Answered, Events, Deliver
<1>5. From[f.hop.edge] \in Answered
  BY <1>1 DEF CausalFrame, TypedFrame, Deliver, At
<1>6. \A r \in tokens' : From[r.edge] \in Answered'
  BY <1>4, <1>5 DEF Deliver, Causality
<1>7. g \in CausalFrame(Answered)
  <2>1. CASE Return(w)
    <3>1. g = IdleFrame BY <2>1 DEF Return, Typed
    <3> QED BY <3>1, IdleIsCausal
  <2>2. CASE ~ Return(w)
    <3>1. PICK q \in {"check", "route"} : frame' = [frame EXCEPT ![w] =
             [f EXCEPT !.any = TRUE, !.target = To[f.hop.edge], !.pc = q]]
      BY <2>2 DEF Deliver
    <3>2. g.todo = f.todo /\ g.hop = f.hop /\ g.roots = f.roots /\ g.pc # "ready"
      BY <1>1, <3>1 DEF Typed, TypedFrame, Frame
    <3> QED BY <1>1, <1>2, <3>2 DEF CausalFrame
  <2> QED BY <2>1, <2>2
<1>8. DependencyOrder' BY DEF Deliver, topology, Causality, DependencyOrder, Preds, Inbound
<1> QED BY <1>3, <1>4, <1>6, <1>7, <1>8, CausalStep DEF Deliver, topology

\* Statements that keep what the call has left to route and to seed.
LEMMA KeepingStep ==
  ASSUME Typed', Causality, UNCHANGED <<edges, tokens, log>>, NEW w \in Worker,
         frame' = [frame EXCEPT ![w] = frame'[w]],
         frame'[w].todo = frame[w].todo, frame'[w].hop = frame[w].hop,
         frame'[w].roots = frame[w].roots,
         frame'[w].pc = "ready" => Sources(frame'[w].target) \subseteq Answered
  PROVE  Causality'
<1> DEFINE g == frame'[w]
<1>1. g \in TypedFrame BY DEF Typed
<1>2. g \in CausalFrame(Answered) BY <1>1, CausalCall DEF CausalFrame
<1> QED BY <1>2, QuietStep

LEMMA RoutedCausal ==
  ASSUME Typed, Causality, NEW w \in Worker, Routed(w) PROVE Causality'
<1>1. AfterRouting(frame[w]) # "ready" BY DEF AfterRouting
<1> QED BY <1>1, RoutedTyped, CallFrame, KeepingStep
        DEF Routed, Goto, topology, Typed, TypedFrame, Frame

LEMMA FailGraphCausal ==
  ASSUME Typed, Causality, NEW w \in Worker, FailGraph(w) \/ LogGraphFailed(w)
  PROVE  Causality'
<1> DEFINE e == Ev("GraphFailed", frame[w].node)
<1>1. CASE FailGraph(w)
  BY <1>1, FailGraphTyped, CallFrame, KeepingStep
     DEF FailGraph, Goto, topology, Typed, TypedFrame, Frame
<1>2. CASE LogGraphFailed(w)
  <2>1. e \in Event /\ e.type # "NodeReady"
    BY CallFrame, FrameFields DEF Ev, Event, EventType
  <2>2. log' = Append(log, e) BY <1>2 DEF LogGraphFailed, Persist
  <2> QED BY <1>2, <2>1, <2>2, IdleIsCausal, LoggingStep DEF LogGraphFailed, Return, topology
<1> QED BY <1>1, <1>2

LEMMA FinishCausal ==
  ASSUME Typed, Causality, NEW w \in Worker,
         Finish(w) \/ CompleteGraph(w) \/ LogGraphDone(w)
  PROVE  Causality'
<1> DEFINE e == Ev("GraphDone", NoNode)
<1>1. CASE Finish(w) /\ AllComplete
  <2>1. Goto(w, "done") /\ UNCHANGED <<edges, tokens, log>>
    BY <1>1 DEF Finish, topology
  <2>2. Typed' BY <1>1, FinishTyped
  <2> QED BY <2>1, <2>2, CallFrame, KeepingStep DEF Goto, Typed, TypedFrame, Frame
<1>2. CASE Finish(w) /\ ~AllComplete
  BY <1>2, IdleIsCausal, QuietStep DEF Finish, Return, topology
<1>3. CASE CompleteGraph(w)
  BY <1>3, FinishTyped, CallFrame, KeepingStep
     DEF CompleteGraph, Goto, topology, Typed, TypedFrame, Frame
<1>4. CASE LogGraphDone(w)
  <2>1. e \in Event /\ e.type # "NodeReady" BY DEF Ev, Event, EventType
  <2>2. log' = Append(log, e) BY <1>4 DEF LogGraphDone, Persist
  <2> QED BY <1>4, <2>1, <2>2, IdleIsCausal, LoggingStep DEF LogGraphDone, Return, topology
<1> QED BY <1>1, <1>2, <1>3, <1>4

LEMMA CheckCausal ==
  ASSUME Typed, Causality, NEW w \in Worker, Check(w) \/ NotEnabled(w)
  PROVE  Causality'
<1> DEFINE f == frame[w]
<1>1. f \in CausalFrame(Answered) /\ f \in TypedFrame BY CausalCall, CallFrame
<1>2. CASE frame' = [frame EXCEPT ![w] = Resume(f)]
  BY <1>1, <1>2, ResumeIsCausal, QuietStep DEF Check, NotEnabled, topology
<1>3. CASE frame' = [frame EXCEPT ![w] = [f EXCEPT !.pc = "enable"]]
  BY <1>1, <1>3, CheckTyped, KeepingStep
     DEF Check, NotEnabled, topology, Typed, TypedFrame, Frame
<1> QED BY <1>2, <1>3 DEF Check, NotEnabled

\* Whoever finds a token on every edge of a node has seen its predecessors
\* answered.
LEMMA EnabledIsAnswered ==
  ASSUME Causality, NEW n \in Node, Enabled(n)
  PROVE  Sources(n) \subseteq Answered
<1>1. \A e \in Inbound(n) : From[e] \in Answered BY DEF Enabled, HasToken, Causality
<1> QED BY <1>1 DEF Causality, Inbound, Sources

LEMMA EnableCausal ==
  ASSUME Typed, Causality, NEW w \in Worker, EnableTask(w) \/ EnableGather(w)
  PROVE  Causality'
<1> DEFINE f == frame[w]
<1>1. f \in CausalFrame(Answered) /\ f \in TypedFrame BY CausalCall, CallFrame
<1>2. f.target \in Node BY <1>1 DEF TypedFrame, EnableTask, EnableGather, At
<1>3. CASE EnableTask(w)
  <2>1. Sources(f.target) \subseteq Answered
    BY <1>2, <1>3, EnabledIsAnswered DEF EnableTask
  <2> QED BY <1>1, <1>3, <2>1, EnableTyped, KeepingStep
          DEF EnableTask, Goto, topology, Typed, TypedFrame, Frame
<1>4. CASE EnableGather(w)
  <2>1. PICK out : frame' = [frame EXCEPT ![w] = Enqueue(f, f.target, out)]
    BY <1>4 DEF EnableGather
  <2> DEFINE g == Enqueue(f, f.target, out)
  <2>2. g \in TypedFrame BY <1>4, <2>1, EnableTyped DEF Typed
  <2>3. Resume(f) \in CausalFrame(Answered) BY <1>1, ResumeIsCausal
  <2>4. g \in CausalFrame(Answered)
    BY <2>2, <2>3 DEF Enqueue, CausalFrame, TypedFrame, Frame
  <2> QED BY <1>4, <2>1, <2>4, QuietStep DEF EnableGather, topology
<1> QED BY <1>3, <1>4

LEMMA LogReadyCausal ==
  ASSUME Typed, Causality, NEW w \in Worker, LogReady(w) PROVE Causality'
<1> DEFINE f == frame[w]
           e == Ev("NodeReady", f.target)
<1>1. f \in CausalFrame(Answered) /\ f \in TypedFrame BY CausalCall, CallFrame
<1>2. e \in Event /\ e.node = f.target BY <1>1, FrameFields DEF Ev, Event, EventType
<1>3. Sources(e.node) \subseteq Answered BY <1>1, <1>2 DEF CausalFrame, LogReady, At
<1>4. log' = Append(log, e) BY DEF LogReady, Persist
<1>5. Answered \subseteq Answered' BY <1>2, <1>4, AppendKeeps, AnsweredKept
<1>6. Resume(f) \in CausalFrame(Answered') BY <1>1, <1>5, ResumeIsCausal, CausalFrameMonotone
<1> QED BY <1>2, <1>3, <1>4, <1>6, LoggingStep DEF LogReady, topology

LEMMA NextCausal == Typed /\ Causality /\ [Next]_vars => Causality'
<1> SUFFICES ASSUME Typed, Causality, [Next]_vars PROVE Causality'
  OBVIOUS
<1>1. CASE Cancel \/ UNCHANGED vars
  BY <1>1 DEF Cancel, vars, topology, Causality, Answered, Events,
              DependencyOrder, Preds, Inbound
<1>2. ASSUME NEW w \in Worker, Execute(w) PROVE Causality'
  <2>1. CASE Start(w) BY <2>1, StartCausal
  <2>2. CASE \E n \in Node : Report(w, n) BY <2>2, ReportCausal
  <2>3. CASE Step(w)
    BY <2>3, ReadRootsCausal, SeedCausal, PopCausal, MarkCausal, LogNodeCausal,
       RouteCausal, DeliverCausal, RoutedCausal, FailGraphCausal, FinishCausal,
       CheckCausal, EnableCausal, LogReadyCausal DEF Step
  <2> QED BY <1>2, <2>1, <2>2, <2>3 DEF Execute
<1> QED BY <1>1, <1>2 DEF Next

\* However many calls interleave, the log never shows a node ready before an
\* answer of each of its predecessors: the token that check_and_ready counts
\* on each edge was delivered after the predecessor's event was persisted.
THEOREM RespectsDependencies == Spec => []DependencyOrder
<1>1. Init => Causality BY InitCausal
<1>2. Typed /\ Causality /\ [Next]_vars => Causality' BY NextCausal
<1>3. Causality => DependencyOrder BY DEF Causality
<1> QED BY <1>1, <1>2, <1>3, AlwaysTyped, PTL DEF Spec
-----------------------------------------------------------------------------
(***************************************************************************)
(* The engine keeps the promise of Dataflow.                               *)
(***************************************************************************)
Released == {n \in nodes : nodeStatus[n] # "pending"}
NodeFailed == {n \in nodes : Ev("NodeFailed", n) \in Events}

\* The control points of advance_graph between the answer of a node and the next item.
Behind == {"route", "deliver", "check", "enable", "ready"}

\* What a call knows when R are the nodes released, S those settled and F those whose
\* failure is in the log: it only holds nodes of the graph, what it is about to settle is
\* released, and what it is about to report has happened.
KnownFrame(R, S, F) ==
    {f \in TypedFrame :
        /\ f.roots \subseteq InitNode
        /\ \A h \in f.todo \cup ({f.hop} \ {NoHop}) : h.edge \in InitEdge
        /\ \A i \in DOMAIN f.queue : f.queue[i].node \in R
        /\ f.pc \in {"route", "deliver"} => f.op = "advance"
        /\ f.op = "advance" /\ f.pc \in {"mark", "log"} \cup Behind => f.node \in R
        /\ f.op = "advance" /\ f.pc \in Behind /\ f.failed => f.node \in F
        /\ f.pc \in {"failgraph", "failevent"} => F # {}
        /\ f.pc \in {"check", "enable", "ready"} => f.target \in InitNode
        /\ f.pc = "ready" => f.target \in R
        /\ f.pc \in {"done", "doneevent"} => S = InitNode \/ Promise!Rootless}

Pledge ==
    /\ nodes = InitNode
    /\ \A n \in InitNode : Ev("NodeReady", n) \in Events => n \in Released
    /\ \A n \in InitNode : IsTerminal(nodeStatus[n]) => n \in Settled
    /\ frame \in [Worker -> KnownFrame(Released, Settled, NodeFailed)]

PromiseIInv == IInv /\ Pledge
-----------------------------------------------------------------------------
(***************************************************************************)
(* What a statement leaves as it was, in the engine and in the promise.    *)
(***************************************************************************)
Unmoved == /\ Released' = Released /\ Settled' = Settled
           /\ FailedOnce' = FailedOnce /\ Outcome' = Outcome
Promised == Promise!Next \/ Unmoved

LEMMA KnownCall ==
  ASSUME Pledge, NEW w \in Worker
  PROVE  frame[w] \in KnownFrame(Released, Settled, NodeFailed)
  BY DEF Pledge

LEMMA InGraph ==
  ASSUME Pledge
  PROVE  Released \subseteq InitNode /\ Settled \subseteq InitNode /\ NodeFailed \subseteq InitNode
         /\ NodeFailed \subseteq FailedOnce
  BY DEF Pledge, Released, Settled, NodeFailed, FailedOnce

LEMMA KnownMonotone ==
  ASSUME NEW R, NEW R2, R \subseteq R2, NEW F, NEW F2, F \subseteq F2,
         NEW S, NEW S2, S \subseteq S2, S2 \subseteq InitNode
  PROVE  KnownFrame(R, S, F) \subseteq KnownFrame(R2, S2, F2)
  BY DEF KnownFrame

\* What a statement has to show: what it does to the sets, and its own frame.
LEMMA PledgeStep ==
  ASSUME Pledge, nodes' = nodes, NEW w \in Worker,
         Released \subseteq Released', Settled \subseteq Settled', NodeFailed \subseteq NodeFailed',
         NEW g \in KnownFrame(Released', Settled', NodeFailed'),
         frame' = [frame EXCEPT ![w] = g],
         \A n \in InitNode : Ev("NodeReady", n) \in Events' => n \in Released',
         \A n \in InitNode : IsTerminal(nodeStatus'[n]) => n \in Settled'
  PROVE  Pledge'
<1>1. nodes' = InitNode /\ Settled' \subseteq InitNode BY DEF Pledge, Settled
<1>2. frame \in [Worker -> KnownFrame(Released', Settled', NodeFailed')]
  BY <1>1, KnownMonotone DEF Pledge
<1>3. frame' \in [Worker -> KnownFrame(Released', Settled', NodeFailed')] BY <1>2
<1> QED BY <1>1, <1>3 DEF Pledge

\* The settled nodes change only when an answer is logged or a call comes to its log.
LEMMA SettledSame ==
  ASSUME Typed, nodes' = nodes, NEW w \in Worker, NEW g, frame' = [frame EXCEPT ![w] = g],
         frame[w].pc # "log", g.pc # "log",
         \A n \in nodes : \A e \in Answers(n) : e \in Events' <=> e \in Events
  PROVE  Settled' = Settled /\ FailedOnce' = FailedOnce /\ NodeFailed' = NodeFailed
<1>1. \A n : \A u \in Worker : InLog(u, n)' <=> InLog(u, n) BY DEF InLog, At, Typed
<1>2. \A n : \A u \in Worker : InLog(u, n) => frame'[u] = frame[u] BY DEF InLog, At, Typed
<1>3. \A n \in nodes : Ev("NodeFailed", n) \in Answers(n) BY DEF Answers
<1>4. Settled' = Settled BY <1>1 DEF Settled
<1>5. FailedOnce' = FailedOnce BY <1>1, <1>2, <1>3 DEF FailedOnce
<1>6. NodeFailed' = NodeFailed BY <1>3 DEF NodeFailed
<1> QED BY <1>4, <1>5, <1>6

\* A statement that neither sets a status nor logs has only its frame to show.
LEMMA QuietPledge ==
  ASSUME Typed, Pledge, UNCHANGED <<nodes, nodeStatus, log>>,
         NEW w \in Worker, NEW g \in KnownFrame(Released, Settled, NodeFailed),
         frame' = [frame EXCEPT ![w] = g], frame[w].pc # "log", g.pc # "log"
  PROVE  Pledge' /\ Unmoved
<1>1. Events' = Events BY DEF Events
<1>2. Released' = Released BY DEF Released
<1>3. Settled' = Settled /\ FailedOnce' = FailedOnce /\ NodeFailed' = NodeFailed
  BY <1>1, SettledSame
<1>4. Outcome' = Outcome BY <1>1 DEF Outcome
<1>5. Pledge' BY <1>1, <1>2, <1>3, PledgeStep DEF Pledge
<1> QED BY <1>2, <1>3, <1>4, <1>5 DEF Unmoved

LEMMA IdleKnows == ASSUME NEW R, NEW S, NEW F PROVE IdleFrame \in KnownFrame(R, S, F)
  BY IdleFrameType DEF KnownFrame, IdleFrame, Behind

\* A quiet statement that keeps what its call holds, or drops it.
LEMMA KeepingPledge ==
  ASSUME Typed, Typed', Pledge, UNCHANGED <<nodes, nodeStatus, log>>, NEW w \in Worker,
         frame' = [frame EXCEPT ![w] = frame'[w]],
         frame[w].pc # "log", frame'[w].pc \notin {"log", "mark", "ready"},
         frame'[w].roots \subseteq InitNode, frame'[w].todo \subseteq frame[w].todo,
         frame'[w].hop \in frame[w].todo \cup {frame[w].hop}, frame'[w].queue = frame[w].queue,
         frame'[w].op = frame[w].op, frame'[w].node = frame[w].node,
         frame'[w].failed = frame[w].failed,
         frame'[w].pc \notin {"route", "deliver"} \/ frame[w].op = "advance",
         frame'[w].pc \in Behind => frame[w].pc \in Behind \/ frame[w].op # "advance",
         frame'[w].pc \in {"check", "enable", "ready"} => frame'[w].target \in InitNode,
         frame'[w].pc \in {"failgraph", "failevent"} => NodeFailed # {},
         frame'[w].pc \in {"done", "doneevent"} => Settled = InitNode \/ Promise!Rootless
  PROVE  Pledge' /\ Unmoved
<1> DEFINE f == frame[w]
           g == frame'[w]
<1>1. f \in KnownFrame(Released, Settled, NodeFailed) BY KnownCall
<1>2. g \in TypedFrame BY DEF Typed
<1>3. g \in KnownFrame(Released, Settled, NodeFailed)
  <2> HIDE DEF f, g
  <2> QED BY <1>1, <1>2 DEF KnownFrame, f, g
<1> QED BY <1>3, QuietPledge
-----------------------------------------------------------------------------
(***************************************************************************)
(* One lemma per action: it keeps the pledge, and is a step of the promise *)
(* or leaves it unchanged.                                                 *)
(***************************************************************************)
LEMMA StartPledge ==
  ASSUME Typed, Pledge, NEW w \in Worker, Start(w) PROVE Pledge' /\ Unmoved
<1> DEFINE g == [IdleFrame EXCEPT !.pc = "roots", !.op = "start"]
<1>1. g \in TypedFrame BY IdleFrameType, ZenonT(40) DEF TypedFrame, Frame, Pc, Op
<1>2. g.roots = {} /\ g.todo = {} /\ g.hop = NoHop /\ g.queue = <<>> /\ g.pc = "roots"
      /\ g.op = "start"
  BY DEF IdleFrame
<1>3. frame' = [frame EXCEPT ![w] = g] BY DEF Start
<1>4. frame[w].pc # "log" BY DEF Start, At
<1> HIDE DEF g
<1>5. g \in KnownFrame(Released, Settled, NodeFailed)
  BY <1>1, <1>2 DEF KnownFrame, Behind
<1> QED BY <1>2, <1>3, <1>4, <1>5, QuietPledge DEF Start, topology

LEMMA ReadRootsPledge ==
  ASSUME Typed, Pledge, Causality, NEW w \in Worker, ReadRoots(w) PROVE Pledge' /\ Unmoved
<1> DEFINE f == frame[w]
           g == frame'[w]
<1>1. Typed' BY ReadRootsTyped
<1>2. f \in KnownFrame(Released, Settled, NodeFailed) /\ f \in TypedFrame BY KnownCall, CallFrame
<1>3. Roots \subseteq InitNode BY DEF Roots, Pledge
<1>4. Roots = {} => Promise!Rootless
  BY DEF Roots, Inbound, Pledge, Causality, Promise!Rootless, Promise!Preds
<1>5. /\ frame' = [frame EXCEPT ![w] = g] /\ f.pc = "roots"
      /\ g.roots \in {f.roots, Roots \ Gather} /\ g.pc = IF Roots = {} THEN "done" ELSE "seed"
      /\ g.todo = f.todo /\ g.hop = f.hop /\ g.queue = f.queue
      /\ g.op = f.op /\ g.node = f.node /\ g.failed = f.failed
  BY <1>2 DEF ReadRoots, At, Typed, TypedFrame, Frame
<1>6. f.roots \subseteq InitNode /\ f.op = "start" BY <1>2, <1>5 DEF KnownFrame, TypedFrame
<1>7. UNCHANGED <<nodes, nodeStatus, log>> BY DEF ReadRoots, topology
<1> HIDE DEF f, g
<1> QED BY <1>1, <1>3, <1>4, <1>5, <1>6, <1>7, KeepingPledge DEF f, g, Behind

LEMMA ReturnPledge ==
  ASSUME Typed, Pledge, UNCHANGED <<nodes, nodeStatus, log>>, NEW w \in Worker,
         Return(w), frame[w].pc # "log"
  PROVE  Pledge' /\ Unmoved
<1>1. IdleFrame.pc = "idle" BY DEF IdleFrame
<1> QED BY <1>1, IdleKnows, QuietPledge DEF Return

LEMMA SeededPledge ==
  ASSUME Typed, Pledge, NEW w \in Worker, Seeded(w) PROVE Pledge' /\ Unmoved
  BY ReturnPledge DEF Seeded, topology, At

LEMMA ReportPledge ==
  ASSUME Typed, Pledge, NEW w \in Worker, NEW n \in Node, Report(w, n)
  PROVE  Pledge' /\ Unmoved
<1>1. Typed' BY ReportTyped
<1>2. PICK out, failed : Advance(w, n, out, failed) BY DEF Report
<1> DEFINE g == [IdleFrame EXCEPT !.pc = "pop", !.op = "advance",
                     !.queue = <<[node |-> n, out |-> out, failed |-> failed]>>]
<1>3. frame' = [frame EXCEPT ![w] = g] BY <1>2 DEF Advance
<1>4. g \in TypedFrame
  <2>1. frame'[w] = g BY <1>3 DEF Typed
  <2> QED BY <1>1, <2>1 DEF Typed
<1>5. n \in Released BY DEF Report, Pledge
<1>6. g.roots = {} /\ g.todo = {} /\ g.hop = NoHop /\ g.pc = "pop"
      /\ \A i \in DOMAIN g.queue : g.queue[i].node = n
  BY DEF IdleFrame
<1>7. frame[w].pc # "log" BY DEF Report, At
<1> HIDE DEF g
<1>8. g \in KnownFrame(Released, Settled, NodeFailed)
  BY <1>4, <1>5, <1>6 DEF KnownFrame, Behind
<1> QED BY <1>3, <1>6, <1>7, <1>8, QuietPledge DEF Report, topology

LEMMA PopPledge ==
  ASSUME Typed, Pledge, NEW w \in Worker, Pop(w) PROVE Pledge' /\ Unmoved
<1> DEFINE f == frame[w]
           g == frame'[w]
           k == Len(f.queue)
<1>1. f \in KnownFrame(Released, Settled, NodeFailed) /\ f \in TypedFrame BY KnownCall, CallFrame
<1>2. g \in TypedFrame BY PopTyped DEF Typed
<1>3. frame' = [frame EXCEPT ![w] = g] /\ f.pc = "pop" BY DEF Pop, At, Typed
<1>4. f.queue \in Seq(Item) /\ k \in Nat /\ k > 0 /\ DOMAIN f.queue = 1..k
  BY <1>1, FrameFields DEF Pop
<1>5. /\ g.queue = SubSeq(f.queue, 1, k - 1) /\ g.roots = f.roots
      /\ g.todo = f.todo /\ g.hop = f.hop
      /\ g.pc \in {"pop", "mark"} /\ (g.pc = "mark" => g.node = f.queue[k].node)
  BY <1>1 DEF Pop, At, Typed, TypedFrame, Frame
<1> HIDE DEF f, g
<1>6. DOMAIN g.queue = 1..(k - 1) /\ \A i \in 1..(k - 1) : g.queue[i] = f.queue[i]
  BY <1>4, <1>5
<1> HIDE DEF k
<1>7. \A i \in 1..k : f.queue[i].node \in Released BY <1>1, <1>4 DEF KnownFrame
<1>8. \A i \in DOMAIN g.queue : g.queue[i].node \in Released BY <1>4, <1>6, <1>7
<1>9. g.pc = "mark" => g.node \in Released BY <1>4, <1>5, <1>7
<1>10. g \in KnownFrame(Released, Settled, NodeFailed)
  BY <1>1, <1>2, <1>5, <1>8, <1>9 DEF KnownFrame, Behind
<1> QED BY <1>3, <1>5, <1>10, QuietPledge DEF Pop, topology, f, g

LEMMA RoutePledge ==
  ASSUME Typed, Pledge, NEW w \in Worker, Route(w) PROVE Pledge' /\ Unmoved
<1> DEFINE f == frame[w]
           g == frame'[w]
<1>1. Typed' BY RouteTyped
<1>2. f \in KnownFrame(Released, Settled, NodeFailed) /\ f \in TypedFrame BY KnownCall, CallFrame
<1>3. NextHops(f) \subseteq f.todo BY DEF NextHops
<1>4. /\ frame' = [frame EXCEPT ![w] = g] /\ f.pc = "route" /\ g.pc = "deliver"
      /\ g.roots = f.roots /\ g.todo \subseteq f.todo /\ g.hop \in f.todo
      /\ g.queue = f.queue /\ g.op = f.op /\ g.node = f.node /\ g.failed = f.failed
  BY <1>2, <1>3 DEF Route, At, Typed, TypedFrame, Frame
<1>5. f.roots \subseteq InitNode /\ f.op = "advance" BY <1>2, <1>4 DEF KnownFrame
<1>6. UNCHANGED <<nodes, nodeStatus, log>> BY DEF Route, topology
<1> HIDE DEF f, g
<1> QED BY <1>1, <1>4, <1>5, <1>6, KeepingPledge DEF f, g, Behind

LEMMA DeliverPledge ==
  ASSUME Typed, Pledge, NEW w \in Worker, Deliver(w) PROVE Pledge' /\ Unmoved
<1> DEFINE f == frame[w]
           g == frame'[w]
<1>1. Typed' BY DeliverTyped
<1>2. f \in KnownFrame(Released, Settled, NodeFailed) /\ f \in TypedFrame BY KnownCall, CallFrame
<1>3. UNCHANGED <<nodes, nodeStatus, log>> /\ f.pc = "deliver" BY DEF Deliver, topology, At
<1>4. CASE Return(w) BY <1>3, <1>4, ReturnPledge
<1>5. CASE ~ Return(w)
  <2>1. f.op = "advance" /\ f.hop \in Hop BY <1>2, <1>3 DEF KnownFrame, TypedFrame
  <2>0. frame' = [frame EXCEPT ![w] =
                     [f EXCEPT !.any = TRUE, !.target = To[f.hop.edge], !.pc = "check"]]
    BY <1>5, <2>1 DEF Deliver
  <2>2. /\ frame' = [frame EXCEPT ![w] = g] /\ g.pc = "check" /\ g.target = To[f.hop.edge]
        /\ g.roots = f.roots /\ g.todo = f.todo /\ g.hop = f.hop
        /\ g.queue = f.queue /\ g.op = f.op /\ g.node = f.node /\ g.failed = f.failed
    BY <1>2, <2>0 DEF Typed, TypedFrame, Frame
  <2>3. NoHop \notin Hop BY GraphAssumption DEF NoHop, Hop, Fresh
  <2>4. f.roots \subseteq InitNode /\ To[f.hop.edge] \in InitNode
    BY <1>2, <2>1, <2>3, GraphAssumption DEF KnownFrame
  <2>5. g.target \in InitNode BY <2>2, <2>4
  <2>6. frame' = [frame EXCEPT ![w] = g] /\ g.pc = "check" BY <2>2
  <2>7. /\ g.roots \subseteq InitNode /\ g.todo = f.todo /\ g.hop = f.hop
        /\ g.queue = f.queue /\ g.op = f.op /\ g.node = f.node /\ g.failed = f.failed
    BY <2>2, <2>4
  <2> HIDE DEF f, g
  <2> QED BY <1>1, <1>3, <2>5, <2>6, <2>7, KeepingPledge DEF f, g, Behind
<1> QED BY <1>4, <1>5

LEMMA RoutedPledge ==
  ASSUME Typed, Pledge, NEW w \in Worker, Routed(w) PROVE Pledge' /\ Unmoved
<1> DEFINE f == frame[w]
           g == frame'[w]
<1>1. Typed' BY RoutedTyped
<1>2. f \in KnownFrame(Released, Settled, NodeFailed) /\ f \in TypedFrame BY KnownCall, CallFrame
<1>3. f.op = "advance" /\ f.pc = "route" BY <1>2 DEF Routed, At, KnownFrame
<1>4. AfterRouting(f) \in {"failgraph", "pop"}
      /\ (AfterRouting(f) = "failgraph" => NodeFailed # {})
  BY <1>2, <1>3 DEF AfterRouting, Unhandled, KnownFrame, Behind
<1>5. /\ frame' = [frame EXCEPT ![w] = g] /\ g.pc = AfterRouting(f)
      /\ g.roots = f.roots /\ g.todo = f.todo /\ g.hop = f.hop
      /\ g.queue = f.queue /\ g.op = f.op /\ g.node = f.node /\ g.failed = f.failed
  BY <1>2 DEF Routed, Goto, Typed, TypedFrame, Frame
<1>6. f.roots \subseteq InitNode BY <1>2 DEF KnownFrame
<1>7. UNCHANGED <<nodes, nodeStatus, log>> BY DEF Routed, topology
<1> HIDE DEF f, g
<1> QED BY <1>1, <1>3, <1>4, <1>5, <1>6, <1>7, KeepingPledge DEF f, g, Behind

LEMMA FailGraphPledge ==
  ASSUME Typed, Pledge, NEW w \in Worker, FailGraph(w) PROVE Pledge' /\ Unmoved
<1> DEFINE f == frame[w]
           g == frame'[w]
<1>1. Typed' BY FailGraphTyped
<1>2. f \in KnownFrame(Released, Settled, NodeFailed) /\ f \in TypedFrame BY KnownCall, CallFrame
<1>3. /\ frame' = [frame EXCEPT ![w] = g] /\ f.pc = "failgraph" /\ g.pc = "failevent"
      /\ g.roots = f.roots /\ g.todo = f.todo /\ g.hop = f.hop
      /\ g.queue = f.queue /\ g.op = f.op /\ g.node = f.node /\ g.failed = f.failed
  BY <1>2 DEF FailGraph, Goto, At, Typed, TypedFrame, Frame
<1>4. f.roots \subseteq InitNode /\ NodeFailed # {} BY <1>2, <1>3 DEF KnownFrame
<1>5. UNCHANGED <<nodes, nodeStatus, log>> BY DEF FailGraph, topology
<1> HIDE DEF f, g
<1> QED BY <1>1, <1>3, <1>4, <1>5, KeepingPledge DEF f, g, Behind

\* The completion test counts complete nodes, each of which has settled.
LEMMA FinishPledge ==
  ASSUME Typed, Pledge, NEW w \in Worker, Finish(w) \/ CompleteGraph(w)
  PROVE  Pledge' /\ Unmoved
<1> DEFINE f == frame[w]
           g == frame'[w]
<1>1. Typed' BY FinishTyped
<1>2. f \in KnownFrame(Released, Settled, NodeFailed) /\ f \in TypedFrame BY KnownCall, CallFrame
<1>3. UNCHANGED <<nodes, nodeStatus, log>> BY DEF Finish, CompleteGraph, topology
<1>4. f.pc \in {"pop", "done"} BY DEF Finish, CompleteGraph, At
<1>5. CASE Return(w) BY <1>3, <1>4, <1>5, ReturnPledge
<1>6. CASE ~ Return(w)
  <2>1. AllComplete => Settled = InitNode
    BY InGraph DEF AllComplete, Pledge, IsTerminal
  <2>2. Settled = InitNode \/ Promise!Rootless
    BY <1>2, <1>6, <2>1 DEF Finish, CompleteGraph, At, KnownFrame
  <2>3. /\ frame' = [frame EXCEPT ![w] = g] /\ g.pc \in {"done", "doneevent"}
        /\ g.roots = f.roots /\ g.todo = f.todo /\ g.hop = f.hop
        /\ g.queue = f.queue /\ g.op = f.op /\ g.node = f.node /\ g.failed = f.failed
    BY <1>2, <1>6 DEF Finish, CompleteGraph, Goto, Typed, TypedFrame, Frame
  <2>4. f.roots \subseteq InitNode BY <1>2 DEF KnownFrame
  <2> HIDE DEF f, g
  <2> QED BY <1>1, <1>3, <1>4, <2>2, <2>3, <2>4, KeepingPledge DEF f, g, Behind
<1> QED BY <1>5, <1>6

\* Where a call goes on after check_and_ready keeps what it holds.
LEMMA ResumeKnows ==
  ASSUME NEW R, NEW S, NEW F, NEW f \in KnownFrame(R, S, F), f.pc \in Behind
  PROVE  Resume(f) \in KnownFrame(R, S, F) /\ Resume(f).pc \in {"idle", "seed", "route"}
<1> DEFINE g == Resume(f)
<1>1. f \in TypedFrame /\ g \in TypedFrame BY ResumeType DEF KnownFrame
<1>2. CASE f.op \notin {"advance", "start"}
  <2>1. g = IdleFrame BY <1>2 DEF Resume
  <2>2. IdleFrame.pc = "idle" BY DEF IdleFrame
  <2>3. IdleFrame \in KnownFrame(R, S, F) BY IdleKnows
  <2> HIDE DEF g
  <2>4. g.pc = "idle" BY <2>1, <2>2
  <2>5. g \in KnownFrame(R, S, F) BY <2>1, <2>3
  <2> QED BY <2>4, <2>5 DEF g
<1>3. CASE f.op \in {"advance", "start"}
  <2>1. /\ g.pc = IF f.op = "advance" THEN "route" ELSE "seed"
        /\ g.roots = f.roots /\ g.todo = f.todo /\ g.hop = f.hop
        /\ g.queue = f.queue /\ g.op = f.op /\ g.node = f.node /\ g.failed = f.failed
    BY <1>1, <1>3 DEF Resume, TypedFrame, Frame
  <2> HIDE DEF g
  <2>2. g \in KnownFrame(R, S, F) BY <1>1, <1>3, <2>1 DEF KnownFrame, Behind
  <2> QED BY <2>1, <2>2 DEF g
<1> QED BY <1>2, <1>3

LEMMA CheckPledge ==
  ASSUME Typed, Pledge, NEW w \in Worker, Check(w) \/ NotEnabled(w)
  PROVE  Pledge' /\ Unmoved
<1> DEFINE f == frame[w]
           g == frame'[w]
<1>1. Typed' BY CheckTyped
<1>2. f \in KnownFrame(Released, Settled, NodeFailed) /\ f \in TypedFrame BY KnownCall, CallFrame
<1>3. UNCHANGED <<nodes, nodeStatus, log>> BY DEF Check, NotEnabled, topology
<1>4. f.pc \in {"check", "enable"} /\ f.pc \in Behind BY DEF Check, NotEnabled, At, Behind
<1>5. CASE frame' = [frame EXCEPT ![w] = Resume(f)]
  BY <1>2, <1>3, <1>4, <1>5, ResumeKnows, QuietPledge
<1>6. CASE frame' = [frame EXCEPT ![w] = [f EXCEPT !.pc = "enable"]]
  <2>1. /\ frame' = [frame EXCEPT ![w] = g] /\ g.pc = "enable" /\ g.target = f.target
        /\ g.roots = f.roots /\ g.todo = f.todo /\ g.hop = f.hop
        /\ g.queue = f.queue /\ g.op = f.op /\ g.node = f.node /\ g.failed = f.failed
    BY <1>2, <1>6 DEF Typed, TypedFrame, Frame
  <2>2. f.roots \subseteq InitNode /\ f.target \in InitNode BY <1>2, <1>4 DEF KnownFrame
  <2> HIDE DEF f, g
  <2> QED BY <1>1, <1>3, <1>4, <2>1, <2>2, KeepingPledge DEF f, g, Behind
<1> QED BY <1>5, <1>6 DEF Check, NotEnabled

\* A node is released when its row leaves pending; the predecessors have settled then.
LEMMA ReleaseStep ==
  ASSUME Typed, Pledge, UNCHANGED <<nodes, log>>, NEW n \in InitNode,
         NEW s \in {"ready", "running"}, SetNode(n, s, {}), Sources(n) \subseteq Answered,
         NEW w \in Worker, NEW g \in KnownFrame(Released \cup {n}, Settled, NodeFailed),
         frame' = [frame EXCEPT ![w] = g], frame[w].pc # "log", g.pc # "log"
  PROVE  Pledge' /\ Promised
<1>1. nodes = InitNode /\ Events' = Events BY DEF Pledge, Events
<1>2. Released' = Released \cup {n} BY <1>1 DEF Released, SetNode, Typed, TypeOK
<1>3. Settled' = Settled /\ FailedOnce' = FailedOnce /\ NodeFailed' = NodeFailed
  BY <1>1, SettledSame
<1>4. Outcome' = Outcome BY <1>1 DEF Outcome
<1>5. \A m \in InitNode : IsTerminal(nodeStatus'[m]) => IsTerminal(nodeStatus[m])
  BY GraphAssumption DEF SetNode, IsTerminal, Typed, TypeOK
<1>6. Pledge' BY <1>1, <1>2, <1>3, <1>5, PledgeStep DEF Pledge
<1>7. Promise!Preds(n) \subseteq Settled
  <2>1. Promise!Preds(n) = Sources(n) BY DEF Promise!Preds, Sources
  <2>2. Sources(n) \subseteq InitNode BY GraphAssumption DEF Sources
  <2>3. Answered \cap nodes \subseteq Settled BY DEF Answered, Settled
  <2> QED BY <1>1, <2>1, <2>2, <2>3
<1>8. n \in Released => Unmoved BY <1>2, <1>3, <1>4 DEF Unmoved
<1>9. n \notin Released => Promise!Release(n)
  BY <1>2, <1>3, <1>4, <1>7 DEF Promise!Release, Released
<1> QED BY <1>6, <1>8, <1>9 DEF Promised, Promise!Next

LEMMA SeedPledge ==
  ASSUME Typed, Causality, Pledge, NEW w \in Worker, Seed(w) PROVE Pledge' /\ Promised
<1> DEFINE f == frame[w]
           g == frame'[w]
<1>1. f \in KnownFrame(Released, Settled, NodeFailed) /\ f \in TypedFrame
      /\ f \in CausalFrame(Answered)
  BY KnownCall, CallFrame, CausalCall
<1>2. PICK n \in f.roots :
         /\ SetNode(n, "ready", {})
         /\ frame' = [frame EXCEPT ![w].pc = "ready", ![w].target = n,
                                   ![w].roots = @ \ {n}]
  BY DEF Seed
<1>3. n \in InitNode /\ Sources(n) \subseteq Answered
  BY <1>1, <1>2 DEF KnownFrame, CausalFrame
<1>4. g \in TypedFrame BY SeedTyped DEF Typed
<1>5. /\ frame' = [frame EXCEPT ![w] = g] /\ g.pc = "ready" /\ g.target = n
      /\ g.roots = f.roots \ {n} /\ g.todo = f.todo /\ g.hop = f.hop
      /\ g.queue = f.queue /\ g.op = f.op /\ g.node = f.node /\ g.failed = f.failed
  BY <1>1, <1>2 DEF Typed, TypedFrame, Frame
<1>6. f.pc = "seed" BY DEF Seed, At
<1> HIDE DEF f, g
<1>7. f.op # "advance" BY <1>1, <1>6 DEF TypedFrame
<1>8. g \in KnownFrame(Released \cup {n}, Settled, NodeFailed)
  BY <1>1, <1>3, <1>4, <1>5, <1>6, <1>7 DEF KnownFrame, Behind
<1> QED BY <1>2, <1>3, <1>5, <1>6, <1>8, ReleaseStep DEF Seed, topology, f, g

LEMMA EnablePledge ==
  ASSUME Typed, Causality, Pledge, NEW w \in Worker, EnableTask(w) \/ EnableGather(w)
  PROVE  Pledge' /\ Promised
<1> DEFINE f == frame[w]
           g == frame'[w]
           n == f.target
<1>1. f \in KnownFrame(Released, Settled, NodeFailed) /\ f \in TypedFrame BY KnownCall, CallFrame
<1>2. g \in TypedFrame BY EnableTyped DEF Typed
<1>3. f.pc = "enable" /\ f.pc \in Behind /\ UNCHANGED <<nodes, log>>
  BY DEF EnableTask, EnableGather, At, Behind, topology
<1>4. n \in InitNode /\ n \in Node BY <1>1, <1>3, GraphAssumption DEF KnownFrame
<1>5. Sources(n) \subseteq Answered BY <1>4, EnabledIsAnswered DEF EnableTask, EnableGather
<1>6. CASE EnableTask(w)
  <2>1. /\ frame' = [frame EXCEPT ![w] = g] /\ g.pc = "ready" /\ g.target = n
        /\ g.roots = f.roots /\ g.todo = f.todo /\ g.hop = f.hop
        /\ g.queue = f.queue /\ g.op = f.op /\ g.node = f.node /\ g.failed = f.failed
    BY <1>1, <1>6 DEF EnableTask, Goto, Typed, TypedFrame, Frame
  <2>2. SetNode(n, "ready", {}) BY <1>6 DEF EnableTask
  <2> HIDE DEF f, g, n
  <2>3. g \in KnownFrame(Released \cup {n}, Settled, NodeFailed)
    BY <1>1, <1>2, <1>3, <1>4, <2>1 DEF KnownFrame, Behind
  <2> QED BY <1>3, <1>4, <1>5, <2>1, <2>2, <2>3, ReleaseStep DEF f
<1>7. CASE EnableGather(w)
  <2>1. PICK out : frame' = [frame EXCEPT ![w] = Enqueue(f, n, out)]
    BY <1>7 DEF EnableGather
  <2>2. SetNode(n, "running", {}) BY <1>7 DEF EnableGather
  <2> DEFINE r == Resume(f)
  <2>3. r \in KnownFrame(Released, Settled, NodeFailed) /\ r.pc \in {"idle", "seed", "route"}
    BY <1>1, <1>3, ResumeKnows
  <2>4. r \in TypedFrame BY <1>1, ResumeType
  <2>5. /\ frame' = [frame EXCEPT ![w] = g] /\ g.pc = r.pc
        /\ g.roots = r.roots /\ g.todo = r.todo /\ g.hop = r.hop
        /\ g.op = r.op /\ g.node = r.node /\ g.failed = r.failed
        /\ g.queue = r.queue
              \/ g.queue = Append(r.queue, [node |-> n, out |-> out, failed |-> FALSE])
    BY <2>1, <2>4 DEF Enqueue, Typed, TypedFrame, Frame
  <2>6. r.queue \in Seq(Item) BY <2>4, FrameFields
  <2> HIDE DEF f, g, n, r
  <2>7. \A i \in DOMAIN g.queue : g.queue[i].node \in Released \cup {n}
    <3>1. \A i \in DOMAIN r.queue : r.queue[i].node \in Released BY <2>3 DEF KnownFrame
    <3>2. CASE g.queue = Append(r.queue, [node |-> n, out |-> out, failed |-> FALSE])
      <4>1. DOMAIN g.queue = 1..(Len(r.queue) + 1) /\ DOMAIN r.queue = 1..Len(r.queue)
            /\ Len(r.queue) \in Nat
        BY <3>2, <2>6
      <4>2. \A i \in DOMAIN r.queue : g.queue[i] = r.queue[i] BY <3>2, <2>6
      <4>3. g.queue[Len(r.queue) + 1].node = n BY <3>2, <2>6
      <4> QED BY <3>1, <4>1, <4>2, <4>3
    <3> QED BY <2>5, <3>1, <3>2
  <2>8. g \in KnownFrame(Released \cup {n}, Settled, NodeFailed)
    BY <1>2, <2>3, <2>5, <2>7 DEF KnownFrame, Behind
  <2> QED BY <1>3, <1>4, <1>5, <2>2, <2>3, <2>5, <2>8, ReleaseStep DEF f
<1> QED BY <1>6, <1>7

\* A call about to mark a node settles it.
LEMMA MarkPledge ==
  ASSUME Typed, Pledge, NEW w \in Worker, Mark(w) PROVE Pledge' /\ Promised
<1> DEFINE f == frame[w]
           g == frame'[w]
           n == f.node
<1>1. f \in KnownFrame(Released, Settled, NodeFailed) /\ f \in TypedFrame BY KnownCall, CallFrame
<1>2. g \in TypedFrame BY MarkTyped DEF Typed
<1>3. f.pc = "mark" /\ UNCHANGED <<nodes, log>> /\ Events' = Events
  BY DEF Mark, At, topology, Events
<1>4. f.op = "advance" /\ f.failed \in BOOLEAN BY <1>1, <1>3, FrameFields DEF TypedFrame
<1>5. n \in Released /\ n \in InitNode
  BY <1>1, <1>3, <1>4, InGraph DEF KnownFrame
<1>6. /\ frame' = [frame EXCEPT ![w] = g] /\ g.pc = "log"
      /\ g.roots = f.roots /\ g.todo = f.todo /\ g.hop = f.hop
      /\ g.queue = f.queue /\ g.op = f.op /\ g.node = n /\ g.failed = f.failed
  BY <1>1 DEF Mark, Goto, Typed, TypedFrame, Frame
<1>7. nodeStatus' = [nodeStatus EXCEPT ![n] = IF f.failed THEN "failed" ELSE "complete"]
  BY DEF Mark, SetNode
<1> HIDE DEF f, g, n
<1>8. Released' = Released
  BY <1>3, <1>5, <1>7, GraphAssumption DEF Released, Typed, TypeOK, Pledge
<1>9. \A u \in Worker : frame'[u] = IF u = w THEN g ELSE frame[u] BY <1>6 DEF Typed
<1>10. \A m : \A u \in Worker : InLog(u, m)' <=> InLog(u, m) \/ (u = w /\ m = n)
  BY <1>3, <1>6, <1>9 DEF InLog, At, f
<1>11. Settled' = Settled \cup {n}
  BY <1>3, <1>5, <1>10 DEF Settled, Pledge
<1>12. FailedOnce' \in {FailedOnce, FailedOnce \cup {n}}
  <2>1. \A m : \A u \in Worker : InLog(u, m) => u # w BY <1>3 DEF InLog, At, f
  <2>2. FailedOnce' = FailedOnce \cup (IF f.failed THEN {n} ELSE {})
    BY <1>3, <1>5, <1>6, <1>9, <1>10, <2>1 DEF FailedOnce, Pledge
  <2> QED BY <2>2
<1>13. NodeFailed' = NodeFailed /\ Outcome' = Outcome BY <1>3 DEF NodeFailed, Outcome
<1>14. g \in KnownFrame(Released, Settled, NodeFailed)
  BY <1>1, <1>2, <1>3, <1>5, <1>6 DEF KnownFrame, Behind
<1>15. Settled' \subseteq InitNode BY <1>5, <1>11, InGraph
<1>16. g \in KnownFrame(Released', Settled', NodeFailed')
  BY <1>8, <1>11, <1>13, <1>14, <1>15, KnownMonotone
<1>17. \A m \in InitNode : IsTerminal(nodeStatus'[m]) => m \in Settled'
  BY <1>5, <1>7, <1>11, GraphAssumption DEF Pledge, Typed, TypeOK
<1>18. Pledge'
  BY <1>3, <1>6, <1>8, <1>11, <1>13, <1>16, <1>17, PledgeStep DEF Pledge
<1>19. Promise!Settle(n)
  BY <1>5, <1>8, <1>11, <1>12, <1>13 DEF Promise!Settle, Released
<1> QED BY <1>5, <1>18, <1>19 DEF Promised, Promise!Next

\* What an appended event adds; events other than answers and NodeReady settle nothing.
LEMMA LogStep ==
  ASSUME Typed, Pledge, UNCHANGED <<nodes, nodeStatus>>, NEW e \in Event,
         log' = Append(log, e), e.type \notin {"NodeDone", "NodeFailed"},
         e.type = "NodeReady" => e.node \in Released,
         NEW w \in Worker, NEW g \in KnownFrame(Released, Settled, NodeFailed),
         frame' = [frame EXCEPT ![w] = g], frame[w].pc # "log", g.pc # "log"
  PROVE  /\ Pledge' /\ Released' = Released
         /\ Settled' = Settled /\ FailedOnce' = FailedOnce
         /\ Outcome' = Outcome \cup (CASE e.type = "GraphDone" -> {"done"}
                                       [] e.type = "GraphFailed" -> {"failed"}
                                       [] OTHER -> {})
<1>1. Events' = Events \cup {e} BY AppendKeeps
<1>2. Released' = Released BY DEF Released
<1>3. \A n \in nodes : \A a \in Answers(n) : a \in Events' <=> a \in Events
  BY <1>1 DEF Answers, Ev
<1>4. Settled' = Settled /\ FailedOnce' = FailedOnce /\ NodeFailed' = NodeFailed
  BY <1>3, SettledSame
<1>5. \A n \in InitNode : Ev("NodeReady", n) \in Events' => n \in Released
  BY <1>1 DEF Ev, Pledge
<1>6. Pledge' BY <1>2, <1>4, <1>5, PledgeStep DEF Pledge
<1>7. Outcome' = Outcome \cup (CASE e.type = "GraphDone" -> {"done"}
                                 [] e.type = "GraphFailed" -> {"failed"}
                                 [] OTHER -> {})
  <2>1. CASE e.type = "GraphDone" BY <1>1, <2>1 DEF Outcome
  <2>2. CASE e.type = "GraphFailed" BY <1>1, <2>2 DEF Outcome
  <2>3. CASE e.type \notin {"GraphDone", "GraphFailed"} BY <1>1, <2>3 DEF Outcome
  <2> QED BY <2>1, <2>2, <2>3
<1> QED BY <1>2, <1>4, <1>6, <1>7

LEMMA LogReadyPledge ==
  ASSUME Typed, Pledge, NEW w \in Worker, LogReady(w) PROVE Pledge' /\ Unmoved
<1> DEFINE f == frame[w]
           e == Ev("NodeReady", f.target)
<1>1. f \in KnownFrame(Released, Settled, NodeFailed) /\ f \in TypedFrame BY KnownCall, CallFrame
<1>2. f.pc = "ready" /\ f.pc \in Behind BY DEF LogReady, At, Behind
<1>3. e \in Event /\ e.type = "NodeReady" /\ e.node \in Released
  BY <1>1, <1>2, FrameFields DEF Ev, Event, EventType, KnownFrame
<1>4. Resume(f) \in KnownFrame(Released, Settled, NodeFailed) /\ Resume(f).pc # "log"
  BY <1>1, <1>2, ResumeKnows
<1>5. log' = Append(log, e) /\ UNCHANGED <<nodes, nodeStatus>>
      /\ frame' = [frame EXCEPT ![w] = Resume(f)]
  BY DEF LogReady, Persist, topology
<1> HIDE DEF e
<1>6. frame[w].pc # "log" BY <1>2
<1> QED BY <1>3, <1>4, <1>5, <1>6, LogStep DEF Unmoved

LEMMA LogOutcomePledge ==
  ASSUME Typed, Pledge, NEW w \in Worker, LogGraphFailed(w) \/ LogGraphDone(w)
  PROVE  Pledge' /\ Promised
<1> DEFINE f == frame[w]
<1>1. f \in KnownFrame(Released, Settled, NodeFailed) /\ f \in TypedFrame BY KnownCall, CallFrame
<1>2. frame' = [frame EXCEPT ![w] = IdleFrame] /\ UNCHANGED <<nodes, nodeStatus>>
      /\ f.pc # "log" /\ IdleFrame.pc # "log"
  BY DEF LogGraphFailed, LogGraphDone, Return, topology, At, IdleFrame
<1>3. IdleFrame \in KnownFrame(Released, Settled, NodeFailed) BY IdleKnows
<1>4. CASE LogGraphFailed(w)
  <2> DEFINE e == Ev("GraphFailed", f.node)
  <2>1. e \in Event /\ e.type = "GraphFailed"
    BY <1>1, FrameFields DEF Ev, Event, EventType
  <2>2. log' = Append(log, e) BY <1>4 DEF LogGraphFailed, Persist
  <2> HIDE DEF e, f
  <2>3. Pledge' /\ UNCHANGED <<Released, Settled, FailedOnce>> /\ Outcome' = Outcome \cup {"failed"}
    BY <1>2, <1>3, <2>1, <2>2, LogStep DEF f
  <2>4. FailedOnce # {} BY <1>1, <1>4, InGraph DEF LogGraphFailed, At, KnownFrame, f
  <2>5. Promise!ReportFailed BY <2>3, <2>4 DEF Promise!ReportFailed, Released
  <2> QED BY <2>3, <2>5 DEF Promised, Promise!Next
<1>5. CASE LogGraphDone(w)
  <2> DEFINE e == Ev("GraphDone", NoNode)
  <2>1. e \in Event /\ e.type = "GraphDone" BY DEF Ev, Event, EventType
  <2>2. log' = Append(log, e) BY <1>5 DEF LogGraphDone, Persist
  <2> HIDE DEF e, f
  <2>3. Pledge' /\ UNCHANGED <<Released, Settled, FailedOnce>> /\ Outcome' = Outcome \cup {"done"}
    BY <1>2, <1>3, <2>1, <2>2, LogStep DEF f
  <2>4. Settled = InitNode \/ Promise!Rootless
    BY <1>1, <1>5 DEF LogGraphDone, At, KnownFrame, f
  <2>5. Promise!ReportDone BY <2>3, <2>4 DEF Promise!ReportDone, Released
  <2> QED BY <2>3, <2>5 DEF Promised, Promise!Next
<1> QED BY <1>4, <1>5

\* A node that was settled by its row is settled by its event from then on.
LEMMA LogNodePledge ==
  ASSUME Typed, Causality, Pledge, NEW w \in Worker, LogNode(w) PROVE Pledge' /\ Unmoved
<1> DEFINE f == frame[w]
           g == frame'[w]
           n == f.node
           e == Ev(IF f.failed THEN "NodeFailed" ELSE "NodeDone", n)
<1>1. f \in KnownFrame(Released, Settled, NodeFailed) /\ f \in TypedFrame BY KnownCall, CallFrame
<1>2. g \in TypedFrame BY LogNodeTyped DEF Typed
<1>3. f.pc = "log" /\ UNCHANGED <<nodes, nodeStatus>> BY DEF LogNode, At, topology
<1>4. f.op = "advance" /\ f.failed \in BOOLEAN BY <1>1, <1>3, FrameFields DEF TypedFrame
<1>5. n \in Released /\ n \in InitNode /\ n \in nodes
  BY <1>1, <1>3, <1>4, InGraph DEF KnownFrame, Pledge
<1>6. /\ frame' = [frame EXCEPT ![w] = g] /\ g.pc = "route"
      /\ g.roots = f.roots /\ g.todo \subseteq [tok : f.out, edge : Outbound(n)] /\ g.hop = NoHop
      /\ g.queue = f.queue /\ g.op = f.op /\ g.node = n /\ g.failed = f.failed
  BY <1>1 DEF LogNode, Typed, TypedFrame, Frame
<1>7. e \in Event /\ e.node = n /\ e.type = IF f.failed THEN "NodeFailed" ELSE "NodeDone"
  BY <1>5, GraphAssumption DEF Ev, Event, EventType
<1>8. log' = Append(log, e) BY DEF LogNode, Persist
<1>9. Events' = Events \cup {e} BY <1>7, <1>8, AppendKeeps
<1>10. Released' = Released BY <1>3 DEF Released
<1>11. e = Ev(e.type, n) BY <1>7 DEF Ev
<1> HIDE DEF f, g, n, e
<1>12. \A u \in Worker : frame'[u] = IF u = w THEN g ELSE frame[u] BY <1>6 DEF Typed
<1>13. \A m : \A u \in Worker : InLog(u, m) <=> InLog(u, m)' \/ (u = w /\ m = n)
  BY <1>3, <1>6, <1>12 DEF InLog, At, f, n
<1>14. \A m : (\E a \in Events' : a \in Answers(m)) <=>
                (\E a \in Events : a \in Answers(m)) \/ m = n
  BY <1>4, <1>7, <1>9, <1>11 DEF Answers, Ev
<1>15. Settled' = Settled BY <1>3, <1>13, <1>14 DEF Settled
<1>16. \A m : Ev("NodeFailed", m) \in Events' <=>
                Ev("NodeFailed", m) \in Events \/ (m = n /\ f.failed)
  BY <1>4, <1>7, <1>9, <1>11 DEF Ev
<1>17. \A m : \A u \in Worker : InLog(u, m)' => u # w BY <1>6, <1>12 DEF InLog, At
<1>18. FailedOnce' = FailedOnce
  BY <1>3, <1>5, <1>12, <1>13, <1>16, <1>17 DEF FailedOnce, f
<1>19. NodeFailed' = NodeFailed \cup (IF f.failed THEN {n} ELSE {})
  BY <1>3, <1>5, <1>16 DEF NodeFailed
<1>20. Outcome' = Outcome BY <1>4, <1>7, <1>9 DEF Outcome
<1>21. g \in KnownFrame(Released', Settled', NodeFailed')
  <2>1. \A h \in g.todo : h.edge \in InitEdge BY <1>6 DEF Causality, Outbound
  <2>2. f \in KnownFrame(Released', Settled', NodeFailed')
    BY <1>1, <1>10, <1>15, <1>19, InGraph, KnownMonotone
  <2>3. f.failed => n \in NodeFailed' BY <1>19
  <2> QED BY <1>2, <1>3, <1>4, <1>5, <1>6, <1>10, <2>1, <2>2, <2>3 DEF KnownFrame, Behind
<1>22. \A m \in InitNode : Ev("NodeReady", m) \in Events' => m \in Released'
  BY <1>4, <1>7, <1>9, <1>10 DEF Ev, Pledge
<1>23. Pledge'
  BY <1>3, <1>6, <1>10, <1>15, <1>19, <1>21, <1>22, PledgeStep DEF Pledge
<1> QED BY <1>10, <1>15, <1>18, <1>20, <1>23 DEF Unmoved

LEMMA InitPledge == Init => Pledge /\ Promise!Init
<1> SUFFICES ASSUME Init PROVE Pledge /\ Promise!Init OBVIOUS
<1>1. nodes = InitNode /\ \A n \in InitNode : nodeStatus[n] = "pending"
  BY GraphAssumption DEF Init
<1>2. \A w \in Worker : frame[w] = IdleFrame BY DEF Init
<1>3. \A w \in Worker : frame[w].pc = "idle" BY <1>2 DEF IdleFrame
<1>4. Events = {} BY DEF Init, Events
<1>5. frame \in [Worker -> KnownFrame(Released, Settled, NodeFailed)]
  BY IdleKnows DEF Init
<1>6. Pledge BY <1>1, <1>4, <1>5 DEF Pledge, IsTerminal
<1>7. Promise!Init
  BY <1>1, <1>3, <1>4 DEF Promise!Init, Settled, FailedOnce, Outcome, InLog, At
<1> QED BY <1>6, <1>7

LEMMA StillPledge ==
  ASSUME Pledge, UNCHANGED <<nodes, nodeStatus, log, frame>> PROVE Pledge' /\ Unmoved
<1>1. Events' = Events BY DEF Events
<1>2. Released' = Released BY DEF Released
<1>3. Settled' = Settled BY <1>1 DEF Settled, InLog, At
<1>4. NodeFailed' = NodeFailed BY <1>1 DEF NodeFailed
<1>5. FailedOnce' = FailedOnce BY <1>1 DEF FailedOnce, InLog, At
<1>6. Outcome' = Outcome BY <1>1 DEF Outcome
<1>7. Pledge' BY <1>1, <1>2, <1>3, <1>4 DEF Pledge
<1> QED BY <1>2, <1>3, <1>5, <1>6, <1>7 DEF Unmoved

LEMMA StepPledge ==
  ASSUME Typed, Causality, Pledge, NEW w \in Worker, Step(w) PROVE Pledge' /\ Promised
<1>1. Pledge' /\ (Promised \/ Unmoved)
  BY ReadRootsPledge, SeedPledge, SeededPledge, PopPledge, MarkPledge, LogNodePledge,
     RoutePledge, DeliverPledge, RoutedPledge, FailGraphPledge, FinishPledge,
     CheckPledge, EnablePledge, LogReadyPledge, LogOutcomePledge DEF Step
<1> QED BY <1>1 DEF Promised

LEMMA NextPledge ==
  Typed /\ Causality /\ Pledge /\ [Next]_vars => Pledge' /\ [Promise!Next]_(Promise!vars)
<1> SUFFICES ASSUME Typed, Causality, Pledge, [Next]_vars
             PROVE  Pledge' /\ [Promise!Next]_(Promise!vars)
  OBVIOUS
<1>1. Pledge' /\ Promised
  <2>1. CASE Cancel \/ UNCHANGED vars
    BY <2>1, StillPledge DEF Cancel, vars, topology, Promised
  <2>2. CASE \E w \in Worker : Execute(w)
    <3>1. PICK w \in Worker : Execute(w) BY <2>2
    <3>2. CASE Start(w) BY <3>2, StartPledge DEF Promised
    <3>3. CASE \E n \in Node : Report(w, n) BY <3>3, ReportPledge DEF Promised
    <3>4. CASE Step(w) BY <3>4, StepPledge
    <3> QED BY <3>1, <3>2, <3>3, <3>4 DEF Execute
  <2> QED BY <2>1, <2>2 DEF Next
<1>2. Unmoved => UNCHANGED Promise!vars
  BY DEF Unmoved, Promise!vars, Released
<1> QED BY <1>1, <1>2 DEF Promised

LEMMA AlwaysCausal == Spec => []Causality
<1>1. Init => Causality BY InitCausal
<1>2. Typed /\ Causality /\ [Next]_vars => Causality' BY NextCausal
<1> QED BY <1>1, <1>2, AlwaysTyped, PTL DEF Spec

\* Whatever calls interleave, retry or fail, callers see the promise of
\* Dataflow: advance_graph and check_and_ready release a node only when all its
\* predecessors have settled, settle only released nodes, and report an outcome
\* only when it is true.
THEOREM PromiseKept == Spec => KeepsPromise
<1>1. Init => Pledge /\ Promise!Init BY InitPledge
<1>2. Typed /\ Causality /\ Pledge /\ [Next]_vars
        => Pledge' /\ [Promise!Next]_(Promise!vars)
  BY NextPledge
<1> QED BY <1>1, <1>2, AlwaysTyped, AlwaysCausal, PTL DEF Spec, KeepsPromise, Promise!Spec
=============================================================================
