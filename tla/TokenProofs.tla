----------------------------- MODULE TokenProofs -----------------------------
(***************************************************************************)
(* No enablement is forgotten while a graph grows, and no token is lost    *)
(* between nodes that are answered once, for every graph and any number of *)
(* calls in progress.  Calls that do not overlap answer each node once.    *)
(* An edge that is added while the graph runs gets its tokens as well.     *)
(***************************************************************************)
EXTENDS LatticeGrowth, LatticeProofs

(***************************************************************************)
(* Types while the graph grows.                                            *)
(***************************************************************************)
LEMMA AddTyped ==
  ASSUME Typed, NEW w \in Worker,
         (\E n \in Node : AddNode(w, n)) \/ (\E e \in Edge : AddEdge(w, e))
  PROVE  Typed'
<1>1. CASE \E n \in Node : AddNode(w, n)
  <2>1. PICK n \in Node : AddNode(w, n) BY <1>1
  <2> DEFINE g == [IdleFrame EXCEPT !.pc = "status", !.op = "node", !.target = n]
  <2>2. g \in TypedFrame BY IdleFrameType DEF TypedFrame, Frame, Pc, Op, IdleFrame
  <2>3. frame' \in [Worker -> TypedFrame] BY <2>1, <2>2, FrameUpdate DEF AddNode
  <2> QED BY <2>1, <2>3, FramesAreFrames DEF AddNode, Typed, TypeOK
<1>2. CASE \E e \in Edge : AddEdge(w, e)
  <2>1. PICK e \in Edge : AddEdge(w, e) BY <1>2
  <2> DEFINE h == [NoHop EXCEPT !.edge = e]
             g == [IdleFrame EXCEPT !.pc = "status", !.op = "edge", !.target = To[e],
                                    !.node = From[e], !.hop = h]
  <2>2. h \in Hop BY FreshType DEF NoHop, Hop, Color
  <2>3. From[e] \in Node /\ To[e] \in Node BY GraphAssumption
  <2>4. g \in TypedFrame
    <3> HIDE DEF h
    <3> QED BY <2>2, <2>3, IdleFrameType DEF TypedFrame, Frame, Pc, Op, IdleFrame
  <2>5. frame' \in [Worker -> TypedFrame] BY <2>1, <2>4, FrameUpdate DEF AddEdge
  <2> QED BY <2>1, <2>5, FramesAreFrames DEF AddEdge, Typed, TypeOK
<1> QED BY <1>1, <1>2

LEMMA RetroactiveType ==
  ASSUME TypeOK, NEW n \in Node, NEW e \in Edge PROVE Retroactive(n, e) \in SUBSET Hop
<1>1. output[n] \subseteq Token BY DEF TypeOK
<1> QED BY <1>1 DEF Retroactive, Hop

LEMMA ReadTyped ==
  ASSUME Typed, NEW w \in Worker, ReadGraphStatus(w) \/ ReadSource(w) PROVE Typed'
<1> DEFINE f == frame[w]
<1>1. f \in TypedFrame BY CallFrame
<1>2. CASE ReadGraphStatus(w)
  <2>1. f.pc = "status" BY <1>2 DEF ReadGraphStatus, At
  <2>2. f.target \in Node /\ f.op \in {"node", "edge"} BY <1>1, <2>1 DEF TypedFrame
  <2>3. f.op = "node" => [f EXCEPT !.pc = "check"] \in TypedFrame
    <3> HIDE DEF f
    <3> QED BY <1>1, <2>2 DEF TypedFrame, Frame, Pc
  <2>4. f.op = "edge" => [f EXCEPT !.pc = "source"] \in TypedFrame
    <3> HIDE DEF f
    <3> QED BY <1>1, <2>1, <2>2 DEF TypedFrame, Frame, Pc
  <2>5. frame' \in [Worker -> TypedFrame]
    BY <1>2, <2>2, <2>3, <2>4, IdleFrameType, FrameUpdate DEF ReadGraphStatus
  <2> QED BY <1>2, <2>5, FramesAreFrames DEF ReadGraphStatus, Typed, TypeOK, topology
<1>3. CASE ReadSource(w)
  <2> DEFINE t == Retroactive(f.node, f.hop.edge)
             g == [f EXCEPT !.pc = "route", !.hop = NoHop, !.todo = t]
  <2>1. f.pc = "source" BY <1>3 DEF ReadSource, At
  <2>2. f.op = "edge" /\ f.hop \in Hop /\ f.node \in Node BY <1>1, <2>1 DEF TypedFrame
  <2>3. f.hop.edge \in Edge BY <2>2 DEF Hop
  <2>4. t \in SUBSET Hop BY <2>2, <2>3, RetroactiveType DEF Typed
  <2>5. g \in TypedFrame
    <3> HIDE DEF f, t
    <3> QED BY <1>1, <2>2, <2>4 DEF TypedFrame, Frame, Pc
  <2>6. frame' \in [Worker -> TypedFrame]
    BY <1>3, <2>5, IdleFrameType, FrameUpdate DEF ReadSource
  <2> QED BY <1>3, <2>6, FramesAreFrames DEF ReadSource, Typed, TypeOK, topology
<1> QED BY <1>2, <1>3

LEMMA GrowNextTyped == Typed /\ [GrowNext]_vars => Typed'
  BY NextTyped, AddTyped, ReadTyped DEF GrowNext, Grow

LEMMA AlwaysTypedGrowing == GrowSpec => []Typed
<1>1. Init => Typed BY InitTyped
<1> QED BY <1>1, GrowNextTyped, PTL DEF GrowSpec
-----------------------------------------------------------------------------
(***************************************************************************)
(* Where tokens and the calls that deliver them are.  The rows of an edge  *)
(* are numbered from 1 without a gap, so the position a call has read is   *)
(* at most one past the last: if it is taken, some call has taken it since.*)
(***************************************************************************)
PlacedFrame ==
    {f \in TypedFrame :
        /\ \A h \in f.todo \cup ({f.hop} \ {NoHop}) :
              h.edge \in edges /\ (f.op = "edge" => To[h.edge] = f.target)
        /\ f.pc = "deliver" => f.seq <= CountOn(f.hop.edge) + 1}

Placed ==
    /\ \A e \in edges : From[e] \in nodes /\ To[e] \in nodes
    /\ \A r \in tokens : r.edge \in edges /\ r.seq <= CountOn(r.edge)
    /\ frame \in [Worker -> PlacedFrame]

\* Call w will count the tokens of node n again: it is in check_and_ready, or it is an
\* add_edge that has yet to come there and that no taken position stops on its way.
Watching(w, n) ==
    /\ frame[w].target = n
    /\ \/ frame[w].pc \in {"check", "enable"}
       \/ frame[w].op = "edge" /\ frame[w].pc = "route"
       \/ /\ frame[w].op = "edge" /\ frame[w].pc = "deliver"
          /\ ~ \E r \in tokens : r.edge = frame[w].hop.edge /\ r.seq = frame[w].seq

Watched ==
    \A n \in nodes : nodeStatus[n] = "pending" /\ Enabled(n) =>
        \E w \in Worker : Watching(w, n)

LEMMA PlacedCall == ASSUME Placed, NEW w \in Worker PROVE frame[w] \in PlacedFrame
  BY DEF Placed

\* A frame that drops what it held, or keeps it with its target, is placed as before.
LEMMA StillPlaced ==
  ASSUME NEW f \in PlacedFrame, NEW g \in TypedFrame, g.pc # "deliver",
         g.todo \subseteq f.todo, g.hop \in {f.hop, NoHop},
         g.op # "edge" \/ (g.op = f.op /\ g.target = f.target)
  PROVE  g \in PlacedFrame
  BY DEF PlacedFrame

\* What a statement that touches no edge and no token has to show.
LEMMA WatchStep ==
  ASSUME Typed, Placed, Watched, UNCHANGED <<nodes, edges, tokens>>,
         NEW w \in Worker, NEW g \in PlacedFrame, frame' = [frame EXCEPT ![w] = g],
         \A n \in nodes : nodeStatus'[n] = "pending" => nodeStatus[n] = "pending",
         \A n \in nodes : nodeStatus'[n] = "pending" /\ Enabled(n) /\ Watching(w, n)
                             => Watching(w, n)'
  PROVE  Placed' /\ Watched'
<1>1. \A e : CountOn(e)' = CountOn(e) BY DEF CountOn
<1>2. PlacedFrame' = PlacedFrame BY <1>1 DEF PlacedFrame
<1>3. Placed' BY <1>1, <1>2 DEF Placed
<1>4. \A n : Enabled(n)' <=> Enabled(n) BY DEF Enabled, Inbound, HasToken
<1>5. \A n : \A u \in Worker \ {w} : Watching(u, n)' <=> Watching(u, n)
  BY DEF Watching, Placed
<1>6. Watched'
  <2> SUFFICES ASSUME NEW n \in nodes, nodeStatus'[n] = "pending", Enabled(n)
               PROVE  \E u \in Worker : Watching(u, n)'
    BY <1>4 DEF Watched
  <2>1. PICK u \in Worker : Watching(u, n) BY DEF Watched
  <2>2. CASE u = w BY <2>1, <2>2
  <2>3. CASE u # w BY <1>5, <2>1, <2>3
  <2> QED BY <2>2, <2>3
<1> QED BY <1>3, <1>6

\* The same for a call that is not in check_and_ready and does not route.
LEMMA QuietWatch ==
  ASSUME Typed, Typed', Placed, Watched, UNCHANGED <<nodes, edges, tokens>>,
         NEW w \in Worker, frame' = [frame EXCEPT ![w] = frame'[w]],
         frame[w].pc \notin {"check", "enable", "deliver"},
         frame[w].pc = "route" => frame[w].op # "edge",
         frame'[w].pc # "deliver",
         frame'[w].todo \subseteq frame[w].todo, frame'[w].hop \in {frame[w].hop, NoHop},
         frame'[w].op # "edge" \/ (frame'[w].op = frame[w].op
                                    /\ frame'[w].target = frame[w].target),
         \A n \in nodes : nodeStatus'[n] = "pending" => nodeStatus[n] = "pending"
  PROVE  Placed' /\ Watched'
<1>1. frame'[w] \in TypedFrame BY DEF Typed
<1>2. frame'[w] \in PlacedFrame BY <1>1, PlacedCall, StillPlaced
<1>3. \A n : ~ Watching(w, n) BY DEF Watching
<1> QED BY <1>2, <1>3, WatchStep

LEMMA IdlePlaced == IdleFrame \in PlacedFrame
  BY IdleFrameType DEF PlacedFrame, IdleFrame

LEMMA InitWatch == Init => Placed /\ Watched
<1> SUFFICES ASSUME Init PROVE Placed /\ Watched OBVIOUS
<1>1. Placed BY IdlePlaced, GraphAssumption DEF Init, Placed
<1>2. Watched BY DEF Init, Watched, Enabled, HasToken
<1> QED BY <1>1, <1>2

LEMMA StatusLeavesPending ==
  ASSUME Typed, NEW n \in Node, NEW s \in Status \ {"pending"}, NEW o, SetNode(n, s, o)
  PROVE  nodeStatus'[n] # "pending"
         /\ \A m \in Node : nodeStatus'[m] = "pending" => nodeStatus[m] = "pending"
  BY DEF Typed, TypeOK, SetNode

LEMMA ReturnWatch ==
  ASSUME Typed, Typed', Placed, Watched, UNCHANGED <<nodes, edges, tokens, nodeStatus>>,
         NEW w \in Worker, Return(w),
         frame[w].pc \notin {"check", "enable", "route", "deliver"}
  PROVE  Placed' /\ Watched'
<1>1. /\ frame' = [frame EXCEPT ![w] = frame'[w]] /\ frame'[w].pc = "idle"
      /\ frame'[w].todo = {} /\ frame'[w].hop = NoHop /\ frame'[w].op = "none"
  BY DEF Return, IdleFrame, Typed
<1> QED BY <1>1, QuietWatch

\* A call that keeps its queue of work and moves on outside of routing.
LEMMA GotoWatch ==
  ASSUME Typed, Typed', Placed, Watched, UNCHANGED <<nodes, edges, tokens>>,
         NEW w \in Worker, NEW p, Goto(w, p), p # "deliver",
         frame[w].pc \notin {"check", "enable", "deliver"},
         frame[w].pc = "route" => frame[w].op # "edge",
         \A n \in nodes : nodeStatus'[n] = "pending" => nodeStatus[n] = "pending"
  PROVE  Placed' /\ Watched'
<1>1. frame[w] \in TypedFrame BY CallFrame
<1>2. /\ frame' = [frame EXCEPT ![w] = frame'[w]] /\ frame'[w].pc = p
      /\ frame'[w].todo = frame[w].todo /\ frame'[w].hop = frame[w].hop
      /\ frame'[w].op = frame[w].op /\ frame'[w].target = frame[w].target
  BY <1>1 DEF Goto, Typed, TypedFrame, Frame
<1> QED BY <1>2, QuietWatch

\* Calls that begin: start_graph, node_complete and node_failed, and add_node.
LEMMA BeginWatch ==
  ASSUME Typed, Typed', Placed, Watched, UNCHANGED <<nodes, edges, tokens, nodeStatus>>,
         NEW w \in Worker, At(w, "idle"), frame' = [frame EXCEPT ![w] = frame'[w]],
         frame'[w].todo = {}, frame'[w].hop = NoHop, frame'[w].op # "edge",
         frame'[w].pc # "deliver"
  PROVE  Placed' /\ Watched'
  BY QuietWatch DEF At

LEMMA StartWatch ==
  ASSUME Typed, Placed, Watched, NEW w \in Worker, Start(w) PROVE Placed' /\ Watched'
<1>1. /\ frame' = [frame EXCEPT ![w] = frame'[w]] /\ frame'[w].todo = {}
      /\ frame'[w].hop = NoHop /\ frame'[w].op = "start" /\ frame'[w].pc = "roots"
  BY DEF Start, IdleFrame, Typed
<1>2. Typed' BY StartTyped
<1> QED BY <1>1, <1>2, BeginWatch DEF Start, topology

LEMMA ReportWatch ==
  ASSUME Typed, Placed, Watched, NEW w \in Worker, NEW n \in Node, Report(w, n)
  PROVE  Placed' /\ Watched'
<1>1. PICK out, failed : Advance(w, n, out, failed) BY DEF Report
<1>2. /\ frame' = [frame EXCEPT ![w] = frame'[w]] /\ frame'[w].todo = {}
      /\ frame'[w].hop = NoHop /\ frame'[w].op = "advance" /\ frame'[w].pc = "pop"
  BY <1>1 DEF Advance, IdleFrame, Typed
<1>3. Typed' BY ReportTyped
<1> QED BY <1>2, <1>3, BeginWatch DEF Report, topology

LEMMA RootsWatch ==
  ASSUME Typed, Placed, Watched, NEW w \in Worker, ReadRoots(w) \/ Seeded(w)
  PROVE  Placed' /\ Watched'
<1>1. frame[w] \in TypedFrame /\ Typed' BY CallFrame, ReadRootsTyped, SeededTyped
<1>2. CASE ReadRoots(w)
  <2>1. /\ frame' = [frame EXCEPT ![w] = frame'[w]]
        /\ frame'[w].pc \in {"done", "seed"} /\ frame[w].pc = "roots"
        /\ frame'[w].todo = frame[w].todo /\ frame'[w].hop = frame[w].hop
        /\ frame'[w].op = frame[w].op /\ frame'[w].target = frame[w].target
    BY <1>1, <1>2 DEF ReadRoots, At, Typed, TypedFrame, Frame
  <2> QED BY <1>1, <1>2, <2>1, QuietWatch DEF ReadRoots, topology
<1>3. CASE Seeded(w) BY <1>1, <1>3, ReturnWatch DEF Seeded, At, topology
<1> QED BY <1>2, <1>3

LEMMA SeedWatch ==
  ASSUME Typed, Placed, Watched, NEW w \in Worker, Seed(w) PROVE Placed' /\ Watched'
<1>1. frame[w] \in TypedFrame /\ Typed' BY CallFrame, SeedTyped
<1>2. PICK n \in frame[w].roots :
         /\ SetNode(n, "ready", {})
         /\ frame' = [frame EXCEPT ![w].pc = "ready", ![w].target = n,
                                   ![w].roots = @ \ {n}]
  BY DEF Seed
<1>3. /\ frame' = [frame EXCEPT ![w] = frame'[w]]
      /\ frame'[w].pc = "ready" /\ frame[w].pc = "seed"
      /\ frame'[w].todo = frame[w].todo /\ frame'[w].hop = frame[w].hop
      /\ frame'[w].op = "start"
  BY <1>1, <1>2 DEF Seed, At, Typed, TypedFrame, Frame
<1>4. n \in Node BY <1>1, <1>2, FrameFields
<1>5. \A m \in nodes : nodeStatus'[m] = "pending" => nodeStatus[m] = "pending"
  BY <1>2, <1>4, StatusLeavesPending DEF Status, Typed, TypeOK
<1> QED BY <1>1, <1>3, <1>5, QuietWatch DEF Seed, topology

LEMMA PopWatch ==
  ASSUME Typed, Placed, Watched, NEW w \in Worker, Pop(w) PROVE Placed' /\ Watched'
<1>1. frame[w] \in TypedFrame /\ Typed' BY CallFrame, PopTyped
<1>2. /\ frame' = [frame EXCEPT ![w] = frame'[w]] /\ frame[w].pc = "pop"
      /\ frame'[w].todo = frame[w].todo /\ frame'[w].hop = frame[w].hop
      /\ frame'[w].op = frame[w].op /\ frame'[w].target = frame[w].target
      /\ frame'[w].pc \in {"pop", "mark"}
  BY <1>1 DEF Pop, At, Typed, TypedFrame, Frame
<1> QED BY <1>1, <1>2, QuietWatch DEF Pop, topology

LEMMA MarkWatch ==
  ASSUME Typed, Placed, Watched, NEW w \in Worker, Mark(w) PROVE Placed' /\ Watched'
<1>1. frame[w] \in TypedFrame /\ Typed' BY CallFrame, MarkTyped
<1>2. frame[w].pc = "mark" /\ frame[w].node \in Node BY <1>1 DEF Mark, At, TypedFrame
<1>3. \A m \in nodes : nodeStatus'[m] = "pending" => nodeStatus[m] = "pending"
  BY <1>2, StatusLeavesPending DEF Mark, Status, Typed, TypeOK
<1> QED BY <1>1, <1>2, <1>3, GotoWatch DEF Mark, topology

LEMMA EndWatch ==
  ASSUME Typed, Placed, Watched, NEW w \in Worker,
         \/ FailGraph(w) \/ LogGraphFailed(w) \/ Finish(w)
         \/ CompleteGraph(w) \/ LogGraphDone(w)
  PROVE  Placed' /\ Watched'
<1>1. Typed' BY FailGraphTyped, FinishTyped
<1>2. CASE FailGraph(w) BY <1>1, <1>2, GotoWatch DEF FailGraph, At, topology
<1>3. CASE CompleteGraph(w) BY <1>1, <1>3, GotoWatch DEF CompleteGraph, At, topology
<1>4. CASE LogGraphFailed(w) BY <1>1, <1>4, ReturnWatch DEF LogGraphFailed, At, topology
<1>5. CASE LogGraphDone(w) BY <1>1, <1>5, ReturnWatch DEF LogGraphDone, At, topology
<1>6. CASE Finish(w) BY <1>1, <1>6, GotoWatch, ReturnWatch DEF Finish, At, topology
<1> QED BY <1>2, <1>3, <1>4, <1>5, <1>6

LEMMA LogNodeWatch ==
  ASSUME Typed, Placed, Watched, NEW w \in Worker, LogNode(w) PROVE Placed' /\ Watched'
<1> DEFINE f == frame[w]
           g == frame'[w]
<1>1. f \in TypedFrame /\ g \in TypedFrame BY CallFrame, LogNodeTyped DEF Typed
<1>2. f.pc = "log" /\ f.op = "advance" BY <1>1 DEF LogNode, At, TypedFrame
<1>3. /\ frame' = [frame EXCEPT ![w] = g] /\ g.pc = "route" /\ g.op = f.op
      /\ g.todo \subseteq [tok : f.out, edge : Outbound(f.node)] /\ g.hop = NoHop
  BY <1>1 DEF LogNode, Typed, TypedFrame, Frame
<1>4. Outbound(f.node) \subseteq edges BY DEF Outbound
<1>5. ~ \E n : Watching(w, n) BY <1>2 DEF Watching
<1> HIDE DEF f, g
<1>6. g \in PlacedFrame BY <1>1, <1>2, <1>3, <1>4 DEF PlacedFrame
<1> QED BY <1>3, <1>5, <1>6, WatchStep DEF LogNode, topology

\* The position that a call reads is free at that moment.
LEMMA FreshPosition ==
  ASSUME Typed, Placed, NEW e
  PROVE  ~ \E r \in tokens : r.edge = e /\ r.seq = NextSeq(e)
<1>1. CountOn(e) \in Nat BY CountType
<1>2. \A r \in tokens : r.seq \in Nat BY DEF Typed, TypeOK, Row
<1>3. \A r \in tokens : r.edge = e => r.seq <= CountOn(e) BY DEF Placed
<1> QED BY <1>1, <1>2, <1>3 DEF NextSeq

LEMMA RouteWatch ==
  ASSUME Typed, Placed, Watched, NEW w \in Worker, Route(w) PROVE Placed' /\ Watched'
<1> DEFINE f == frame[w]
           g == frame'[w]
<1>1. f \in TypedFrame /\ g \in TypedFrame /\ f \in PlacedFrame
  BY CallFrame, RouteTyped, PlacedCall DEF Typed
<1>2. PICK h \in NextHops(f) : frame' = [frame EXCEPT ![w] =
         [f EXCEPT !.pc = "deliver", !.hop = h, !.todo = @ \ {h}, !.seq = NextSeq(h.edge)]]
  BY DEF Route
<1>3. h \in f.todo BY DEF NextHops
<1>4. /\ frame' = [frame EXCEPT ![w] = g] /\ f.pc = "route" /\ g.pc = "deliver"
      /\ g.todo \subseteq f.todo /\ g.hop = h /\ g.seq = NextSeq(h.edge)
      /\ g.op = f.op /\ g.target = f.target
  BY <1>1, <1>2 DEF Route, At, Typed, TypedFrame, Frame
<1>5. ~ \E r \in tokens : r.edge = h.edge /\ r.seq = NextSeq(h.edge) BY FreshPosition
<1>6. CountOn(h.edge) \in Nat BY CountType
<1>7. UNCHANGED <<nodes, edges, tokens, nodeStatus>> BY DEF Route, topology
<1>8. \A n : Watching(w, n) => Watching(w, n)' BY <1>4, <1>5, <1>7 DEF Watching
<1> HIDE DEF f, g
<1>9. g \in PlacedFrame BY <1>1, <1>3, <1>4, <1>6 DEF PlacedFrame, NextSeq
<1> QED BY <1>4, <1>7, <1>8, <1>9, WatchStep

LEMMA RoutedWatch ==
  ASSUME Typed, Placed, Watched, NEW w \in Worker, Routed(w) PROVE Placed' /\ Watched'
<1> DEFINE f == frame[w]
           g == frame'[w]
<1>1. f \in TypedFrame /\ g \in TypedFrame /\ f \in PlacedFrame
  BY CallFrame, RoutedTyped, PlacedCall DEF Typed
<1>2. /\ frame' = [frame EXCEPT ![w] = g] /\ f.pc = "route" /\ g.pc = AfterRouting(f)
      /\ g.todo = f.todo /\ g.hop = f.hop /\ g.op = f.op /\ g.target = f.target
  BY <1>1 DEF Routed, Goto, At, Typed, TypedFrame, Frame
<1>3. UNCHANGED <<nodes, edges, tokens, nodeStatus>> BY DEF Routed, topology
<1>4. AfterRouting(f) # "deliver" /\ (f.op = "edge" => AfterRouting(f) = "check")
  BY DEF AfterRouting
<1>5. \A n : Watching(w, n) => Watching(w, n)' BY <1>2, <1>4 DEF Watching
<1> HIDE DEF f, g
<1>6. g \in PlacedFrame BY <1>1, <1>2, <1>4, StillPlaced
<1> QED BY <1>2, <1>3, <1>5, <1>6, WatchStep

\* What Resume keeps of a frame.
LEMMA ResumePlaced ==
  ASSUME NEW f \in PlacedFrame, f.op # "edge" \/ f.pc \in {"check", "enable", "ready"}
  PROVE  Resume(f) \in PlacedFrame /\ Resume(f).op # "edge"
<1>1. f \in TypedFrame /\ Resume(f) \in TypedFrame BY ResumeType DEF PlacedFrame
<1>2. CASE f.op \in {"advance", "start"}
  <2>1. /\ Resume(f).todo = f.todo /\ Resume(f).hop = f.hop /\ Resume(f).op = f.op
        /\ Resume(f).pc \in {"route", "seed"}
    BY <1>1, <1>2 DEF Resume, TypedFrame, Frame
  <2> QED BY <1>1, <1>2, <2>1, StillPlaced
<1>3. CASE f.op \notin {"advance", "start"}
  <2>1. Resume(f) = IdleFrame BY <1>3 DEF Resume
  <2> QED BY <2>1, IdlePlaced DEF IdleFrame
<1> QED BY <1>2, <1>3

LEMMA LogReadyWatch ==
  ASSUME Typed, Placed, Watched, NEW w \in Worker, LogReady(w) PROVE Placed' /\ Watched'
<1>1. frame[w] \in PlacedFrame /\ frame[w].pc = "ready" BY PlacedCall DEF LogReady, At
<1>2. Resume(frame[w]) \in PlacedFrame BY <1>1, ResumePlaced
<1>3. ~ \E n : Watching(w, n) BY <1>1 DEF Watching
<1>4. UNCHANGED <<nodes, edges, tokens, nodeStatus>> BY DEF LogReady, topology
<1> QED BY <1>2, <1>3, <1>4, WatchStep DEF LogReady

LEMMA CheckWatch ==
  ASSUME Typed, Placed, Watched, NEW w \in Worker, Check(w) \/ NotEnabled(w)
  PROVE  Placed' /\ Watched'
<1> DEFINE f == frame[w]
           g == frame'[w]
<1>1. f \in PlacedFrame /\ f \in TypedFrame /\ g \in TypedFrame
  BY PlacedCall, CallFrame, CheckTyped DEF Typed
<1>2. f.pc \in {"check", "enable"} BY DEF Check, NotEnabled, At
<1>3. UNCHANGED <<nodes, edges, tokens, nodeStatus>> BY DEF Check, NotEnabled, topology
<1>4. Resume(f) \in PlacedFrame BY <1>1, <1>2, ResumePlaced
<1>5. CASE frame' = [frame EXCEPT ![w] = [f EXCEPT !.pc = "enable"]]
  <2>1. /\ frame' = [frame EXCEPT ![w] = g] /\ g.pc = "enable" /\ g.todo = f.todo
        /\ g.hop = f.hop /\ g.op = f.op /\ g.target = f.target
    BY <1>1, <1>5 DEF Typed, TypedFrame, Frame
  <2>2. \A n : Watching(w, n) => Watching(w, n)' BY <2>1 DEF Watching
  <2> HIDE DEF f, g
  <2>3. g \in PlacedFrame BY <1>1, <2>1, StillPlaced
  <2> QED BY <1>3, <2>1, <2>2, <2>3, WatchStep
<1>6. CASE /\ frame' = [frame EXCEPT ![w] = Resume(f)]
           /\ nodeStatus[f.target] # "pending" \/ ~ Enabled(f.target)
  <2>1. \A n : Watching(w, n) => n = f.target BY DEF Watching
  <2> QED BY <1>3, <1>4, <1>6, <2>1, WatchStep
<1>7. Check(w) => <1>5!1 \/ <1>6!1 BY DEF Check, MayBecomeReady
<1>8. NotEnabled(w) => <1>6!1 BY DEF NotEnabled
<1> QED BY <1>5, <1>6, <1>7, <1>8

LEMMA EnqueuePlaced ==
  ASSUME NEW f \in PlacedFrame, f.pc = "enable", NEW n \in Node, NEW out \in SUBSET Token
  PROVE  Enqueue(f, n, out) \in PlacedFrame
<1> DEFINE r == Resume(f)
           g == Enqueue(f, n, out)
<1>1. f \in TypedFrame /\ r \in TypedFrame /\ g \in TypedFrame
  BY ResumeType, EnqueueType DEF PlacedFrame
<1>2. r \in PlacedFrame /\ r.op # "edge" BY ResumePlaced
<1>3. CASE f.op # "advance"
  <2>1. g = r BY <1>3 DEF Enqueue
  <2> QED BY <1>2, <2>1
<1>4. CASE f.op = "advance"
  <2>1. r.pc = "route" BY <1>1, <1>4 DEF Resume, TypedFrame, Frame
  <2>2. g.todo = r.todo /\ g.hop = r.hop /\ g.op = r.op /\ g.pc = r.pc
    <3> HIDE DEF r
    <3> QED BY <1>1, <1>4 DEF Enqueue, TypedFrame, Frame, r
  <2> HIDE DEF r, g
  <2>3. g \in PlacedFrame BY <1>1, <1>2, <2>1, <2>2, StillPlaced
  <2> QED BY <2>3 DEF g
<1> QED BY <1>3, <1>4

LEMMA EnableWatch ==
  ASSUME Typed, Placed, Watched, NEW w \in Worker, EnableTask(w) \/ EnableGather(w)
  PROVE  Placed' /\ Watched'
<1> DEFINE f == frame[w]
           g == frame'[w]
<1>1. f \in PlacedFrame /\ f \in TypedFrame /\ g \in TypedFrame
  BY PlacedCall, CallFrame, EnableTyped DEF Typed
<1>2. f.pc = "enable" /\ f.target \in Node
  BY <1>1 DEF EnableTask, EnableGather, At, TypedFrame
<1>3. UNCHANGED <<nodes, edges, tokens>> BY DEF EnableTask, EnableGather, topology
<1>4. /\ nodeStatus'[f.target] # "pending"
      /\ \A m \in nodes : nodeStatus'[m] = "pending" => nodeStatus[m] = "pending"
  BY <1>2, StatusLeavesPending DEF EnableTask, EnableGather, Status, Typed, TypeOK
<1>5. \A n : Watching(w, n) => n = f.target BY DEF Watching
<1>6. CASE EnableTask(w)
  <2>1. /\ frame' = [frame EXCEPT ![w] = g] /\ g.pc = "ready" /\ g.todo = f.todo
        /\ g.hop = f.hop /\ g.op = f.op /\ g.target = f.target
    BY <1>1, <1>6 DEF EnableTask, Goto, Typed, TypedFrame, Frame
  <2> HIDE DEF f, g
  <2>2. g \in PlacedFrame BY <1>1, <2>1, StillPlaced
  <2> QED BY <1>3, <1>4, <1>5, <2>1, <2>2, WatchStep
<1>7. CASE EnableGather(w)
  <2>1. PICK out \in GatherOutputs(f.target) :
           frame' = [frame EXCEPT ![w] = Enqueue(f, f.target, out)]
    BY <1>7 DEF EnableGather
  <2>2. out \in SUBSET Token BY <1>2, <2>1, GatherOutputsType DEF Typed
  <2>3. Enqueue(f, f.target, out) \in PlacedFrame BY <1>1, <1>2, <2>2, EnqueuePlaced
  <2> HIDE DEF f, g
  <2> QED BY <1>3, <1>4, <1>5, <2>1, <2>3, WatchStep
<1> QED BY <1>6, <1>7

LEMMA NoHopIsNoHop == NoHop \notin Hop
  BY GraphAssumption DEF NoHop, Hop, Fresh

LEMMA DeliverWatch ==
  ASSUME Typed, Placed, Watched, NEW w \in Worker, Deliver(w) PROVE Placed' /\ Watched'
<1> DEFINE f == frame[w]
           g == frame'[w]
<1>1. f \in PlacedFrame /\ f \in TypedFrame /\ g \in TypedFrame
  BY PlacedCall, CallFrame, DeliverTyped DEF Typed
<1>2. f.pc = "deliver" /\ UNCHANGED <<nodes, edges, nodeStatus>>
  BY DEF Deliver, At, topology
<1>3. f.hop \in Hop /\ f.seq \in Nat /\ f.seq > 0 /\ f.op \in {"advance", "edge"}
  BY <1>1, <1>2, FrameFields DEF TypedFrame
<1> PICK e : e = f.hop.edge OBVIOUS
<1>4. e \in edges /\ (f.op = "edge" => To[e] = f.target) /\ f.seq <= CountOn(e) + 1
  BY <1>1, <1>2, <1>3, NoHopIsNoHop DEF PlacedFrame
<1>5. CASE \E r \in tokens : r.edge = e /\ r.seq = f.seq
  <2>1. frame' = [frame EXCEPT ![w] = IdleFrame] /\ UNCHANGED tokens
    BY <1>5 DEF Deliver, Return
  <2>2. ~ \E n : Watching(w, n) BY <1>2, <1>5 DEF Watching
  <2> QED BY <1>2, <2>1, <2>2, IdlePlaced, WatchStep
<1>6. CASE ~ \E r \in tokens : r.edge = e /\ r.seq = f.seq
  <2>0. PICK row : row = [edge |-> e, seq |-> f.seq, color |-> f.hop.tok.color] OBVIOUS
  <2>1. row \in Row /\ row \notin tokens /\ row.edge = e /\ row.seq = f.seq
    <3>1. row \in Row
      <4> HIDE DEF f
      <4> QED BY <1>3, <2>0 DEF Row, Hop, Token
    <3> QED BY <1>6, <2>0, <3>1
  <2>2. tokens' = tokens \cup {row} BY <1>6, <2>0 DEF Deliver
  <2> DEFINE p == IF f.op = "advance" THEN "check" ELSE "route"
  <2>3. /\ frame' = [frame EXCEPT ![w] = g] /\ g.target = To[e] /\ g.pc = p
        /\ g.todo = f.todo /\ g.hop = f.hop /\ g.op = f.op
    <3>1. frame' = [frame EXCEPT ![w] = [f EXCEPT !.any = TRUE, !.target = To[e], !.pc = p]]
      BY <1>6 DEF Deliver
    <3> HIDE DEF p
    <3> QED BY <1>1, <3>1 DEF Typed, TypedFrame, Frame
  <2> HIDE DEF f, g
  <2>4. /\ CountOn(e)' = CountOn(e) + 1 /\ CountOn(e) \in Nat
        /\ \A x : x # e => CountOn(x)' = CountOn(x)
    BY <2>1, <2>2, NewRow, CountType
  <2>5. \A x : CountOn(x) \in Nat /\ CountOn(x)' \in Nat /\ CountOn(x) <= CountOn(x)'
    BY <2>4, CountType
  <2>6. \A r \in tokens' : r.edge \in edges /\ r.seq <= CountOn(r.edge)'
    <3>1. \A r \in tokens : r.seq \in Nat /\ r.edge \in edges /\ r.seq <= CountOn(r.edge)
      BY DEF Typed, TypeOK, Row, Placed
    <3>2. row.seq <= CountOn(row.edge)' BY <1>3, <1>4, <2>1, <2>4
    <3> QED BY <1>4, <2>1, <2>2, <2>5, <3>1, <3>2
  <2>7. \A h \in PlacedFrame : h \in PlacedFrame'
    <3> SUFFICES ASSUME NEW h \in PlacedFrame PROVE h \in PlacedFrame'
      OBVIOUS
    <3>1. h.seq \in Nat BY FrameFields DEF PlacedFrame
    <3>2. CountOn(h.hop.edge) \in Nat /\ CountOn(h.hop.edge)' \in Nat
          /\ CountOn(h.hop.edge) <= CountOn(h.hop.edge)'
      BY <2>5
    <3> QED BY <1>2, <3>1, <3>2 DEF PlacedFrame
  <2>8. g \in PlacedFrame'
    <3>1. g.pc # "deliver" BY <2>3
    <3>2. g.op = "edge" => g.target = f.target BY <1>4, <2>3
    <3>3. g \in PlacedFrame BY <1>1, <2>3, <3>1, <3>2, StillPlaced
    <3> QED BY <2>7, <3>3
  <2>9. Placed'
    BY <1>2, <2>3, <2>6, <2>7, <2>8 DEF Placed
  <2>10. \A n : n # To[e] => (Enabled(n)' <=> Enabled(n))
    BY <1>2, <2>1, <2>2 DEF Enabled, Inbound, HasToken
  <2>11. \A n : n # To[e] => \A u \in Worker : Watching(u, n) => Watching(u, n)'
    <3> SUFFICES ASSUME NEW n, n # To[e], NEW u \in Worker, Watching(u, n)
                 PROVE  Watching(u, n)'
      OBVIOUS
    <3>1. CASE u = w
      <4>1. f.target = n /\ f.op = "edge"
        BY <1>2, <3>1 DEF Watching, f
      <4> QED BY <1>4, <4>1
    <3>2. CASE u # w
      <4>1. frame'[u] = frame[u] BY <2>3, <3>2 DEF Typed
      <4>2. CASE frame[u].op = "edge" /\ frame[u].pc = "deliver"
        <5>1. frame[u] \in PlacedFrame /\ frame[u].hop \in Hop
          BY <4>2, PlacedCall, CallFrame DEF TypedFrame
        <5>2. To[frame[u].hop.edge] = n BY <4>2, <5>1, NoHopIsNoHop DEF PlacedFrame, Watching
        <5> QED BY <2>1, <2>2, <4>1, <5>2 DEF Watching
      <4>3. CASE ~ (frame[u].op = "edge" /\ frame[u].pc = "deliver")
        BY <4>1, <4>3 DEF Watching
      <4> QED BY <4>2, <4>3
    <3> QED BY <3>1, <3>2
  <2>12. Watching(w, To[e])'
    BY <1>3, <2>3 DEF Watching, g
  <2>13. Watched' BY <1>2, <2>10, <2>11, <2>12 DEF Watched
  <2> QED BY <2>9, <2>13
<1> QED BY <1>5, <1>6

\* What a call shows that has just inserted a row, when no edge is lost.
LEMMA IdleNotWatching ==
  ASSUME NEW w \in Worker, frame[w].pc \in {"idle", "status", "source"}
  PROVE  \A n : ~ Watching(w, n)
  BY DEF Watching

LEMMA AddNodeWatch ==
  ASSUME Typed, Placed, Watched, NEW w \in Worker, NEW n \in Node, AddNode(w, n)
  PROVE  Placed' /\ Watched'
<1> DEFINE g == [IdleFrame EXCEPT !.pc = "status", !.op = "node", !.target = n]
<1>1. frame' = [frame EXCEPT ![w] = g] /\ UNCHANGED <<edges, tokens, nodeStatus>>
      /\ nodes' = nodes \cup {n} /\ n \notin nodes
  BY DEF AddNode
<1>2. g.todo = {} /\ g.hop = NoHop /\ g.op = "node" /\ g.pc = "status" BY DEF IdleFrame
<1>3. g \in TypedFrame
  BY IdleFrameType DEF TypedFrame, Frame, Pc, Op, IdleFrame
<1> HIDE DEF g
<1>4. \A e : CountOn(e)' = CountOn(e) BY <1>1 DEF CountOn
<1>5. PlacedFrame' = PlacedFrame BY <1>1, <1>4 DEF PlacedFrame
<1>6. g \in PlacedFrame BY <1>2, <1>3 DEF PlacedFrame
<1>7. Placed' BY <1>1, <1>4, <1>5, <1>6 DEF Placed
<1>8. \A m : Enabled(m)' <=> Enabled(m) BY <1>1 DEF Enabled, Inbound, HasToken
<1>9. ~ Enabled(n) BY <1>1 DEF Enabled, Inbound, Placed
<1>10. \A m : ~ Watching(w, m) BY IdleNotWatching DEF AddNode, At
<1>11. \A m : \A u \in Worker \ {w} : Watching(u, m)' <=> Watching(u, m)
  BY <1>1 DEF Watching, Placed
<1>12. Watched' BY <1>1, <1>8, <1>9, <1>10, <1>11 DEF Watched
<1> QED BY <1>7, <1>12

LEMMA AddEdgeWatch ==
  ASSUME Typed, Placed, Watched, NEW w \in Worker, NEW e \in Edge, AddEdge(w, e)
  PROVE  Placed' /\ Watched'
<1> DEFINE h == [NoHop EXCEPT !.edge = e]
           g == [IdleFrame EXCEPT !.pc = "status", !.op = "edge", !.target = To[e],
                                  !.node = From[e], !.hop = h]
<1>1. /\ frame' = [frame EXCEPT ![w] = g] /\ UNCHANGED <<nodes, tokens, nodeStatus>>
      /\ edges' = edges \cup {e} /\ e \notin edges
      /\ From[e] \in nodes /\ To[e] \in nodes
  BY DEF AddEdge
<1>2. g.todo = {} /\ g.hop = h /\ g.op = "edge" /\ g.pc = "status" /\ g.target = To[e]
      /\ h.edge = e
  BY DEF IdleFrame, NoHop
<1>3. g \in TypedFrame BY <1>1, AddTyped DEF Typed
<1> HIDE DEF g, h
<1>4. \A x : CountOn(x)' = CountOn(x) BY <1>1 DEF CountOn
<1>5. PlacedFrame \subseteq PlacedFrame' BY <1>1, <1>4 DEF PlacedFrame
<1>6. g \in PlacedFrame' BY <1>1, <1>2, <1>3 DEF PlacedFrame
<1>7. Placed' BY <1>1, <1>4, <1>5, <1>6 DEF Placed
<1>8. \A m : Enabled(m)' => Enabled(m)
  <2> SUFFICES ASSUME NEW m, Enabled(m)' PROVE Enabled(m)
    OBVIOUS
  <2>1. ~ \E r \in tokens : r.edge = e BY <1>1 DEF Placed
  <2>2. e \notin Inbound(m)' BY <1>1, <2>1 DEF Enabled, HasToken
  <2>3. Inbound(m)' = Inbound(m) BY <1>1, <2>2 DEF Inbound
  <2> QED BY <1>1, <2>3 DEF Enabled, HasToken
<1>9. \A m : ~ Watching(w, m) BY IdleNotWatching DEF AddEdge, At
<1>10. \A m : \A u \in Worker \ {w} : Watching(u, m)' <=> Watching(u, m)
  BY <1>1 DEF Watching, Placed
<1>11. Watched' BY <1>1, <1>8, <1>9, <1>10 DEF Watched
<1> QED BY <1>7, <1>11

LEMMA ReadWatch ==
  ASSUME Typed, Placed, Watched, NEW w \in Worker, ReadGraphStatus(w) \/ ReadSource(w)
  PROVE  Placed' /\ Watched'
<1> DEFINE f == frame[w]
           g == frame'[w]
<1>1. f \in PlacedFrame /\ f \in TypedFrame /\ g \in TypedFrame /\ Typed'
  BY PlacedCall, CallFrame, ReadTyped DEF Typed
<1>2. UNCHANGED <<nodes, edges, tokens, nodeStatus>>
  BY DEF ReadGraphStatus, ReadSource, topology
<1>3. f.pc \in {"status", "source"} BY DEF ReadGraphStatus, ReadSource, At
<1>4. CASE Return(w) BY <1>1, <1>2, <1>3, <1>4, ReturnWatch
<1>5. CASE ReadGraphStatus(w) /\ ~ Return(w)
  <2>1. /\ frame' = [frame EXCEPT ![w] = g] /\ g.pc \in {"check", "source"}
        /\ g.todo = f.todo /\ g.hop = f.hop /\ g.op = f.op /\ g.target = f.target
    BY <1>1, <1>5, ZenonT(40) DEF ReadGraphStatus, Return, Typed, TypedFrame, Frame
  <2> QED BY <1>1, <1>2, <1>3, <2>1, QuietWatch
<1>6. CASE ReadSource(w) /\ ~ Return(w)
  <2>1. f.pc = "source" BY <1>6 DEF ReadSource, At
  <2>2. f.op = "edge" /\ f.hop \in Hop BY <1>1, <2>1 DEF TypedFrame
  <2>3. /\ frame' = [frame EXCEPT ![w] = g] /\ g.pc = "route" /\ g.hop = NoHop
        /\ g.todo = Retroactive(f.node, f.hop.edge) /\ g.op = f.op /\ g.target = f.target
    BY <1>1, <1>6 DEF ReadSource, Return, Typed, TypedFrame, Frame
  <2>4. \A h \in g.todo : h.edge = f.hop.edge BY <2>3 DEF Retroactive
  <2>5. f.hop.edge \in edges /\ To[f.hop.edge] = f.target
    BY <1>1, <2>2, NoHopIsNoHop DEF PlacedFrame
  <2>6. \A n : ~ Watching(w, n) BY <1>3, IdleNotWatching
  <2> HIDE DEF f, g
  <2>7. g \in PlacedFrame BY <1>1, <2>3, <2>4, <2>5 DEF PlacedFrame
  <2> QED BY <1>2, <2>3, <2>6, <2>7, WatchStep
<1> QED BY <1>4, <1>5, <1>6

LEMMA StepWatch ==
  ASSUME Typed, Placed, Watched, NEW w \in Worker, Step(w) PROVE Placed' /\ Watched'
  BY RootsWatch, SeedWatch, PopWatch, MarkWatch, LogNodeWatch, RouteWatch, DeliverWatch,
     RoutedWatch, EndWatch, CheckWatch, EnableWatch, LogReadyWatch DEF Step

LEMMA NextWatch ==
  Typed /\ Placed /\ Watched /\ [GrowNext]_vars => Placed' /\ Watched'
<1> SUFFICES ASSUME Typed, Placed, Watched, [GrowNext]_vars PROVE Placed' /\ Watched'
  OBVIOUS
<1>1. CASE Cancel \/ UNCHANGED vars
  <2>1. UNCHANGED <<nodes, edges, tokens, nodeStatus, frame>>
    BY <1>1 DEF Cancel, vars, topology
  <2>2. PlacedFrame' = PlacedFrame /\ \A e : CountOn(e)' = CountOn(e)
    BY <2>1 DEF PlacedFrame, CountOn
  <2>3. Placed' BY <2>1, <2>2 DEF Placed
  <2>4. \A n : Enabled(n)' <=> Enabled(n) BY <2>1 DEF Enabled, Inbound, HasToken
  <2>5. \A u, n : Watching(u, n)' <=> Watching(u, n) BY <2>1 DEF Watching
  <2>6. Watched' BY <2>1, <2>4, <2>5 DEF Watched
  <2> QED BY <2>3, <2>6
<1>2. ASSUME NEW w \in Worker, Execute(w) PROVE Placed' /\ Watched'
  <2>1. CASE Start(w) BY <2>1, StartWatch
  <2>2. CASE \E n \in Node : Report(w, n) BY <2>2, ReportWatch
  <2>3. CASE Step(w) BY <2>3, StepWatch
  <2> QED BY <1>2, <2>1, <2>2, <2>3 DEF Execute
<1>3. ASSUME NEW w \in Worker, Grow(w) PROVE Placed' /\ Watched'
  BY <1>3, AddNodeWatch, AddEdgeWatch, ReadWatch DEF Grow
<1> QED BY <1>1, <1>2, <1>3 DEF GrowNext, Next

LEMMA AlwaysPlaced == GrowSpec => [](Typed /\ Placed /\ Watched)
<1>1. Init => Typed /\ Placed /\ Watched BY InitTyped, InitWatch
<1>2. Typed /\ Placed /\ Watched /\ [GrowNext]_vars => (Typed /\ Placed /\ Watched)'
  BY GrowNextTyped, NextWatch
<1> QED BY <1>1, <1>2, PTL DEF GrowSpec

\* No enablement is lost in a graph that grows while any number of calls deliver tokens
\* to it: whenever a pending node has a token on each of its edges, some call has
\* check_and_ready of it still ahead.
THEOREM NoEnablementLost == GrowSpec => []NothingForgotten
<1>1. Watched => NothingForgotten
  BY DEF Watched, Watching, NothingForgotten, AllIdle, At
<1> QED BY <1>1, AlwaysPlaced, PTL
-----------------------------------------------------------------------------
(***************************************************************************)
(* Tokens of a graph that does not grow.  From the event of a node to the  *)
(* end of its routing one call holds the tokens that are still to go out   *)
(* on its edges; it loses them only when another call takes the position   *)
(* it has read, and that call answered the same node.                      *)
(***************************************************************************)
Once(n) == \A i, j \in DOMAIN log : log[i] \in Answers(n) /\ log[j] \in Answers(n) => i = j

RoutingPc == {"route", "deliver", "check", "enable", "ready"}
Routing(w, n) ==
    /\ frame[w].op = "advance" /\ frame[w].pc \in RoutingPc
    /\ frame[w].node = n

OwnFrame(A) ==
    {f \in TypedFrame :
        /\ f.pc \in {"route", "deliver"} => f.op = "advance"
        /\ f.op = "advance" /\ f.pc \in RoutingPc =>
              /\ f.node \in A
              /\ \A h \in f.todo : From[h.edge] = f.node
              /\ f.pc = "deliver" => From[f.hop.edge] = f.node}

Taken(w) == \E r \in tokens : r.edge = frame[w].hop.edge /\ r.seq = frame[w].seq

\* Call w still has a token for edge e: it has stored the output and not yet read the
\* edges, or it routes a token on e.
Holds(w, e) ==
    \/ /\ frame[w].pc = "log" /\ frame[w].node = From[e] /\ ~ frame[w].failed
       /\ frame[w].out = output[From[e]]
    \/ /\ Routing(w, From[e])
       /\ \/ \E h \in frame[w].todo : h.edge = e
          \/ frame[w].pc = "deliver" /\ frame[w].hop.edge = e

Fed(e) ==
    /\ nodeStatus[From[e]] = "complete"
    /\ \E t \in output[From[e]] : Matches(Cond[e], t.color)
    /\ Once(From[e])
    => HasToken(e) \/ \E w \in Worker : Holds(w, e)

Delivered ==
    /\ frame \in [Worker -> OwnFrame(Answered)]
    /\ \A n \in Node : Once(n) =>
          \A v, w \in Worker : Routing(v, n) /\ Routing(w, n) => v = w
    /\ \A n \in Node : Once(n) =>
          \A w \in Worker : Routing(w, n) /\ At(w, "deliver") => ~ Taken(w)
    /\ \A e \in edges : Fed(e)

LEMMA OwnCall == ASSUME Delivered, NEW w \in Worker PROVE frame[w] \in OwnFrame(Answered)
  BY DEF Delivered

LEMMA OwnMonotone ==
  ASSUME NEW A, NEW B, A \subseteq B PROVE OwnFrame(A) \subseteq OwnFrame(B)
  BY DEF OwnFrame

\* A node that is answered once now was answered once before.
LEMMA OnceBefore ==
  ASSUME Typed, NEW e \in Event, log' = Append(log, e)
  PROVE  Answered \subseteq Answered' /\ \A n : Once(n)' => Once(n)
<1>1. /\ DOMAIN log' = 1..(Len(log) + 1) /\ DOMAIN log = 1..Len(log)
      /\ \A i \in DOMAIN log : log'[i] = log[i]
      /\ Events' = Events \cup {e}
  BY AppendKeeps
<1>2. Len(log) \in Nat BY DEF Typed, TypeOK
<1>3. \A n : Answers(n)' = Answers(n) BY DEF Answers, Ev
<1>4. DOMAIN log \subseteq DOMAIN log' BY <1>1, <1>2
<1>5. \A n : Once(n)' => Once(n) BY <1>1, <1>3, <1>4 DEF Once
<1> QED BY <1>1, <1>5, AnsweredKept

InRouting(f) == f.op = "advance" /\ f.pc \in RoutingPc

\* A statement that answers no node, delivers nothing and reads no position.
LEMMA DeliveredStep ==
  ASSUME Typed, Delivered, UNCHANGED <<edges, tokens>>, Answered \subseteq Answered',
         \A n : Once(n)' => Once(n), edges \subseteq Edge,
         \A n \in Node : nodeStatus'[n] = "complete" =>
             nodeStatus[n] = "complete" /\ output'[n] = output[n],
         NEW w \in Worker, NEW g \in OwnFrame(Answered'), frame' = [frame EXCEPT ![w] = g],
         frame[w].pc \notin {"log", "deliver"}, g.pc # "deliver",
         InRouting(g) => InRouting(frame[w]) /\ g.node = frame[w].node,
         InRouting(frame[w]) => frame[w].todo = {} \/
             (InRouting(g) /\ g.node = frame[w].node /\ g.todo = frame[w].todo)
  PROVE  Delivered'
<1>1. \A u \in Worker : frame'[u] = IF u = w THEN g ELSE frame[u] BY DEF Typed
<1>2. frame' \in [Worker -> OwnFrame(Answered')] BY OwnMonotone DEF Delivered
<1>3. \A u \in Worker : \A n : Routing(u, n)' => Routing(u, n)
  BY <1>1 DEF Routing, InRouting
<1>4. \A n \in Node : Once(n)' =>
         \A u, v \in Worker : Routing(u, n)' /\ Routing(v, n)' => u = v
  BY <1>3 DEF Delivered
<1>5. \A n \in Node : Once(n)' =>
         \A u \in Worker : Routing(u, n)' /\ At(u, "deliver")' => ~ Taken(u)'
  BY <1>1, <1>3 DEF Delivered, Taken, At
<1>6. \A e \in edges : \A u \in Worker :
         nodeStatus'[From[e]] = "complete" /\ Holds(u, e) => Holds(u, e)'
  <2> SUFFICES ASSUME NEW e \in edges, NEW u \in Worker, nodeStatus'[From[e]] = "complete",
                      Holds(u, e)
               PROVE  Holds(u, e)'
    OBVIOUS
  <2>1. From[e] \in Node BY GraphAssumption
  <2>2. CASE u # w BY <1>1, <2>1, <2>2 DEF Holds, Routing
  <2>3. CASE u = w
    BY <1>1, <2>3 DEF Holds, Routing, InRouting
  <2> QED BY <2>2, <2>3
<1>7. \A e \in edges : Fed(e)'
  <2> SUFFICES ASSUME NEW e \in edges, nodeStatus'[From[e]] = "complete",
                      \E t \in output'[From[e]] : Matches(Cond[e], t.color), Once(From[e])'
               PROVE  HasToken(e) \/ \E u \in Worker : Holds(u, e)'
    BY DEF Fed, HasToken
  <2>1. From[e] \in Node BY GraphAssumption
  <2>2. HasToken(e) \/ \E u \in Worker : Holds(u, e) BY <2>1 DEF Delivered, Fed
  <2> QED BY <1>6, <2>2
<1> QED BY <1>2, <1>4, <1>5, <1>7 DEF Delivered

LEMMA SameLog ==
  ASSUME log' = log
  PROVE  Answered' = Answered /\ \A n : Once(n)' <=> Once(n)
<1>1. \A n : Answers(n)' = Answers(n) BY DEF Answers, Ev
<1> QED BY <1>1 DEF Answered, Events, Once

\* The call does not route, before or after.
LEMMA AsideStep ==
  ASSUME Typed, Typed', Delivered, UNCHANGED <<edges, tokens>>,
         Answered \subseteq Answered', \A n : Once(n)' => Once(n),
         \A n \in Node : nodeStatus'[n] = "complete" =>
             nodeStatus[n] = "complete" /\ output'[n] = output[n],
         NEW w \in Worker, frame' = [frame EXCEPT ![w] = frame'[w]],
         frame[w].pc \notin {"log", "route", "deliver"},
         frame'[w].pc \notin {"route", "deliver"},
         frame[w].op # "advance" \/ frame[w].pc \notin RoutingPc,
         frame'[w].op # "advance" \/ frame'[w].pc \notin RoutingPc
  PROVE  Delivered'
<1>1. frame'[w] \in OwnFrame(Answered') BY DEF Typed, OwnFrame
<1>2. edges \subseteq Edge BY DEF Typed, TypeOK
<1> QED BY <1>1, <1>2, DeliveredStep DEF InRouting

LEMMA InitDelivered == Init => Delivered
<1> SUFFICES ASSUME Init PROVE Delivered OBVIOUS
<1>1. \A w \in Worker : frame[w] = IdleFrame BY DEF Init
<1>2. IdleFrame \in OwnFrame(Answered) BY IdleFrameType DEF OwnFrame, IdleFrame, RoutingPc
<1>3. \A w \in Worker : \A n : ~ Routing(w, n) BY <1>1 DEF Routing, IdleFrame
<1>4. \A e \in edges : nodeStatus[From[e]] = "pending" BY GraphAssumption DEF Init
<1> QED BY <1>2, <1>3, <1>4 DEF Init, Delivered, Fed

LEMMA BeginDelivered ==
  ASSUME Typed, Delivered, NEW w \in Worker,
         Start(w) \/ \E n \in Node : Report(w, n)
  PROVE  Delivered'
<1>1. Typed' BY StartTyped, ReportTyped
<1>2. /\ frame' = [frame EXCEPT ![w] = frame'[w]] /\ frame[w].pc = "idle"
      /\ frame'[w].pc \in {"roots", "pop"}
  <2>1. CASE Start(w) BY <2>1 DEF Start, At, IdleFrame, Typed
  <2>2. CASE \E n \in Node : Report(w, n)
    <3>1. frame[w].pc = "idle" /\ \E n, out, failed : Advance(w, n, out, failed)
      BY <2>2 DEF Report, At
    <3> QED BY <3>1 DEF Advance, IdleFrame, Typed
  <2> QED BY <2>1, <2>2
<1>3. UNCHANGED <<edges, tokens, log, nodeStatus, output>> BY DEF Start, Report, topology
<1> QED BY <1>1, <1>2, <1>3, SameLog, AsideStep DEF RoutingPc

\* An update that makes a node ready or running takes its output away.
LEMMA NoNewComplete ==
  ASSUME Typed, NEW n \in Node, NEW s \in {"ready", "running", "failed"}, NEW o,
         SetNode(n, s, o)
  PROVE  \A m \in Node : nodeStatus'[m] = "complete" =>
             nodeStatus[m] = "complete" /\ output'[m] = output[m]
  BY DEF Typed, TypeOK, SetNode

LEMMA RootsDelivered ==
  ASSUME Typed, Delivered, NEW w \in Worker, ReadRoots(w) \/ Seed(w) \/ Seeded(w)
  PROVE  Delivered'
<1>1. Typed' /\ frame[w] \in TypedFrame
  BY CallFrame, ReadRootsTyped, SeedTyped, SeededTyped
<1>2. frame[w].pc \in {"roots", "seed"} /\ frame[w].op = "start"
  BY <1>1 DEF ReadRoots, Seed, Seeded, At, TypedFrame
<1>3. UNCHANGED <<edges, tokens, log>> BY DEF ReadRoots, Seed, Seeded, topology
<1>4. CASE ReadRoots(w)
  <2>1. /\ frame' = [frame EXCEPT ![w] = frame'[w]] /\ frame'[w].op = frame[w].op
        /\ frame'[w].pc \in {"done", "seed"}
    BY <1>1, <1>4 DEF ReadRoots, Typed, TypedFrame, Frame
  <2> QED BY <1>1, <1>2, <1>3, <1>4, <2>1, SameLog, AsideStep DEF ReadRoots
<1>5. CASE Seed(w)
  <2>1. PICK n \in frame[w].roots :
           /\ SetNode(n, "ready", {})
           /\ frame' = [frame EXCEPT ![w].pc = "ready", ![w].target = n,
                                     ![w].roots = @ \ {n}]
    BY <1>5 DEF Seed
  <2>2. n \in Node BY <1>1, <2>1, FrameFields
  <2>3. /\ frame' = [frame EXCEPT ![w] = frame'[w]] /\ frame'[w].op = frame[w].op
        /\ frame'[w].pc = "ready"
    BY <1>1, <2>1 DEF Typed, TypedFrame, Frame
  <2>4. \A m \in Node : nodeStatus'[m] = "complete" =>
             nodeStatus[m] = "complete" /\ output'[m] = output[m]
    BY <2>1, <2>2, NoNewComplete
  <2> QED BY <1>1, <1>2, <1>3, <2>3, <2>4, SameLog, AsideStep
<1>6. CASE Seeded(w)
  <2>1. frame' = [frame EXCEPT ![w] = frame'[w]] /\ frame'[w].pc = "idle"
    BY <1>6 DEF Seeded, Return, IdleFrame, Typed
  <2> QED BY <1>1, <1>2, <1>3, <1>6, <2>1, SameLog, AsideStep DEF Seeded, RoutingPc
<1> QED BY <1>4, <1>5, <1>6

LEMMA PopDelivered ==
  ASSUME Typed, Delivered, NEW w \in Worker, Pop(w) PROVE Delivered'
<1>1. Typed' /\ frame[w] \in TypedFrame BY CallFrame, PopTyped
<1>2. /\ frame' = [frame EXCEPT ![w] = frame'[w]] /\ frame[w].pc = "pop"
      /\ frame'[w].pc \in {"pop", "mark"}
  BY <1>1 DEF Pop, At, Typed, TypedFrame, Frame
<1> QED BY <1>1, <1>2, SameLog, AsideStep DEF Pop, topology, RoutingPc

LEMMA EndDelivered ==
  ASSUME Typed, Delivered, NEW w \in Worker,
         FailGraph(w) \/ Finish(w) \/ CompleteGraph(w)
  PROVE  Delivered'
<1>1. Typed' /\ frame[w] \in TypedFrame BY CallFrame, FailGraphTyped, FinishTyped
<1>2. /\ frame' = [frame EXCEPT ![w] = frame'[w]]
      /\ frame[w].pc \in {"failgraph", "pop", "done"}
      /\ frame'[w].pc \in {"failevent", "done", "idle", "doneevent"}
  BY <1>1 DEF FailGraph, Finish, CompleteGraph, Goto, Return, IdleFrame, At, Typed,
              TypedFrame, Frame
<1>3. UNCHANGED <<edges, tokens, log, nodeStatus, output>>
  BY DEF FailGraph, Finish, CompleteGraph, topology
<1> QED BY <1>1, <1>2, <1>3, SameLog, AsideStep DEF RoutingPc

LEMMA LogOutcomeDelivered ==
  ASSUME Typed, Delivered, NEW w \in Worker, LogGraphFailed(w) \/ LogGraphDone(w)
  PROVE  Delivered'
<1>1. Typed' /\ frame[w] \in TypedFrame BY CallFrame, FailGraphTyped, FinishTyped
<1>2. /\ frame' = [frame EXCEPT ![w] = frame'[w]] /\ frame'[w].pc = "idle"
      /\ frame[w].pc \in {"failevent", "doneevent"}
  BY DEF LogGraphFailed, LogGraphDone, Return, IdleFrame, At, Typed
<1>3. PICK e \in Event : log' = Append(log, e)
  <2>1. Ev("GraphFailed", frame[w].node) \in Event /\ Ev("GraphDone", NoNode) \in Event
    BY <1>1, FrameFields DEF Ev, Event, EventType
  <2> QED BY <2>1 DEF LogGraphFailed, LogGraphDone, Persist
<1>4. Answered \subseteq Answered' /\ \A n : Once(n)' => Once(n) BY <1>3, OnceBefore
<1>5. UNCHANGED <<edges, tokens, nodeStatus, output>>
  BY DEF LogGraphFailed, LogGraphDone, topology
<1> QED BY <1>1, <1>2, <1>4, <1>5, AsideStep DEF RoutingPc

\* A call that is in check_and_ready goes on to route what it holds, or ends.
LEMMA CheckingStep ==
  ASSUME Typed, Delivered, UNCHANGED <<edges, tokens>>,
         Answered \subseteq Answered', \A n : Once(n)' => Once(n),
         \A n \in Node : nodeStatus'[n] = "complete" =>
             nodeStatus[n] = "complete" /\ output'[n] = output[n],
         NEW w \in Worker, NEW g \in TypedFrame, frame' = [frame EXCEPT ![w] = g],
         frame[w].pc \in {"route", "check", "enable", "ready"},
         \/ g.op # "advance" /\ frame[w].op # "advance" /\ g.pc \notin {"route", "deliver"}
         \/ /\ g.op = "advance" /\ frame[w].op = "advance"
            /\ g.node = frame[w].node /\ g.todo = frame[w].todo
            /\ g.pc \in {"route", "enable", "ready"}
         \/ frame[w].todo = {} /\ g.pc \in {"pop", "failgraph"}
  PROVE  Delivered'
<1> DEFINE f == frame[w]
<1>1. f \in OwnFrame(Answered) /\ f \in OwnFrame(Answered') BY OwnCall, OwnMonotone
<1>2. edges \subseteq Edge BY DEF Typed, TypeOK
<1>3. g \in OwnFrame(Answered')
  <2> HIDE DEF f
  <2> QED BY <1>1 DEF OwnFrame, RoutingPc, f
<1> QED BY <1>2, <1>3, DeliveredStep DEF InRouting, RoutingPc

LEMMA ResumeFields ==
  ASSUME NEW f \in TypedFrame
  PROVE  \/ /\ f.op = "advance" /\ Resume(f).op = "advance" /\ Resume(f).pc = "route"
            /\ Resume(f).node = f.node /\ Resume(f).todo = f.todo
         \/ f.op # "advance" /\ Resume(f).op # "advance" /\ Resume(f).pc \in {"seed", "idle"}
<1>1. CASE f.op = "advance" BY <1>1 DEF Resume, TypedFrame, Frame
<1>2. CASE f.op = "start" BY <1>2 DEF Resume, TypedFrame, Frame
<1>3. CASE f.op \notin {"advance", "start"} BY <1>3 DEF Resume, IdleFrame
<1> QED BY <1>1, <1>2, <1>3

LEMMA CheckDelivered ==
  ASSUME Typed, Delivered, NEW w \in Worker, Check(w) \/ NotEnabled(w) \/ LogReady(w)
  PROVE  Delivered'
<1> DEFINE f == frame[w]
           g == frame'[w]
<1>1. f \in TypedFrame /\ g \in TypedFrame
  BY CallFrame, CheckTyped, LogReadyTyped DEF Typed
<1>2. UNCHANGED <<edges, tokens, nodeStatus, output>> /\ f.pc \in {"check", "enable", "ready"}
  BY DEF Check, NotEnabled, LogReady, topology, At
<1>3. Answered \subseteq Answered' /\ \A n : Once(n)' => Once(n)
  <2>1. CASE Check(w) \/ NotEnabled(w) BY <2>1, SameLog DEF Check, NotEnabled
  <2>2. CASE LogReady(w)
    <3>1. Ev("NodeReady", f.target) \in Event
      BY <1>1, FrameFields DEF Ev, Event, EventType
    <3> QED BY <2>2, <3>1, OnceBefore DEF LogReady, Persist
  <2> QED BY <2>1, <2>2
<1>4. CASE frame' = [frame EXCEPT ![w] = Resume(f)]
  <2>1. frame' = [frame EXCEPT ![w] = g] /\ g = Resume(f) BY <1>4 DEF Typed
  <2> QED BY <1>1, <1>2, <1>3, <2>1, ResumeFields, CheckingStep
<1>5. CASE frame' = [frame EXCEPT ![w] = [f EXCEPT !.pc = "enable"]]
  <2>1. /\ frame' = [frame EXCEPT ![w] = g] /\ g.pc = "enable" /\ g.op = f.op
        /\ g.node = f.node /\ g.todo = f.todo
    BY <1>1, <1>5 DEF Typed, TypedFrame, Frame
  <2> QED BY <1>1, <1>2, <1>3, <2>1, CheckingStep
<1> QED BY <1>4, <1>5 DEF Check, NotEnabled, LogReady

LEMMA RoutedDelivered ==
  ASSUME Typed, Delivered, NEW w \in Worker, Routed(w) PROVE Delivered'
<1> DEFINE f == frame[w]
           g == frame'[w]
<1>1. f \in TypedFrame /\ g \in TypedFrame /\ f \in OwnFrame(Answered)
  BY CallFrame, RoutedTyped, OwnCall DEF Typed
<1>2. f.pc = "route" /\ f.todo = {} BY DEF Routed, At
<1>3. f.op = "advance" BY <1>1, <1>2 DEF OwnFrame
<1>4. frame' = [frame EXCEPT ![w] = g] /\ g.pc = AfterRouting(f)
  BY <1>1 DEF Routed, Goto, Typed, TypedFrame, Frame
<1>5. AfterRouting(f) \in {"pop", "failgraph"} BY <1>3 DEF AfterRouting
<1> QED BY <1>1, <1>2, <1>4, <1>5, SameLog, CheckingStep DEF Routed, topology

LEMMA EnableDelivered ==
  ASSUME Typed, Delivered, NEW w \in Worker, EnableTask(w) \/ EnableGather(w)
  PROVE  Delivered'
<1> DEFINE f == frame[w]
           g == frame'[w]
<1>1. f \in TypedFrame /\ g \in TypedFrame BY CallFrame, EnableTyped DEF Typed
<1>2. UNCHANGED <<edges, tokens, log>> /\ f.pc = "enable" /\ f.target \in Node
  BY <1>1 DEF EnableTask, EnableGather, topology, At, TypedFrame
<1>3. \A m \in Node : nodeStatus'[m] = "complete" =>
             nodeStatus[m] = "complete" /\ output'[m] = output[m]
  BY <1>2, NoNewComplete DEF EnableTask, EnableGather
<1>4. CASE EnableTask(w)
  <2>1. /\ frame' = [frame EXCEPT ![w] = g] /\ g.pc = "ready" /\ g.op = f.op
        /\ g.node = f.node /\ g.todo = f.todo
    BY <1>1, <1>4 DEF EnableTask, Goto, Typed, TypedFrame, Frame
  <2> QED BY <1>1, <1>2, <1>3, <2>1, SameLog, CheckingStep
<1>5. CASE EnableGather(w)
  <2>1. PICK out : frame' = [frame EXCEPT ![w] = Enqueue(f, f.target, out)]
    BY <1>5 DEF EnableGather
  <2>2. frame' = [frame EXCEPT ![w] = g] /\ g = Enqueue(f, f.target, out)
    BY <2>1 DEF Typed
  <2>3. \/ g = Resume(f)
        \/ /\ f.op = "advance" /\ g.op = Resume(f).op /\ g.pc = Resume(f).pc
           /\ g.node = Resume(f).node /\ g.todo = Resume(f).todo
    <3>1. Resume(f) \in Frame BY <1>1, ResumeType DEF TypedFrame
    <3>2. g = IF f.op = "advance"
              THEN [Resume(f) EXCEPT !.queue =
                       Append(@, [node |-> f.target, out |-> out, failed |-> FALSE])]
              ELSE Resume(f)
      BY <2>2 DEF Enqueue
    <3> DEFINE r == Resume(f)
    <3> HIDE DEF r, f, g
    <3> QED BY <3>1, <3>2 DEF Frame, r
  <2> HIDE DEF f, g
  <2> QED BY <1>1, <1>2, <1>3, <2>2, <2>3, ResumeFields, SameLog, CheckingStep, ZenonT(40) DEF f
<1> QED BY <1>4, <1>5

LEMMA MarkDelivered ==
  ASSUME Typed, Delivered, NEW w \in Worker, Mark(w) PROVE Delivered'
<1> DEFINE f == frame[w]
           g == frame'[w]
<1>1. f \in TypedFrame /\ g \in TypedFrame BY CallFrame, MarkTyped DEF Typed
<1>2. UNCHANGED <<edges, tokens, log>> /\ f.pc = "mark" /\ f.node \in Node
  BY <1>1 DEF Mark, At, topology, TypedFrame
<1>3. /\ frame' = [frame EXCEPT ![w] = g] /\ g.pc = "log" /\ g.node = f.node
      /\ g.failed = f.failed /\ g.out = f.out
  BY <1>1 DEF Mark, Goto, Typed, TypedFrame, Frame
<1>4. /\ \A m \in Node \ {f.node} : nodeStatus'[m] = nodeStatus[m] /\ output'[m] = output[m]
      /\ nodeStatus'[f.node] = "complete" => ~ f.failed /\ output'[f.node] = f.out
  BY <1>2 DEF Mark, SetNode, Typed, TypeOK
<1> HIDE DEF f, g
<1>5. g \in OwnFrame(Answered) BY <1>1, <1>3 DEF OwnFrame, RoutingPc
<1>6. frame' \in [Worker -> OwnFrame(Answered')] BY <1>2, <1>3, <1>5, SameLog DEF Delivered
<1>7. \A u \in Worker : frame'[u] = IF u = w THEN g ELSE frame[u] BY <1>3 DEF Typed
<1>8. \A n : ~ Routing(w, n) /\ ~ Routing(w, n)'
  BY <1>2, <1>3, <1>7 DEF Routing, RoutingPc, f
<1>9. \A u \in Worker : \A n : Routing(u, n)' <=> Routing(u, n)
  BY <1>7, <1>8 DEF Routing
<1>10. \A n \in Node : Once(n)' =>
         \A u, v \in Worker : Routing(u, n)' /\ Routing(v, n)' => u = v
  BY <1>2, <1>9, SameLog DEF Delivered
<1>11. \A n \in Node : Once(n)' =>
         \A u \in Worker : Routing(u, n)' /\ At(u, "deliver")' => ~ Taken(u)'
  BY <1>2, <1>7, <1>8, <1>9, SameLog DEF Delivered, Taken, At
<1>12. \A e \in edges : Fed(e)'
  <2> SUFFICES ASSUME NEW e \in edges, nodeStatus'[From[e]] = "complete",
                      \E t \in output'[From[e]] : Matches(Cond[e], t.color), Once(From[e])'
               PROVE  HasToken(e) \/ \E u \in Worker : Holds(u, e)'
    BY <1>2 DEF Fed, HasToken
  <2>1. From[e] \in Node BY GraphAssumption DEF Typed, TypeOK
  <2>2. CASE From[e] = f.node
    <3>1. Holds(w, e)' BY <1>3, <1>4, <1>7, <2>2 DEF Holds
    <3> QED BY <3>1
  <2>3. CASE From[e] # f.node
    <3>1. HasToken(e) \/ \E u \in Worker : Holds(u, e)
      BY <1>2, <1>4, <2>1, <2>3, SameLog DEF Delivered, Fed
    <3>2. ~ Holds(w, e) BY <1>2, <1>8 DEF Holds, f
    <3>3. \A u \in Worker \ {w} : Holds(u, e) => Holds(u, e)'
      BY <1>4, <1>7, <2>1, <2>3 DEF Holds, Routing
    <3> QED BY <3>1, <3>2, <3>3
  <2> QED BY <2>2, <2>3
<1> QED BY <1>2, <1>6, <1>10, <1>11, <1>12 DEF Delivered

LEMMA LogNodeDelivered ==
  ASSUME Typed, Delivered, NEW w \in Worker, LogNode(w) PROVE Delivered'
<1> DEFINE f == frame[w]
           g == frame'[w]
<1>1. f \in TypedFrame /\ g \in TypedFrame BY CallFrame, LogNodeTyped DEF Typed
<1>2. UNCHANGED <<edges, tokens, nodeStatus, output>> /\ f.pc = "log"
  BY DEF LogNode, At, topology
<1>3. f.op = "advance" /\ f.node \in Node BY <1>1, <1>2 DEF TypedFrame
<1> PICK n \in Node : n = f.node BY <1>3
<1>4. /\ frame' = [frame EXCEPT ![w] = g] /\ g.pc = "route" /\ g.op = "advance" /\ g.node = n
      /\ g.todo = {h \in [tok : f.out, edge : Outbound(n)] : Matches(Cond[h.edge], h.tok.color)}
  BY <1>1, <1>3 DEF LogNode, Typed, TypedFrame, Frame
<1>5. PICK a \in Answers(n) : a \in Event /\ log' = Append(log, a)
  <2>1. Ev("NodeDone", n) \in Event /\ Ev("NodeFailed", n) \in Event
    BY DEF Ev, Event, EventType
  <2> QED BY <2>1 DEF LogNode, Persist, Answers
<1> HIDE DEF f, g
<1>6. Answered \subseteq Answered' /\ \A m : Once(m)' => Once(m) BY <1>5, OnceBefore
<1>7. n \in Answered'
  <2>1. Events' = Events \cup {a} BY <1>5, AppendKeeps
  <2> QED BY <1>5, <2>1 DEF Answered, Answers, Ev
<1>8. n \in Answered => ~ Once(n)'
  <2>1. /\ DOMAIN log' = 1..(Len(log) + 1) /\ DOMAIN log = 1..Len(log)
        /\ \A i \in DOMAIN log : log'[i] = log[i]
        /\ log'[Len(log) + 1] = a
    BY <1>5, AppendKeeps
  <2>2. Len(log) \in Nat BY DEF Typed, TypeOK
  <2> SUFFICES ASSUME n \in Answered PROVE ~ Once(n)'
    OBVIOUS
  <2>3. PICK i \in DOMAIN log : log[i] \in Answers(n) BY DEF Answered, Events
  <2>4. Answers(n)' = Answers(n) BY DEF Answers, Ev
  <2>5. i \in DOMAIN log' /\ Len(log) + 1 \in DOMAIN log' /\ i # Len(log) + 1
    BY <2>1, <2>2, <2>3
  <2> QED BY <1>5, <2>1, <2>3, <2>4, <2>5 DEF Once
<1>9. g \in OwnFrame(Answered')
  <2>1. \A h \in g.todo : From[h.edge] = n BY <1>4 DEF Outbound
  <2> QED BY <1>1, <1>4, <1>7, <2>1 DEF OwnFrame
<1>10. frame' \in [Worker -> OwnFrame(Answered')]
  BY <1>4, <1>6, <1>9, OwnMonotone DEF Delivered
<1>11. \A u \in Worker : frame'[u] = IF u = w THEN g ELSE frame[u] BY <1>4 DEF Typed
<1>12. \A m : ~ Routing(w, m) /\ (Routing(w, m)' => m = n)
  BY <1>2, <1>4, <1>11 DEF Routing, RoutingPc, f
<1>13. \A u \in Worker \ {w} : \A m : Routing(u, m)' <=> Routing(u, m)
  BY <1>11 DEF Routing
<1>14. \A u \in Worker : Routing(u, n) => n \in Answered
  BY DEF Routing, Delivered, OwnFrame
<1>15. \A m \in Node : Once(m)' =>
         \A u, v \in Worker : Routing(u, m)' /\ Routing(v, m)' => u = v
  BY <1>6, <1>8, <1>12, <1>13, <1>14 DEF Delivered
<1>16. \A m \in Node : Once(m)' =>
         \A u \in Worker : Routing(u, m)' /\ At(u, "deliver")' => ~ Taken(u)'
  BY <1>2, <1>4, <1>6, <1>11, <1>13 DEF Delivered, Taken, At
<1>17. \A e \in edges : Fed(e)'
  <2> SUFFICES ASSUME NEW e \in edges, nodeStatus[From[e]] = "complete",
                      \E t \in output[From[e]] : Matches(Cond[e], t.color), Once(From[e])'
               PROVE  HasToken(e) \/ \E u \in Worker : Holds(u, e)'
    BY <1>2 DEF Fed, HasToken
  <2>1. HasToken(e) \/ \E u \in Worker : Holds(u, e) BY <1>6 DEF Delivered, Fed
  <2>2. \A u \in Worker \ {w} : Holds(u, e) => Holds(u, e)'
    BY <1>2, <1>11 DEF Holds, Routing
  <2>3. Holds(w, e) => Holds(w, e)'
    <3> SUFFICES ASSUME Holds(w, e) PROVE Holds(w, e)'
      OBVIOUS
    <3>1. From[e] = n /\ f.out = output[n] BY <1>2, <1>12 DEF Holds, f
    <3>2. PICK t \in f.out : Matches(Cond[e], t.color) BY <3>1
    <3>3. e \in Outbound(n) BY <3>1 DEF Outbound
    <3>4. [tok |-> t, edge |-> e] \in g.todo BY <1>4, <3>2, <3>3
    <3> QED BY <1>4, <1>11, <3>1, <3>4 DEF Holds, Routing, RoutingPc
  <2> QED BY <2>1, <2>2, <2>3
<1> QED BY <1>2, <1>10, <1>15, <1>16, <1>17 DEF Delivered

LEMMA RouteDelivered ==
  ASSUME Typed, Placed, Delivered, NEW w \in Worker, Route(w) PROVE Delivered'
<1> DEFINE f == frame[w]
           g == frame'[w]
<1>1. f \in TypedFrame /\ g \in TypedFrame /\ f \in OwnFrame(Answered)
  BY CallFrame, RouteTyped, OwnCall DEF Typed
<1>2. UNCHANGED <<edges, tokens, nodeStatus, output, log>> /\ f.pc = "route"
  BY DEF Route, At, topology
<1>3. PICK h \in NextHops(f) : frame' = [frame EXCEPT ![w] =
         [f EXCEPT !.pc = "deliver", !.hop = h, !.todo = @ \ {h}, !.seq = NextSeq(h.edge)]]
  BY DEF Route
<1>4. h \in f.todo BY DEF NextHops
<1>5. /\ frame' = [frame EXCEPT ![w] = g] /\ g.pc = "deliver" /\ g.hop = h
      /\ g.todo = f.todo \ {h} /\ g.seq = NextSeq(h.edge) /\ g.op = f.op /\ g.node = f.node
  BY <1>1, <1>3 DEF Typed, TypedFrame, Frame
<1>6. ~ \E r \in tokens : r.edge = h.edge /\ r.seq = NextSeq(h.edge) BY FreshPosition
<1> HIDE DEF f, g
<1>7. f.op = "advance" /\ From[h.edge] = f.node BY <1>1, <1>2, <1>4 DEF OwnFrame, RoutingPc
<1>8. g \in OwnFrame(Answered) BY <1>1, <1>2, <1>5, <1>7 DEF OwnFrame, RoutingPc
<1>9. frame' \in [Worker -> OwnFrame(Answered')] BY <1>2, <1>5, <1>8, SameLog DEF Delivered
<1>10. \A u \in Worker : frame'[u] = IF u = w THEN g ELSE frame[u] BY <1>5 DEF Typed
<1>11. \A u \in Worker : \A n : Routing(u, n)' <=> Routing(u, n)
  BY <1>2, <1>5, <1>10 DEF Routing, RoutingPc, f
<1>12. ~ Taken(w)' BY <1>2, <1>5, <1>6, <1>10 DEF Taken
<1>13. \A n \in Node : Once(n)' =>
         /\ \A u, v \in Worker : Routing(u, n)' /\ Routing(v, n)' => u = v
         /\ \A u \in Worker : Routing(u, n)' /\ At(u, "deliver")' => ~ Taken(u)'
  BY <1>2, <1>10, <1>11, <1>12, SameLog DEF Delivered, Taken, At
<1>14. \A e : \A u \in Worker : Holds(u, e) => Holds(u, e)'
  <2> SUFFICES ASSUME NEW e, NEW u \in Worker, Holds(u, e) PROVE Holds(u, e)'
    OBVIOUS
  <2>1. CASE u # w BY <1>2, <1>10, <2>1 DEF Holds, Routing
  <2>2. CASE u = w
    <3>1. Routing(w, From[e])' BY <1>2, <1>11, <2>2 DEF Holds, f
    <3>2. \E k \in f.todo : k.edge = e BY <1>2, <2>2 DEF Holds, f
    <3> QED BY <1>5, <1>10, <2>2, <3>1, <3>2 DEF Holds
  <2> QED BY <2>1, <2>2
<1>15. \A e \in edges : Fed(e)'
  <2>1. \A e : HasToken(e)' <=> HasToken(e) BY <1>2 DEF HasToken
  <2> QED BY <1>2, <1>14, <2>1, SameLog DEF Delivered, Fed
<1> QED BY <1>2, <1>9, <1>13, <1>15 DEF Delivered

LEMMA DeliverDelivered ==
  ASSUME Typed, Delivered, NEW w \in Worker, Deliver(w) PROVE Delivered'
<1> DEFINE f == frame[w]
           g == frame'[w]
<1>1. f \in TypedFrame /\ g \in TypedFrame /\ f \in OwnFrame(Answered)
  BY CallFrame, DeliverTyped, OwnCall DEF Typed
<1>2. UNCHANGED <<edges, nodeStatus, output, log>> /\ f.pc = "deliver"
  BY DEF Deliver, At, topology
<1>3. f.op = "advance" /\ f.node \in Answered /\ From[f.hop.edge] = f.node
  BY <1>1, <1>2 DEF OwnFrame, RoutingPc
<1>4. Routing(w, f.node) BY <1>2, <1>3 DEF Routing, RoutingPc
<1>5. Answered' = Answered /\ \A n : Once(n)' <=> Once(n) BY <1>2, SameLog
<1>6. \A u \in Worker : \A e : u # w /\ Holds(u, e) => Holds(u, e)'
  <2>1. \A u \in Worker : u # w => frame'[u] = frame[u]
    BY DEF Deliver, Return, Typed
  <2> QED BY <1>2, <2>1 DEF Holds, Routing
<1>7. CASE Taken(w)
  <2>1. frame' = [frame EXCEPT ![w] = IdleFrame] /\ UNCHANGED tokens
    BY <1>7 DEF Deliver, Return, Taken
  <2>2. ~ Once(f.node) BY <1>2, <1>3, <1>4, <1>7 DEF Delivered, At, Answered
  <2>3. \A u \in Worker : frame'[u] = IF u = w THEN IdleFrame ELSE frame[u]
    BY <2>1 DEF Typed
  <2>4. IdleFrame \in OwnFrame(Answered)
    BY IdleFrameType DEF OwnFrame, IdleFrame, RoutingPc
  <2>5. frame' \in [Worker -> OwnFrame(Answered')] BY <1>5, <2>1, <2>4 DEF Delivered
  <2>6. IdleFrame.pc = "idle" BY DEF IdleFrame
  <2>7. \A u \in Worker : \A n : Routing(u, n)' => Routing(u, n) /\ u # w
    BY <2>3, <2>6 DEF Routing, RoutingPc
  <2>8. \A n \in Node : Once(n)' =>
           /\ \A u, v \in Worker : Routing(u, n)' /\ Routing(v, n)' => u = v
           /\ \A u \in Worker : Routing(u, n)' /\ At(u, "deliver")' => ~ Taken(u)'
    BY <1>5, <2>1, <2>3, <2>7 DEF Delivered, Taken, At
  <2>9. \A e \in edges : Fed(e)'
    <3> SUFFICES ASSUME NEW e \in edges, nodeStatus[From[e]] = "complete",
                        \E t \in output[From[e]] : Matches(Cond[e], t.color), Once(From[e])
                 PROVE  HasToken(e) \/ \E u \in Worker : Holds(u, e)'
      BY <1>2, <1>5, <2>1 DEF Fed, HasToken
    <3>1. HasToken(e) \/ \E u \in Worker : Holds(u, e) BY DEF Delivered, Fed
    <3>2. From[e] # f.node BY <2>2
    <3>3. ~ Holds(w, e) BY <1>2, <3>2 DEF Holds, Routing
    <3> QED BY <1>6, <3>1, <3>3
  <2> QED BY <1>2, <2>5, <2>8, <2>9 DEF Delivered
<1>8. CASE ~ Taken(w)
  <2> DEFINE k == f.hop.edge
  <2>1. PICK row : row = [edge |-> k, seq |-> f.seq, color |-> f.hop.tok.color]
    OBVIOUS
  <2>2. tokens' = tokens \cup {row} /\ row.edge = k BY <1>8, <2>1 DEF Deliver, Taken
  <2>3. /\ frame' = [frame EXCEPT ![w] = g] /\ g.pc = "check" /\ g.op = f.op
        /\ g.node = f.node /\ g.todo = f.todo
    <3>1. frame' = [frame EXCEPT ![w] =
                       [f EXCEPT !.any = TRUE, !.target = To[k], !.pc = "check"]]
      BY <1>3, <1>8 DEF Deliver, Taken
    <3> QED BY <1>1, <3>1 DEF Typed, TypedFrame, Frame
  <2> HIDE DEF f, g, k
  <2>4. g \in OwnFrame(Answered)
    BY <1>1, <1>2, <1>3, <2>3 DEF OwnFrame, RoutingPc
  <2>5. frame' \in [Worker -> OwnFrame(Answered')] BY <1>5, <2>3, <2>4 DEF Delivered
  <2>6. \A u \in Worker : frame'[u] = IF u = w THEN g ELSE frame[u] BY <2>3 DEF Typed
  <2>7. \A u \in Worker : \A n : Routing(u, n)' <=> Routing(u, n)
    BY <1>2, <2>3, <2>6 DEF Routing, RoutingPc, f
  <2>8. \A n \in Node : Once(n)' =>
           \A u, v \in Worker : Routing(u, n)' /\ Routing(v, n)' => u = v
    BY <1>5, <2>7 DEF Delivered
  <2>9. \A n \in Node : Once(n)' =>
           \A u \in Worker : Routing(u, n)' /\ At(u, "deliver")' => ~ Taken(u)'
    <3> SUFFICES ASSUME NEW n \in Node, Once(n), NEW u \in Worker,
                        Routing(u, n)', At(u, "deliver")'
                 PROVE  ~ Taken(u)'
      BY <1>5
    <3>1. u # w BY <2>3, <2>6 DEF At
    <3>2. Routing(u, n) /\ frame'[u] = frame[u] /\ At(u, "deliver")
      BY <2>6, <2>7, <3>1 DEF At
    <3>3. ~ Taken(u) BY <3>2 DEF Delivered
    <3>4. From[frame[u].hop.edge] = n
      BY <3>2 DEF Delivered, OwnFrame, Routing, At
    <3>5. n # f.node BY <1>4, <3>1, <3>2 DEF Delivered
    <3>6. frame[u].hop.edge # k BY <1>3, <3>4, <3>5 DEF k
    <3> QED BY <2>2, <3>2, <3>3, <3>6 DEF Taken
  <2>10. \A e \in edges : Fed(e)'
    <3> SUFFICES ASSUME NEW e \in edges, Fed(e)
                 PROVE  Fed(e)'
      BY DEF Delivered
    <3>1. HasToken(e) => HasToken(e)' BY <2>2 DEF HasToken
    <3>2. Holds(w, e) => Holds(w, e)' \/ HasToken(e)'
      <4> SUFFICES ASSUME Holds(w, e) PROVE Holds(w, e)' \/ HasToken(e)'
        OBVIOUS
      <4>1. Routing(w, From[e])' BY <1>2, <2>7 DEF Holds, f
      <4>2. CASE k = e BY <2>2, <4>2 DEF HasToken
      <4>3. CASE \E h \in f.todo : h.edge = e BY <2>3, <2>6, <4>1, <4>3 DEF Holds
      <4> QED BY <1>2, <4>2, <4>3 DEF Holds, f, k
    <3> QED BY <1>2, <1>5, <1>6, <3>1, <3>2 DEF Fed
  <2> QED BY <1>2, <2>5, <2>8, <2>9, <2>10 DEF Delivered
<1> QED BY <1>7, <1>8

LEMMA StepDelivered ==
  ASSUME Typed, Placed, Delivered, NEW w \in Worker, Step(w) PROVE Delivered'
  BY RootsDelivered, PopDelivered, MarkDelivered, LogNodeDelivered, RouteDelivered,
     DeliverDelivered, RoutedDelivered, EndDelivered, LogOutcomeDelivered,
     CheckDelivered, EnableDelivered DEF Step

LEMMA NextDelivered == Typed /\ Placed /\ Delivered /\ [Next]_vars => Delivered'
<1> SUFFICES ASSUME Typed, Placed, Delivered, [Next]_vars PROVE Delivered'
  OBVIOUS
<1>1. CASE Cancel \/ UNCHANGED vars
  <2>1. UNCHANGED <<edges, tokens, log, nodeStatus, output, frame>>
    BY <1>1 DEF Cancel, vars, topology
  <2>2. Answered' = Answered /\ \A n : Once(n)' <=> Once(n) BY <2>1, SameLog
  <2>3. \A n : \A w : Routing(w, n)' <=> Routing(w, n) BY <2>1 DEF Routing
  <2>4. \A w : Taken(w)' <=> Taken(w) BY <2>1 DEF Taken
  <2>5. \A e : \A w : Holds(w, e)' <=> Holds(w, e) BY <2>1, <2>3 DEF Holds
  <2>6. \A e : Fed(e)' <=> Fed(e) BY <2>1, <2>2, <2>5 DEF Fed, HasToken
  <2> QED BY <2>1, <2>2, <2>3, <2>4, <2>6 DEF Delivered, At
<1>2. CASE \E w \in Worker : Execute(w) BY <1>2, BeginDelivered, StepDelivered DEF Execute
<1> QED BY <1>1, <1>2 DEF Next

LEMMA GrowthAllowed == Spec => GrowSpec
<1>1. [Next]_vars => [GrowNext]_vars BY DEF GrowNext
<1> QED BY <1>1, PTL DEF Spec, GrowSpec

LEMMA AlwaysDelivered == Spec => [](Typed /\ Placed /\ Delivered)
<1>1. Init => Delivered BY InitDelivered, InitTyped
<1>2. Typed /\ Placed /\ Delivered /\ [Next]_vars => Delivered' BY NextDelivered
<1> QED BY <1>1, <1>2, GrowthAllowed, AlwaysPlaced, PTL DEF Spec

\* Tokens are lost only between calls that answer the same node: as long as every node is
\* answered once in the log, advance_graph has routed each complete node's output over
\* all its edges when the last call ends, however many calls deliver at the same time.
THEOREM TokensReachTheirEdges == Spec => [](AnsweredOnce => NoTokenLost)
<1>1. Typed /\ Placed /\ Delivered => (AnsweredOnce => NoTokenLost)
  <2> SUFFICES ASSUME Placed, Delivered, AnsweredOnce, AllIdle, NEW e \in edges,
                      nodeStatus[From[e]] = "complete", From[e] \in nodes,
                      \E t \in output[From[e]] : Matches(Cond[e], t.color)
               PROVE  HasToken(e)
    BY DEF NoTokenLost, Placed
  <2>1. Once(From[e]) BY DEF AnsweredOnce, Once
  <2>2. HasToken(e) \/ \E w \in Worker : Holds(w, e) BY <2>1 DEF Delivered, Fed
  <2>3. \A w \in Worker : ~ Holds(w, e)
    BY DEF Holds, Routing, RoutingPc, AllIdle, At
  <2> QED BY <2>2, <2>3
<1> QED BY <1>1, AlwaysDelivered, PTL
-----------------------------------------------------------------------------
(***************************************************************************)
(* One call at a time.  A node is answered only after its predecessors,    *)
(* so while the tokens of a node are routed none of its successors has     *)
(* been answered: check_and_ready, which would make a complete node ready  *)
(* again, finds none that is complete.                                     *)
(***************************************************************************)
SerialFrame ==
    {f \in TypedFrame :
        /\ f.pc # "idle" => graphStatus # "pending"
        /\ f.op = "start" => Answered = {}
        /\ f.pc \in {"check", "enable"} => f.op = "advance"
        /\ f.pc = "ready" => f.op \in {"advance", "start"}
        /\ \A i \in DOMAIN f.queue : Sources(f.queue[i].node) \subseteq Answered
        /\ f.pc \in {"mark", "log"} => Sources(f.node) \subseteq Answered
        /\ f.pc = "mark" => ~ IsTerminal(nodeStatus[f.node])
        /\ f.pc = "log" => IsTerminal(nodeStatus[f.node]) /\ f.node \notin Answered
        /\ InRouting(f) =>
              /\ \A n \in Answered : f.node \notin Sources(n)
              /\ f.pc \in {"check", "enable", "ready"} => f.node \in Sources(f.target)}

Serial ==
    /\ \A n \in Node : Once(n)
    /\ \A n \in Answered : IsTerminal(nodeStatus[n]) /\ Sources(n) \subseteq Answered
    /\ graphStatus = "pending" => log = <<>>
    /\ frame \in [Worker -> SerialFrame]

OneCall == \A v, w \in Worker : v = w
NoLoops == \A e \in InitEdge : From[e] # To[e]

LEMMA SerialCall == ASSUME Serial, NEW w \in Worker PROVE frame[w] \in SerialFrame
  BY DEF Serial

LEMMA IdleSerial == IdleFrame \in SerialFrame /\ IdleFrame \in SerialFrame'
<1>1. IdleFrame.pc = "idle" /\ IdleFrame.op = "none" /\ IdleFrame.queue = <<>>
  BY DEF IdleFrame
<1>2. \A i \in DOMAIN IdleFrame.queue : FALSE BY <1>1
<1> QED BY <1>1, <1>2, IdleFrameType DEF SerialFrame, InRouting

LEMMA InitSerial == Init => Serial
<1> SUFFICES ASSUME Init PROVE Serial OBVIOUS
<1>1. Answered = {} BY DEF Init, Answered, Events
<1>2. \A n \in Node : Once(n) BY DEF Init, Once
<1> QED BY <1>1, <1>2, IdleSerial DEF Init, Serial

\* What a statement that answers no node has to show: there is no other call.
LEMMA SerialStep ==
  ASSUME OneCall, Typed, Typed', Serial,
         Answered' = Answered, \A n \in Node : Once(n)',
         \A n \in Answered : IsTerminal(nodeStatus'[n]),
         graphStatus' = "pending" => log' = <<>>,
         NEW w \in Worker, frame'[w] \in SerialFrame'
  PROVE  Serial'
<1>1. frame' \in [Worker -> SerialFrame'] BY DEF OneCall, Typed
<1>2. \A n \in Answered' : IsTerminal(nodeStatus'[n]) /\ Sources(n) \subseteq Answered'
  BY DEF Serial
<1> QED BY <1>1, <1>2 DEF Serial

\* The same for a statement that logs nothing.
LEMMA SilentSerial ==
  ASSUME OneCall, Typed, Typed', Serial, log' = log,
         \A n \in Answered : IsTerminal(nodeStatus'[n]),
         graphStatus' = "pending" => graphStatus = "pending",
         NEW w \in Worker, frame'[w] \in SerialFrame'
  PROVE  Serial'
  BY SameLog, SerialStep DEF Serial

\* A statement that logs an event which is no answer.
LEMMA NoAnswer ==
  ASSUME Typed, NEW e \in Event, e.type \notin {"NodeDone", "NodeFailed"},
         log' = Append(log, e)
  PROVE  Answered' = Answered /\ \A n : Once(n) => Once(n)'
<1>1. /\ DOMAIN log' = 1..(Len(log) + 1) /\ DOMAIN log = 1..Len(log)
      /\ \A i \in DOMAIN log : log'[i] = log[i]
      /\ log'[Len(log) + 1] = e
      /\ Events' = Events \cup {e}
  BY AppendKeeps
<1>2. \A n : Answers(n)' = Answers(n) BY DEF Answers, Ev
<1>3. \A n : e \notin Answers(n) BY DEF Answers, Ev
<1>4. Answered' = Answered BY <1>1, <1>2, <1>3 DEF Answered
<1>5. Len(log) \in Nat BY DEF Typed, TypeOK
<1>6. \A n : \A i \in DOMAIN log' : log'[i] \in Answers(n) => i \in DOMAIN log
  BY <1>1, <1>3, <1>5
<1>7. \A n : Once(n) => Once(n)' BY <1>1, <1>2, <1>6 DEF Once
<1> QED BY <1>4, <1>7

LEMMA StartSerial ==
  ASSUME OneCall, Typed, Serial, NEW w \in Worker, Start(w) PROVE Serial'
<1> DEFINE g == frame'[w]
<1>1. Typed' /\ g \in TypedFrame BY StartTyped DEF Typed
<1>2. /\ g.pc = "roots" /\ g.op = "start" /\ g.queue = <<>>
  BY DEF Start, IdleFrame, Typed
<1>3. log = <<>> /\ UNCHANGED <<log, nodeStatus>> /\ graphStatus' = "running"
  BY DEF Start, Serial
<1>4. Answered' = {} BY <1>3 DEF Answered, Events
<1>5. g \in SerialFrame'
  <2> HIDE DEF g
  <2> QED BY <1>1, <1>2, <1>3, <1>4 DEF SerialFrame, InRouting
<1> QED BY <1>1, <1>3, <1>5, SilentSerial DEF Serial

LEMMA ReportSerial ==
  ASSUME OneCall, Typed, Causality, Serial, NEW w \in Worker, NEW n \in Node, Report(w, n)
  PROVE  Serial'
<1> DEFINE g == frame'[w]
<1>1. Typed' /\ g \in TypedFrame BY ReportTyped DEF Typed
<1>2. PICK out, failed : Advance(w, n, out, failed) BY DEF Report
<1>3. /\ g.pc = "pop" /\ g.op = "advance"
      /\ g.queue = <<[node |-> n, out |-> out, failed |-> failed]>>
  BY <1>2 DEF Advance, IdleFrame, Typed
<1>4. UNCHANGED <<log, nodeStatus, graphStatus>> /\ Ev("NodeReady", n) \in Events
  BY DEF Report
<1>5. graphStatus # "pending" BY <1>4 DEF Serial, Events
<1>6. Sources(n) \subseteq Answered
  <2>1. PICK i \in DOMAIN log : log[i] = Ev("NodeReady", n) BY <1>4 DEF Events
  <2>2. log[i].type = "NodeReady" /\ log[i].node = n BY <2>1 DEF Ev
  <2>3. \A p \in Preds(n) : \E j \in 1..(i - 1) : log[j] \in Answers(p)
    BY <2>2 DEF Causality, DependencyOrder
  <2>4. \A j \in 1..(i - 1) : j \in DOMAIN log
    <3>1. log \in Seq(Event) BY DEF Typed, TypeOK
    <3> QED BY <3>1
  <2>5. Sources(n) \subseteq Node BY GraphAssumption DEF Sources
  <2> QED BY <2>3, <2>4, <2>5, PredsAreSources DEF Causality, Answered, Events
<1>7. \A i \in DOMAIN g.queue : g.queue[i].node = n BY <1>3
<1>8. g \in SerialFrame'
  <2> HIDE DEF g
  <2> QED BY <1>1, <1>3, <1>4, <1>5, <1>6, <1>7, SameLog DEF SerialFrame, InRouting, RoutingPc
<1> QED BY <1>1, <1>4, <1>8, SilentSerial DEF Serial

LEMMA RootsSerial ==
  ASSUME OneCall, Typed, Serial, NEW w \in Worker, ReadRoots(w) \/ Seeded(w)
  PROVE  Serial'
<1> DEFINE f == frame[w]
           g == frame'[w]
<1>1. Typed' /\ f \in SerialFrame /\ f \in TypedFrame /\ g \in TypedFrame
  BY CallFrame, SerialCall, ReadRootsTyped, SeededTyped DEF Typed
<1>2. UNCHANGED <<log, nodeStatus, graphStatus>> BY DEF ReadRoots, Seeded
<1>3. CASE ReadRoots(w)
  <2>1. f.pc = "roots" /\ g.pc \in {"done", "seed"} /\ g.op = f.op /\ g.queue = f.queue
    BY <1>1, <1>3 DEF ReadRoots, At, Typed, TypedFrame, Frame
  <2>2. f.op = "start" BY <1>1, <2>1 DEF TypedFrame
  <2>3. g \in SerialFrame'
    <3> HIDE DEF f, g
    <3> QED BY <1>1, <1>2, <2>1, <2>2, SameLog DEF SerialFrame, InRouting
  <2> QED BY <1>1, <1>2, <2>3, SilentSerial DEF Serial
<1>4. CASE Seeded(w)
  <2>1. g = IdleFrame BY <1>4 DEF Seeded, Return, Typed
  <2> QED BY <1>1, <1>2, <2>1, IdleSerial, SilentSerial DEF Serial
<1> QED BY <1>3, <1>4

LEMMA SeedSerial ==
  ASSUME OneCall, Typed, Serial, NEW w \in Worker, Seed(w) PROVE Serial'
<1> DEFINE f == frame[w]
           g == frame'[w]
<1>1. Typed' /\ f \in SerialFrame /\ f \in TypedFrame /\ g \in TypedFrame
  BY CallFrame, SerialCall, SeedTyped DEF Typed
<1>2. f.pc = "seed" /\ f.op = "start" /\ UNCHANGED <<log, graphStatus>>
  BY <1>1 DEF Seed, At, TypedFrame
<1>3. g.pc = "ready" /\ g.op = f.op /\ g.queue = f.queue
  BY <1>1 DEF Seed, Typed, TypedFrame, Frame
<1> HIDE DEF f, g
<1>4. Answered = {} BY <1>1, <1>2 DEF SerialFrame
<1>5. g \in SerialFrame'
  BY <1>1, <1>2, <1>3, <1>4, SameLog DEF SerialFrame, InRouting
<1> QED BY <1>1, <1>2, <1>4, <1>5, SilentSerial DEF g

LEMMA PopSerial ==
  ASSUME OneCall, Typed, Serial, NEW w \in Worker, Pop(w) PROVE Serial'
<1> DEFINE f == frame[w]
           g == frame'[w]
           k == Len(f.queue)
           i == f.queue[k]
           rest == SubSeq(f.queue, 1, k - 1)
<1>1. Typed' /\ f \in SerialFrame /\ f \in TypedFrame /\ g \in TypedFrame
  BY CallFrame, SerialCall, PopTyped DEF Typed
<1>2. f.pc = "pop" /\ f.queue # <<>> /\ f.op = "advance"
      /\ UNCHANGED <<log, graphStatus, nodeStatus>>
  BY <1>1 DEF Pop, At, TypedFrame
<1>3. f.queue \in Seq(Item) BY <1>1, FrameFields
<1>4. k \in DOMAIN f.queue /\ \A j \in DOMAIN rest : j \in DOMAIN f.queue /\ rest[j] = f.queue[j]
  <2> DEFINE q == f.queue
  <2> SUFFICES Len(q) \in DOMAIN q /\ \A j \in DOMAIN SubSeq(q, 1, Len(q) - 1) :
                 j \in DOMAIN q /\ SubSeq(q, 1, Len(q) - 1)[j] = q[j]
    OBVIOUS
  <2>1. q \in Seq(Item) /\ q # <<>> BY <1>2, <1>3
  <2> HIDE DEF q
  <2> QED BY <2>1
<1>5. /\ g.op = f.op /\ g.queue = rest
      /\ \/ g.pc = "pop"
         \/ g.pc = "mark" /\ g.node = i.node /\ ~ IsTerminal(nodeStatus[i.node])
  <2>1. CASE IsTerminal(nodeStatus[i.node])
    <3>1. g = [f EXCEPT !.queue = rest] BY <2>1 DEF Pop, Typed
    <3> HIDE DEF g, rest
    <3> QED BY <1>1, <1>2, <3>1 DEF TypedFrame, Frame
  <2>2. CASE ~ IsTerminal(nodeStatus[i.node])
    <3>1. g = [f EXCEPT !.pc = "mark", !.queue = rest, !.node = i.node,
                        !.out = i.out, !.failed = i.failed]
      BY <2>2 DEF Pop, Typed
    <3> HIDE DEF g, rest, i
    <3> QED BY <1>1, <1>2, <2>2, <3>1 DEF TypedFrame, Frame
  <2> QED BY <2>1, <2>2
<1>6. Sources(i.node) \subseteq Answered BY <1>1, <1>4 DEF SerialFrame
<1>7. \A j \in DOMAIN rest : Sources(rest[j].node) \subseteq Answered
  BY <1>1, <1>4 DEF SerialFrame
<1>8. g \in SerialFrame'
  <2> HIDE DEF f, g, i, rest
  <2> QED BY <1>1, <1>2, <1>5, <1>6, <1>7, SameLog DEF SerialFrame, InRouting, RoutingPc
<1> QED BY <1>1, <1>2, <1>8, SilentSerial DEF Serial

LEMMA MarkSerial ==
  ASSUME OneCall, Typed, Serial, NEW w \in Worker, Mark(w) PROVE Serial'
<1> DEFINE f == frame[w]
           g == frame'[w]
<1>1. Typed' /\ f \in SerialFrame /\ f \in TypedFrame /\ g \in TypedFrame
  BY CallFrame, SerialCall, MarkTyped DEF Typed
<1>2. f.pc = "mark" /\ f.node \in Node /\ f.op = "advance" /\ UNCHANGED <<log, graphStatus>>
  BY <1>1 DEF Mark, At, TypedFrame
<1>3. g.pc = "log" /\ g.op = f.op /\ g.queue = f.queue /\ g.node = f.node
  BY <1>1 DEF Mark, Goto, Typed, TypedFrame, Frame
<1>4. /\ \A m \in Node \ {f.node} : nodeStatus'[m] = nodeStatus[m]
      /\ IsTerminal(nodeStatus'[f.node])
  BY <1>2 DEF Mark, SetNode, Typed, TypeOK, IsTerminal
<1> HIDE DEF f, g
<1>5. f.node \notin Answered /\ Sources(f.node) \subseteq Answered
  BY <1>1, <1>2 DEF SerialFrame, Serial
<1>6. g \in SerialFrame'
  BY <1>1, <1>2, <1>3, <1>4, <1>5, SameLog DEF SerialFrame, InRouting, RoutingPc
<1>7. \A n \in Answered : IsTerminal(nodeStatus'[n])
  BY <1>4, <1>5 DEF Serial, Answered
<1> QED BY <1>1, <1>2, <1>6, <1>7, SilentSerial DEF g

\* No node answered so far depends on the one that is answered now: its sources would
\* have been answered before it.
LEMMA LogNodeSerial ==
  ASSUME OneCall, Typed, Serial, NEW w \in Worker, LogNode(w) PROVE Serial'
<1> DEFINE f == frame[w]
           g == frame'[w]
<1>1. Typed' /\ f \in SerialFrame /\ f \in TypedFrame /\ g \in TypedFrame
  BY CallFrame, SerialCall, LogNodeTyped DEF Typed
<1>2. f.pc = "log" /\ f.node \in Node /\ f.op = "advance"
      /\ UNCHANGED <<nodeStatus, graphStatus>>
  BY <1>1 DEF LogNode, At, TypedFrame
<1> PICK n \in Node : n = f.node BY <1>2
<1>3. g.pc = "route" /\ g.op = f.op /\ g.queue = f.queue /\ g.node = n
  BY <1>1 DEF LogNode, Typed, TypedFrame, Frame
<1>4. PICK a \in Answers(n) : a \in Event /\ log' = Append(log, a)
  <2>1. Ev("NodeDone", n) \in Event /\ Ev("NodeFailed", n) \in Event
    BY DEF Ev, Event, EventType
  <2> QED BY <2>1 DEF LogNode, Persist, Answers
<1> HIDE DEF f, g
<1>5. /\ n \notin Answered /\ Sources(n) \subseteq Answered
      /\ IsTerminal(nodeStatus[n]) /\ graphStatus # "pending"
      /\ \A i \in DOMAIN f.queue : Sources(f.queue[i].node) \subseteq Answered
  BY <1>1, <1>2 DEF SerialFrame
<1>6. /\ DOMAIN log' = 1..(Len(log) + 1) /\ DOMAIN log = 1..Len(log)
      /\ \A i \in DOMAIN log : log'[i] = log[i]
      /\ log'[Len(log) + 1] = a
      /\ Events' = Events \cup {a}
  BY <1>4, AppendKeeps
<1>7. Len(log) \in Nat BY DEF Typed, TypeOK
<1>8. \A m : (a \in Answers(m) <=> m = n) /\ Answers(m)' = Answers(m)
  BY <1>4 DEF Answers, Ev
<1>9. Answered' = Answered \cup {n}
  BY <1>6, <1>8 DEF Answered
<1>10. \A m \in Node : Once(m)'
  <2> SUFFICES ASSUME NEW m \in Node PROVE Once(m)'
    OBVIOUS
  <2>1. CASE m # n
    <3>1. \A i \in DOMAIN log' : log'[i] \in Answers(m) => i \in DOMAIN log
      BY <1>6, <1>7, <1>8, <2>1
    <3>2. Once(m) BY DEF Serial
    <3> QED BY <1>6, <1>8, <3>1, <3>2 DEF Once
  <2>2. CASE m = n
    <3>1. \A i \in DOMAIN log : log[i] \notin Answers(n) BY <1>5 DEF Answered, Events
    <3>2. \A i \in DOMAIN log' : log'[i] \in Answers(n) => i = Len(log) + 1
      BY <1>6, <1>7, <3>1
    <3> QED BY <1>8, <2>2, <3>2 DEF Once
  <2> QED BY <2>1, <2>2
<1>11. \A m \in Answered' : IsTerminal(nodeStatus'[m]) /\ Sources(m) \subseteq Answered'
  BY <1>2, <1>5, <1>9 DEF Serial
<1>12. \A m \in Answered' : n \notin Sources(m)
  <2>1. n \notin Sources(n) BY DEF Sources
  <2>2. \A m \in Answered : n \notin Sources(m) BY <1>5 DEF Serial
  <2> QED BY <1>9, <2>1, <2>2
<1>13. g \in SerialFrame'
  BY <1>1, <1>2, <1>3, <1>5, <1>9, <1>12 DEF SerialFrame, InRouting, RoutingPc
<1>14. frame' \in [Worker -> SerialFrame'] BY <1>1, <1>13 DEF OneCall, Typed, g
<1> QED BY <1>2, <1>5, <1>10, <1>11, <1>14 DEF Serial

LEMMA RouteSerial ==
  ASSUME OneCall, Typed, Delivered, Serial, NEW w \in Worker, Route(w) \/ Routed(w)
  PROVE  Serial'
<1> DEFINE f == frame[w]
           g == frame'[w]
<1>1. /\ Typed' /\ f \in SerialFrame /\ f \in TypedFrame /\ g \in TypedFrame
      /\ f \in OwnFrame(Answered)
  BY CallFrame, SerialCall, OwnCall, RouteTyped, RoutedTyped DEF Typed
<1>2. UNCHANGED <<log, nodeStatus, graphStatus>> /\ f.pc = "route" BY DEF Route, Routed, At
<1>3. f.op = "advance" BY <1>1, <1>2 DEF OwnFrame
<1>4. /\ g.op = f.op /\ g.queue = f.queue /\ g.node = f.node
      /\ g.pc \in {"deliver", "pop", "failgraph"}
  <2>1. CASE Route(w)
    <3>1. PICK h : g = [f EXCEPT !.pc = "deliver", !.hop = h, !.todo = @ \ {h},
                                 !.seq = NextSeq(h.edge)]
      BY <2>1 DEF Route, Typed
    <3> HIDE DEF f, g
    <3> QED BY <1>1, <3>1 DEF TypedFrame, Frame
  <2>2. CASE Routed(w)
    <3>1. /\ g.op = f.op /\ g.queue = f.queue /\ g.node = f.node
          /\ g.pc = AfterRouting(f)
      BY <1>1, <2>2 DEF Routed, Goto, Typed, TypedFrame, Frame
    <3> QED BY <1>3, <3>1 DEF AfterRouting
  <2> QED BY <2>1, <2>2
<1>6. g \in SerialFrame'
  <2> HIDE DEF f, g
  <2> QED BY <1>1, <1>2, <1>3, <1>4, SameLog DEF SerialFrame, InRouting, RoutingPc
<1> QED BY <1>1, <1>2, <1>6, SilentSerial DEF Serial

LEMMA DeliverSerial ==
  ASSUME OneCall, NoLoops, Typed, Placed, Causality, Delivered, Serial,
         NEW w \in Worker, Deliver(w)
  PROVE  Serial'
<1> DEFINE f == frame[w]
           g == frame'[w]
           e == f.hop.edge
<1>1. /\ Typed' /\ f \in SerialFrame /\ f \in TypedFrame /\ g \in TypedFrame
      /\ f \in OwnFrame(Answered) /\ f \in PlacedFrame
  BY CallFrame, SerialCall, OwnCall, PlacedCall, DeliverTyped DEF Typed
<1>2. UNCHANGED <<log, nodeStatus, graphStatus>> /\ f.pc = "deliver" BY DEF Deliver, At
<1>3. f.op = "advance" /\ From[e] = f.node BY <1>1, <1>2 DEF OwnFrame, RoutingPc
<1>4. e \in InitEdge
  <2>1. f.hop \in Hop BY <1>1, <1>2 DEF TypedFrame
  <2>2. f.hop # NoHop BY <2>1, NoHopIsNoHop
  <2>3. e \in edges BY <1>1, <2>2 DEF PlacedFrame
  <2> QED BY <2>3 DEF Causality
<1>5. f.node \in Sources(To[e]) BY <1>3, <1>4 DEF NoLoops, Sources
<1>6. CASE g = IdleFrame BY <1>1, <1>2, <1>6, IdleSerial, SilentSerial DEF Serial
<1>7. CASE g = [f EXCEPT !.any = TRUE, !.target = To[e], !.pc = "check"]
  <2>1. /\ g.pc = "check" /\ g.op = f.op /\ g.queue = f.queue /\ g.node = f.node
        /\ g.target = To[e]
    <3> HIDE DEF f, g, e
    <3> QED BY <1>1, <1>7 DEF TypedFrame, Frame
  <2>2. g \in SerialFrame'
    <3> HIDE DEF f, g, e
    <3> QED BY <1>1, <1>2, <1>3, <1>5, <2>1, SameLog DEF SerialFrame, InRouting, RoutingPc
  <2> QED BY <1>1, <1>2, <2>2, SilentSerial DEF Serial
<1> QED BY <1>3, <1>6, <1>7 DEF Deliver, Return, Typed

LEMMA EndSerial ==
  ASSUME OneCall, Typed, Serial, NEW w \in Worker,
         FailGraph(w) \/ Finish(w) \/ CompleteGraph(w)
  PROVE  Serial'
<1> DEFINE f == frame[w]
           g == frame'[w]
<1>1. Typed' /\ f \in SerialFrame /\ f \in TypedFrame /\ g \in TypedFrame
  BY CallFrame, SerialCall, FailGraphTyped, FinishTyped DEF Typed
<1>2. UNCHANGED <<log, nodeStatus>> /\ f.pc \in {"failgraph", "pop", "done"}
  BY DEF FailGraph, Finish, CompleteGraph, At
<1>3. graphStatus # "pending" /\ graphStatus' # "pending"
  BY <1>1, <1>2 DEF SerialFrame, FailGraph, Finish, CompleteGraph
<1>4. CASE g = IdleFrame BY <1>1, <1>2, <1>3, <1>4, IdleSerial, SilentSerial DEF Serial
<1>5. CASE \E p \in {"failevent", "done", "doneevent"} : Goto(w, p)
  <2>1. /\ g.pc \in {"failevent", "done", "doneevent"} /\ g.op = f.op
        /\ g.queue = f.queue
    BY <1>1, <1>5 DEF Goto, Typed, TypedFrame, Frame
  <2>2. g \in SerialFrame'
    <3> HIDE DEF f, g
    <3> QED BY <1>1, <1>2, <1>3, <2>1, SameLog DEF SerialFrame, InRouting, RoutingPc
  <2> QED BY <1>1, <1>2, <1>3, <2>2, SilentSerial DEF Serial
<1> QED BY <1>4, <1>5 DEF FailGraph, Finish, CompleteGraph, Return, Typed

LEMMA LogOutcomeSerial ==
  ASSUME OneCall, Typed, Serial, NEW w \in Worker, LogGraphFailed(w) \/ LogGraphDone(w)
  PROVE  Serial'
<1>1. Typed' /\ frame[w] \in SerialFrame /\ frame[w] \in TypedFrame
  BY CallFrame, SerialCall, FailGraphTyped, FinishTyped DEF Typed
<1>2. /\ UNCHANGED <<nodeStatus, graphStatus>> /\ frame'[w] = IdleFrame
      /\ frame[w].pc \in {"failevent", "doneevent"}
  BY DEF LogGraphFailed, LogGraphDone, Return, At, Typed
<1>3. PICK e \in Event : /\ e.type \notin {"NodeDone", "NodeFailed"}
                         /\ log' = Append(log, e)
  <2>1. Ev("GraphFailed", frame[w].node) \in Event /\ Ev("GraphDone", NoNode) \in Event
    BY <1>1, FrameFields DEF Ev, Event, EventType
  <2> QED BY <2>1 DEF LogGraphFailed, LogGraphDone, Persist, Ev
<1>4. Answered' = Answered /\ \A n : Once(n) => Once(n)' BY <1>3, NoAnswer
<1>5. graphStatus' # "pending" BY <1>1, <1>2 DEF SerialFrame
<1> QED BY <1>1, <1>2, <1>4, <1>5, IdleSerial, SerialStep DEF Serial

LEMMA ResumeSerial ==
  ASSUME Answered' = Answered, graphStatus' = graphStatus,
         NEW f \in SerialFrame, f.pc \in {"check", "enable", "ready"}
  PROVE  Resume(f) \in SerialFrame'
<1> DEFINE r == Resume(f)
<1>1. f \in TypedFrame /\ r \in TypedFrame BY ResumeType DEF SerialFrame
<1>2. f.op \in {"advance", "start"} BY DEF SerialFrame
<1>3. /\ r.op = f.op /\ r.queue = f.queue /\ r.node = f.node
      /\ r.pc = IF f.op = "advance" THEN "route" ELSE "seed"
  <2>1. CASE f.op = "advance" BY <1>1, <2>1 DEF Resume, TypedFrame, Frame
  <2>2. CASE f.op = "start" BY <1>1, <2>2 DEF Resume, TypedFrame, Frame
  <2> QED BY <1>2, <2>1, <2>2
<1> HIDE DEF r
<1>4. r \in SerialFrame' BY <1>1, <1>2, <1>3 DEF SerialFrame, InRouting, RoutingPc
<1> QED BY <1>4 DEF r

LEMMA CheckSerial ==
  ASSUME OneCall, Typed, Serial, NEW w \in Worker, Check(w) \/ NotEnabled(w)
  PROVE  Serial'
<1> DEFINE f == frame[w]
           g == frame'[w]
<1>1. Typed' /\ f \in SerialFrame /\ f \in TypedFrame /\ g \in TypedFrame
  BY CallFrame, SerialCall, CheckTyped DEF Typed
<1>2. UNCHANGED <<log, nodeStatus, graphStatus>> /\ f.pc \in {"check", "enable"}
  BY DEF Check, NotEnabled, At
<1>3. CASE g = Resume(f)
  BY <1>1, <1>2, <1>3, SameLog, ResumeSerial, SilentSerial DEF Serial
<1>4. CASE g = [f EXCEPT !.pc = "enable"]
  <2>1. /\ g.pc = "enable" /\ g.op = f.op /\ g.queue = f.queue /\ g.node = f.node
        /\ g.target = f.target
    BY <1>1, <1>4 DEF TypedFrame, Frame
  <2>2. g \in SerialFrame'
    <3> HIDE DEF f, g
    <3> QED BY <1>1, <1>2, <2>1, SameLog DEF SerialFrame, InRouting, RoutingPc
  <2> QED BY <1>1, <1>2, <2>2, SilentSerial DEF Serial
<1> QED BY <1>3, <1>4 DEF Check, NotEnabled, Typed

\* The target of a token is a successor of the node whose tokens are routed, so it has
\* not been answered: making it ready takes nobody's answer back.
LEMMA EnableSerial ==
  ASSUME OneCall, Typed, Causality, Serial, NEW w \in Worker,
         EnableTask(w) \/ EnableGather(w)
  PROVE  Serial'
<1> DEFINE f == frame[w]
           g == frame'[w]
           t == f.target
<1>1. Typed' /\ f \in SerialFrame /\ f \in TypedFrame /\ g \in TypedFrame
  BY CallFrame, SerialCall, EnableTyped DEF Typed
<1>2. f.pc = "enable" /\ t \in Node /\ UNCHANGED <<log, graphStatus>>
  BY <1>1 DEF EnableTask, EnableGather, At, TypedFrame
<1>3. f.op = "advance" /\ t \notin Answered
  BY <1>1, <1>2 DEF SerialFrame, InRouting, RoutingPc
<1>4. \A m \in Node \ {t} : nodeStatus'[m] = nodeStatus[m]
  BY <1>2 DEF EnableTask, EnableGather, SetNode, Typed, TypeOK
<1>5. Sources(t) \subseteq Answered
  BY <1>2, EnabledIsAnswered DEF EnableTask, EnableGather
<1>6. \A n \in Answered : IsTerminal(nodeStatus'[n]) BY <1>3, <1>4 DEF Serial, Answered
<1>7. g \in SerialFrame'
  <2>1. CASE EnableTask(w)
    <3>1. /\ g.pc = "ready" /\ g.op = f.op /\ g.queue = f.queue /\ g.node = f.node
          /\ g.target = t
      BY <1>1, <2>1 DEF EnableTask, Goto, Typed, TypedFrame, Frame
    <3> HIDE DEF f, g, t
    <3> QED BY <1>1, <1>2, <1>3, <3>1, SameLog DEF SerialFrame, InRouting, RoutingPc, t
  <2>2. CASE EnableGather(w)
    <3>1. PICK out : frame' = [frame EXCEPT ![w] = Enqueue(f, t, out)]
      BY <2>2 DEF EnableGather
    <3> DEFINE i == [node |-> t, out |-> out, failed |-> FALSE]
               q == Append(f.queue, i)
    <3>2. g = [f EXCEPT !.pc = "route", !.queue = q]
      <4>1. Resume(f) = [f EXCEPT !.pc = "route"] BY <1>3 DEF Resume
      <4>2. g = [Resume(f) EXCEPT !.queue = Append(@, i)]
        BY <1>3, <3>1 DEF Enqueue, Typed
      <4> QED BY <1>1, <4>1, <4>2 DEF TypedFrame, Frame
    <3>3. g.pc = "route" /\ g.op = f.op /\ g.queue = q /\ g.node = f.node
      <4> HIDE DEF f, g, q
      <4> QED BY <1>1, <3>2 DEF TypedFrame, Frame
    <3>4. \A j \in DOMAIN q : q[j] = i \/ (j \in DOMAIN f.queue /\ q[j] = f.queue[j])
      <4>1. f.queue \in Seq(Item) BY <1>1, FrameFields
      <4> DEFINE p == f.queue
      <4> HIDE DEF i, p
      <4>2. \A j \in DOMAIN Append(p, i) :
               Append(p, i)[j] = i \/ (j \in DOMAIN p /\ Append(p, i)[j] = p[j])
        BY <4>1 DEF p
      <4> QED BY <4>2 DEF p
    <3>5. \A j \in DOMAIN q : Sources(q[j].node) \subseteq Answered
      BY <1>1, <1>5, <3>4 DEF SerialFrame
    <3> HIDE DEF f, g, t, q
    <3> QED BY <1>1, <1>2, <1>3, <3>3, <3>5, SameLog DEF SerialFrame, InRouting, RoutingPc
  <2> QED BY <2>1, <2>2
<1> QED BY <1>1, <1>2, <1>6, <1>7, SilentSerial DEF Serial

LEMMA LogReadySerial ==
  ASSUME OneCall, Typed, Serial, NEW w \in Worker, LogReady(w) PROVE Serial'
<1> DEFINE f == frame[w]
<1>1. Typed' /\ f \in SerialFrame /\ f \in TypedFrame
  BY CallFrame, SerialCall, LogReadyTyped
<1>2. /\ UNCHANGED <<nodeStatus, graphStatus>> /\ frame'[w] = Resume(f)
      /\ f.pc = "ready"
  BY DEF LogReady, At, Typed
<1>3. PICK e \in Event : /\ e.type \notin {"NodeDone", "NodeFailed"}
                         /\ log' = Append(log, e)
  <2>1. Ev("NodeReady", f.target) \in Event
    BY <1>1, FrameFields DEF Ev, Event, EventType
  <2> QED BY <2>1 DEF LogReady, Persist, Ev
<1>4. Answered' = Answered /\ \A n : Once(n) => Once(n)' BY <1>3, NoAnswer
<1>5. graphStatus' # "pending" BY <1>1, <1>2 DEF SerialFrame
<1> QED BY <1>1, <1>2, <1>4, <1>5, ResumeSerial, SerialStep DEF Serial

LEMMA NextSerial ==
  ASSUME OneCall, NoLoops
  PROVE  Typed /\ Placed /\ Causality /\ Delivered /\ Serial /\ [Next]_vars => Serial'
<1> SUFFICES ASSUME Typed, Placed, Causality, Delivered, Serial, [Next]_vars PROVE Serial'
  OBVIOUS
<1>1. CASE Cancel \/ UNCHANGED vars
  <2>1. UNCHANGED <<log, nodeStatus, frame>> /\ graphStatus' \in {graphStatus, "cancelled"}
    BY <1>1 DEF Cancel, vars
  <2>2. Answered' = Answered /\ \A n : Once(n)' <=> Once(n) BY <2>1, SameLog
  <2>3. SerialFrame \subseteq SerialFrame' BY <2>1, <2>2 DEF SerialFrame
  <2> QED BY <2>1, <2>2, <2>3 DEF Serial
<1>2. ASSUME NEW w \in Worker, Execute(w) PROVE Serial'
  <2>1. CASE Start(w) BY <2>1, StartSerial
  <2>2. CASE \E n \in Node : Report(w, n) BY <2>2, ReportSerial
  <2>3. CASE Step(w)
    BY <2>3, RootsSerial, SeedSerial, PopSerial, MarkSerial, LogNodeSerial, RouteSerial,
       DeliverSerial, EndSerial, LogOutcomeSerial, CheckSerial, EnableSerial,
       LogReadySerial DEF Step
  <2> QED BY <1>2, <2>1, <2>2, <2>3 DEF Execute
<1> QED BY <1>1, <1>2 DEF Next

LEMMA AlwaysCausality == Spec => []Causality
<1>1. Init => Causality BY InitCausal
<1>2. Typed /\ Causality /\ [Next]_vars => Causality' BY NextCausal
<1> QED BY <1>1, <1>2, AlwaysTyped, PTL DEF Spec

LEMMA AlwaysSerial == ASSUME OneCall, NoLoops PROVE Spec => []Serial
<1>1. Init => Serial BY InitSerial
<1>2. Typed /\ Placed /\ Causality /\ Delivered /\ Serial /\ [Next]_vars => Serial'
  BY NextSerial
<1> QED BY <1>1, <1>2, AlwaysDelivered, AlwaysCausality, PTL DEF Spec

\* As long as calls do not overlap, a node of a graph without self-loops is answered at
\* most once in the log, however often its caller repeats node_complete or node_failed.
THEOREM SerialAnswersOnce == ASSUME OneCall, NoLoops PROVE Spec => []AnsweredOnce
<1>1. Typed /\ Serial => AnsweredOnce BY DEF Serial, AnsweredOnce, Once, Typed, TypeOK
<1> QED BY <1>1, AlwaysSerial, AlwaysTyped, PTL

\* With calls that do not overlap, no token is lost either.
THEOREM SerialLosesNoToken == ASSUME OneCall, NoLoops PROVE Spec => []NoTokenLost
<1>1. Spec => []AnsweredOnce BY SerialAnswersOnce
<1>2. Spec => [](AnsweredOnce => NoTokenLost) BY TokensReachTheirEdges
<1> QED BY <1>1, <1>2, PTL
-----------------------------------------------------------------------------
(***************************************************************************)
(* Edges that come late.  The call of advance_graph that answers a node    *)
(* and the call of add_edge that inserts an edge out of it may both hold   *)
(* tokens for that edge.  One of them may find its position taken, and     *)
(* ends; what it had left for other edges is then lost, but an edge that   *)
(* has no late sibling out of its source has its token from the other.     *)
(***************************************************************************)
\* The edges that a call has still to bring tokens to.
Hands(f) == {h.edge : h \in f.todo} \cup {e \in {f.hop.edge} : f.pc = "deliver"}

GrownFrame(A) ==
    {f \in TypedFrame :
        /\ InRouting(f) => f.node \in A /\ \A e \in Hands(f) : From[e] = f.node
        /\ f.op = "edge" /\ f.pc \in {"route", "deliver"} =>
              \A e \in Hands(f) : From[e] = f.node /\ e \notin InitEdge
        /\ f.op = "edge" /\ f.pc \in {"status", "source"} =>
              From[f.hop.edge] = f.node /\ f.hop.edge \notin InitEdge}

\* No edge was added out of the source of e, but e itself.
Alone(e) == \A d \in edges \ InitEdge : From[d] = From[e] => d = e

\* Call w will bring edge e the output of its source: it is about to read the edges, it
\* routes a token on e, or it is an add_edge that has yet to look at the source.
Owes(w, e) ==
    \/ /\ frame[w].pc = "log" /\ frame[w].node = From[e] /\ ~ frame[w].failed
       /\ frame[w].out = output[From[e]]
    \/ Routing(w, From[e]) /\ e \in Hands(frame[w])
    \/ /\ frame[w].op = "edge" /\ frame[w].pc \in {"route", "deliver"}
       /\ e \in Hands(frame[w])
    \/ /\ frame[w].op = "edge" /\ frame[w].pc \in {"status", "source"}
       /\ frame[w].hop.edge = e

\* Edge e should have a token.
Safe(e) == OneCall \/ (Once(From[e]) /\ Alone(e))
Ripe(e) ==
    /\ nodeStatus[From[e]] = "complete" /\ graphStatus = "running"
    /\ \E t \in output[From[e]] : Matches(Cond[e], t.color)
    /\ Safe(e)

\* Before start_graph nothing has happened, and only add_node and add_edge are under way.
Unstarted ==
    graphStatus = "pending" =>
        /\ log = <<>>
        /\ \A n \in Node : nodeStatus[n] = "pending"
        /\ \A w \in Worker : frame[w].pc \in {"idle", "status"}

Grown ==
    /\ InitEdge \subseteq edges
    /\ frame \in [Worker -> GrownFrame(Answered)]
    /\ \A n \in Node : Once(n) =>
          \A v, w \in Worker : Routing(v, n) /\ Routing(w, n) => v = w
    /\ \A n \in Node : Once(n) =>
          \A w \in Worker : Routing(w, n) /\ At(w, "deliver") /\ Taken(w) =>
              frame[w].hop.edge \notin InitEdge
    /\ OneCall => \A w \in Worker : At(w, "deliver") => ~ Taken(w)
    /\ \A e \in edges : Ripe(e) => HasToken(e) \/ \E w \in Worker : Owes(w, e)

LEMMA GrownCall == ASSUME Grown, NEW w \in Worker PROVE frame[w] \in GrownFrame(Answered)
  BY DEF Grown

LEMMA GrownMonotone ==
  ASSUME NEW A, NEW B, A \subseteq B PROVE GrownFrame(A) \subseteq GrownFrame(B)
  BY DEF GrownFrame

LEMMA NextUnstarted == Typed /\ Unstarted /\ [GrowNext]_vars => Unstarted'
<1> SUFFICES ASSUME Typed, Unstarted, [GrowNext]_vars, graphStatus' = "pending"
             PROVE  /\ log' = <<>>
                    /\ \A n \in Node : nodeStatus'[n] = "pending"
                    /\ \A w \in Worker : frame'[w].pc \in {"idle", "status"}
  BY DEF Unstarted
<1>1. CASE Cancel BY <1>1 DEF Cancel
<1>2. CASE UNCHANGED vars BY <1>2 DEF vars, Unstarted
<1>3. ASSUME NEW w \in Worker, Execute(w) PROVE FALSE
  <2>1. ~ Start(w) BY DEF Start
  <2>2. graphStatus = "pending" BY <1>3, <2>1 DEF Execute, Step, Report, ReadRoots, Seed,
        Seeded, Pop, Mark, LogNode, Route, Deliver, Routed, FailGraph, LogGraphFailed, Finish,
        CompleteGraph, LogGraphDone, Check, NotEnabled, EnableTask, EnableGather, LogReady
  <2>3. log = <<>> /\ frame[w].pc \in {"idle", "status"} BY <2>2 DEF Unstarted
  <2>4. Events = {} BY <2>3 DEF Events
  <2>5. ~ \E n \in Node : Report(w, n) BY <2>4 DEF Report
  <2>6. ~ Step(w)
    BY <2>3 DEF Step, At, ReadRoots, Seed, Seeded, Pop, Mark, LogNode, Route, Deliver, Routed,
       FailGraph, LogGraphFailed, Finish, CompleteGraph, LogGraphDone, Check, NotEnabled,
       EnableTask, EnableGather, LogReady
  <2> QED BY <1>3, <2>1, <2>5, <2>6 DEF Execute
<1>4. ASSUME NEW w \in Worker, Grow(w)
      PROVE  /\ log' = <<>>
             /\ \A n \in Node : nodeStatus'[n] = "pending"
             /\ \A u \in Worker : frame'[u].pc \in {"idle", "status"}
  <2>1. UNCHANGED <<log, nodeStatus, graphStatus>>
    BY <1>4 DEF Grow, AddNode, AddEdge, ReadGraphStatus, ReadSource
  <2>2. /\ log = <<>> /\ \A n \in Node : nodeStatus[n] = "pending"
        /\ \A u \in Worker : frame[u].pc \in {"idle", "status"}
    BY <2>1 DEF Unstarted
  <2>3. ~ ReadSource(w) BY <2>2 DEF ReadSource, At
  <2>4. \A u \in Worker \ {w} : frame'[u] = frame[u]
    BY <1>4, <2>3 DEF Grow, AddNode, AddEdge, ReadGraphStatus, Typed
  <2>5. frame'[w].pc \in {"idle", "status"}
    <3>1. CASE ReadGraphStatus(w)
      <4>1. frame' = [frame EXCEPT ![w] = IdleFrame] BY <2>1, <3>1 DEF ReadGraphStatus
      <4> QED BY <4>1 DEF Typed, IdleFrame
    <3>2. CASE \E n \in Node : AddNode(w, n) BY <3>2 DEF AddNode, Typed, IdleFrame
    <3>3. CASE \E e \in Edge : AddEdge(w, e) BY <3>3 DEF AddEdge, Typed, IdleFrame
    <3> QED BY <1>4, <2>3, <3>1, <3>2, <3>3 DEF Grow
  <2> QED BY <2>1, <2>2, <2>4, <2>5
<1> QED BY <1>1, <1>2, <1>3, <1>4 DEF GrowNext, Next

\* A statement that delivers nothing and adds no edge.
LEMMA GrownStep ==
  ASSUME Typed, Grown, UNCHANGED <<edges, tokens>>, Answered \subseteq Answered',
         \A n : Once(n)' => Once(n),
         NEW w \in Worker, NEW g \in GrownFrame(Answered'), frame' = [frame EXCEPT ![w] = g],
         \A n \in Node : Once(n)' /\ Routing(w, n)' =>
             \A u \in Worker \ {w} : ~ Routing(u, n),
         g.pc = "deliver" => ~ Taken(w)',
         \A e \in edges : Ripe(e)' =>
             Owes(w, e)' \/ (/\ Ripe(e) /\ output'[From[e]] = output[From[e]]
                             /\ ~ Owes(w, e))
  PROVE  Grown'
<1>1. \A u \in Worker : frame'[u] = IF u = w THEN g ELSE frame[u] BY DEF Typed
<1>2. frame' \in [Worker -> GrownFrame(Answered')] BY GrownMonotone DEF Grown
<1>3. \A u \in Worker \ {w} : \A n : Routing(u, n)' <=> Routing(u, n)
  BY <1>1 DEF Routing
<1>4. \A n \in Node : Once(n)' =>
         \A u, v \in Worker : Routing(u, n)' /\ Routing(v, n)' => u = v
  BY <1>3 DEF Grown
<1>5. \A u \in Worker \ {w} : Taken(u)' <=> Taken(u) BY <1>1 DEF Taken
<1>6. \A n \in Node : Once(n)' =>
         \A u \in Worker : Routing(u, n)' /\ At(u, "deliver")' /\ Taken(u)' =>
             frame'[u].hop.edge \notin InitEdge
  BY <1>1, <1>3, <1>5 DEF Grown, At
<1>7. \A e \in edges : \A u \in Worker \ {w} :
         output'[From[e]] = output[From[e]] /\ Owes(u, e) => Owes(u, e)'
  BY <1>1, <1>3 DEF Owes, Hands
<1>8. \A e \in edges : Ripe(e)' => HasToken(e)' \/ \E u \in Worker : Owes(u, e)'
  <2> SUFFICES ASSUME NEW e \in edges, Ripe(e)', ~ Owes(w, e)'
               PROVE  HasToken(e)' \/ \E u \in Worker : Owes(u, e)'
    OBVIOUS
  <2>1. HasToken(e) \/ \E u \in Worker \ {w} : Owes(u, e) BY DEF Grown
  <2>2. HasToken(e)' <=> HasToken(e) BY DEF HasToken
  <2> QED BY <1>7, <2>1, <2>2
<1>9. OneCall => \A u \in Worker : At(u, "deliver")' => ~ Taken(u)'
  BY <1>1 DEF OneCall, At
<1> QED BY <1>2, <1>4, <1>6, <1>8, <1>9 DEF Grown

\* What was ripe before.
LEMMA RipeBefore ==
  ASSUME Typed, UNCHANGED edges, \A n : Once(n)' => Once(n),
         graphStatus' = "running" => graphStatus = "running", NEW e \in edges,
         nodeStatus'[From[e]] = "complete" =>
             nodeStatus[From[e]] = "complete" /\ output'[From[e]] = output[From[e]],
         Ripe(e)'
  PROVE  Ripe(e) /\ output'[From[e]] = output[From[e]]
  BY DEF Ripe, Safe, Alone

LEMMA FromIsNode == ASSUME Typed, NEW e \in edges PROVE e \in Edge /\ From[e] \in Node
  BY GraphAssumption DEF Typed, TypeOK

\* The call holds nothing, before or after.
LEMMA AsideGrown ==
  ASSUME Typed, Typed', Grown, UNCHANGED <<edges, tokens>>,
         Answered \subseteq Answered', \A n : Once(n)' => Once(n),
         graphStatus' = "running" =>
             graphStatus = "running" \/ \A n \in Node : nodeStatus'[n] # "complete",
         \A n \in Node : nodeStatus'[n] = "complete" =>
             nodeStatus[n] = "complete" /\ output'[n] = output[n],
         NEW w \in Worker, frame' = [frame EXCEPT ![w] = frame'[w]],
         frame[w].pc \notin {"log", "route", "deliver", "status", "source"},
         frame'[w].pc \notin {"route", "deliver", "status", "source"},
         ~ InRouting(frame[w]), ~ InRouting(frame'[w])
  PROVE  Grown'
<1>1. frame'[w] \in GrownFrame(Answered') BY DEF Typed, GrownFrame
<1>2. \A n : ~ Routing(w, n) /\ ~ Routing(w, n)' BY DEF Routing, InRouting
<1>3. \A e : ~ Owes(w, e) BY <1>2 DEF Owes
<1>4. \A e \in edges : Ripe(e)' => Ripe(e) /\ output'[From[e]] = output[From[e]]
  <2> SUFFICES ASSUME NEW e \in edges, Ripe(e)'
               PROVE  Ripe(e) /\ output'[From[e]] = output[From[e]]
    OBVIOUS
  <2>1. From[e] \in Node BY FromIsNode
  <2>2. nodeStatus'[From[e]] = "complete" /\ graphStatus' = "running" BY DEF Ripe
  <2>3. graphStatus = "running" BY <2>1, <2>2
  <2> QED BY <2>1, <2>3, RipeBefore
<1> QED BY <1>1, <1>2, <1>3, <1>4, GrownStep

\* A call that goes on routing, or checks a target: it keeps what it holds.
LEMMA OnwardGrown ==
  ASSUME Typed, Typed', Grown, UNCHANGED <<edges, tokens, graphStatus>>,
         Answered \subseteq Answered', \A n : Once(n)' => Once(n),
         \A n \in Node : nodeStatus'[n] = "complete" =>
             nodeStatus[n] = "complete" /\ output'[n] = output[n],
         NEW w \in Worker, NEW g \in TypedFrame, frame' = [frame EXCEPT ![w] = g],
         frame[w].pc \in {"route", "check", "enable", "ready"},
         frame[w].op # "edge" \/ frame[w].pc # "route" \/ frame[w].todo = {},
         \/ /\ g.op # "advance" /\ frame[w].op # "advance"
            /\ g.pc \notin {"route", "deliver", "status", "source"}
         \/ /\ g.op = "advance" /\ frame[w].op = "advance"
            /\ g.node = frame[w].node /\ g.todo = frame[w].todo
            /\ g.pc \in {"route", "enable", "ready"}
         \/ /\ frame[w].op = "advance" /\ frame[w].todo = {}
            /\ g.pc \in {"pop", "failgraph"}
  PROVE  Grown'
<1> DEFINE f == frame[w]
<1>1. f \in GrownFrame(Answered) /\ f \in GrownFrame(Answered') BY GrownCall, GrownMonotone
<1>0. f \in TypedFrame BY CallFrame
<1>2. frame'[w] = g BY DEF Typed
<1>3. g \in GrownFrame(Answered')
  <2> HIDE DEF f
  <2> QED BY <1>1 DEF GrownFrame, InRouting, RoutingPc, Hands, f
<1>4. \A n : Routing(w, n)' => Routing(w, n) BY <1>2 DEF Routing, RoutingPc
<1>5. \A n \in Node : Once(n)' /\ Routing(w, n)' => \A u \in Worker \ {w} : ~ Routing(u, n)
  BY <1>4 DEF Grown
<1>6. g.pc # "deliver" OBVIOUS
<1>7. \A e : Owes(w, e) => Owes(w, e)'
  <2> SUFFICES ASSUME NEW e, Owes(w, e) PROVE Owes(w, e)'
    OBVIOUS
  <2>1. CASE f.op = "advance"
    <3>1. Routing(w, From[e]) /\ \E h \in f.todo : h.edge = e
      BY <2>1 DEF Owes, Hands
    <3>2. g.op = "advance" /\ g.node = f.node /\ g.todo = f.todo
          /\ g.pc \in {"route", "enable", "ready"}
      BY <2>1, <3>1
    <3> QED BY <1>2, <3>1, <3>2 DEF Owes, Routing, RoutingPc, Hands
  <2>2. CASE f.op # "advance" BY <2>2 DEF Owes, Routing, Hands
  <2> QED BY <2>1, <2>2
<1>8. \A e \in edges : Ripe(e)' => Ripe(e) /\ output'[From[e]] = output[From[e]]
  BY FromIsNode, RipeBefore
<1> QED BY <1>3, <1>5, <1>6, <1>7, <1>8, GrownStep

LEMMA InitGrown == Init => Unstarted /\ Grown
<1> SUFFICES ASSUME Init PROVE Unstarted /\ Grown OBVIOUS
<1>1. \A w \in Worker : frame[w] = IdleFrame BY DEF Init
<1>2. IdleFrame \in GrownFrame(Answered)
  BY IdleFrameType DEF GrownFrame, InRouting, RoutingPc, IdleFrame
<1>3. \A w \in Worker : \A n : ~ Routing(w, n) BY <1>1 DEF Routing, IdleFrame
<1>4. Unstarted BY <1>1 DEF Init, Unstarted, IdleFrame
<1>5. \A e \in edges : ~ Ripe(e) BY DEF Init, Ripe
<1> QED BY <1>1, <1>2, <1>3, <1>4, <1>5 DEF Init, Grown, At, IdleFrame

LEMMA BeginGrown ==
  ASSUME Typed, Unstarted, Grown, NEW w \in Worker,
         Start(w) \/ \E n \in Node : Report(w, n)
  PROVE  Grown'
<1>1. Typed' BY StartTyped, ReportTyped
<1>2. /\ frame' = [frame EXCEPT ![w] = frame'[w]] /\ frame[w].pc = "idle"
      /\ frame'[w].pc \in {"roots", "pop"}
  <2>1. CASE Start(w) BY <2>1 DEF Start, At, IdleFrame, Typed
  <2>2. CASE \E n \in Node : Report(w, n)
    <3>1. frame[w].pc = "idle" /\ \E n, out, failed : Advance(w, n, out, failed)
      BY <2>2 DEF Report, At
    <3> QED BY <3>1 DEF Advance, IdleFrame, Typed
  <2> QED BY <2>1, <2>2
<1>3. UNCHANGED <<edges, tokens, log, nodeStatus, output>> BY DEF Start, Report, topology
<1>4. graphStatus' = "running" =>
          graphStatus = "running" \/ \A n \in Node : nodeStatus'[n] # "complete"
  <2>1. CASE Start(w) BY <1>3, <2>1 DEF Start, Unstarted
  <2>2. CASE \E n \in Node : Report(w, n) BY <2>2 DEF Report
  <2> QED BY <2>1, <2>2
<1> QED BY <1>1, <1>2, <1>3, <1>4, SameLog, AsideGrown DEF InRouting, RoutingPc

LEMMA RootsGrown ==
  ASSUME Typed, Grown, NEW w \in Worker, ReadRoots(w) \/ Seed(w) \/ Seeded(w)
  PROVE  Grown'
<1>1. Typed' /\ frame[w] \in TypedFrame
  BY CallFrame, ReadRootsTyped, SeedTyped, SeededTyped
<1>2. frame[w].pc \in {"roots", "seed"} /\ frame[w].op = "start"
  BY <1>1 DEF ReadRoots, Seed, Seeded, At, TypedFrame
<1>3. UNCHANGED <<edges, tokens, log, graphStatus>>
  BY DEF ReadRoots, Seed, Seeded, topology
<1>4. CASE ReadRoots(w)
  <2>1. /\ frame' = [frame EXCEPT ![w] = frame'[w]] /\ frame'[w].op = frame[w].op
        /\ frame'[w].pc \in {"done", "seed"}
    BY <1>1, <1>4 DEF ReadRoots, Typed, TypedFrame, Frame
  <2> QED BY <1>1, <1>2, <1>3, <1>4, <2>1, SameLog, AsideGrown DEF ReadRoots, InRouting
<1>5. CASE Seed(w)
  <2>1. PICK n \in frame[w].roots :
           /\ SetNode(n, "ready", {})
           /\ frame' = [frame EXCEPT ![w].pc = "ready", ![w].target = n,
                                     ![w].roots = @ \ {n}]
    BY <1>5 DEF Seed
  <2>2. n \in Node BY <1>1, <2>1, FrameFields
  <2>3. /\ frame' = [frame EXCEPT ![w] = frame'[w]] /\ frame'[w].op = frame[w].op
        /\ frame'[w].pc = "ready"
    BY <1>1, <2>1 DEF Typed, TypedFrame, Frame
  <2>4. \A m \in Node : nodeStatus'[m] = "complete" =>
             nodeStatus[m] = "complete" /\ output'[m] = output[m]
    BY <2>1, <2>2, NoNewComplete
  <2> QED BY <1>1, <1>2, <1>3, <2>3, <2>4, SameLog, AsideGrown DEF InRouting
<1>6. CASE Seeded(w)
  <2>1. frame' = [frame EXCEPT ![w] = frame'[w]] /\ frame'[w].pc = "idle"
    BY <1>6 DEF Seeded, Return, IdleFrame, Typed
  <2> QED BY <1>1, <1>2, <1>3, <1>6, <2>1, SameLog, AsideGrown
          DEF Seeded, InRouting, RoutingPc
<1> QED BY <1>4, <1>5, <1>6

LEMMA PopGrown == ASSUME Typed, Grown, NEW w \in Worker, Pop(w) PROVE Grown'
<1>1. Typed' /\ frame[w] \in TypedFrame BY CallFrame, PopTyped
<1>2. /\ frame' = [frame EXCEPT ![w] = frame'[w]] /\ frame[w].pc = "pop"
      /\ frame'[w].pc \in {"pop", "mark"}
  BY <1>1 DEF Pop, At, Typed, TypedFrame, Frame
<1> QED BY <1>1, <1>2, SameLog, AsideGrown DEF Pop, topology, InRouting, RoutingPc

LEMMA EndGrown ==
  ASSUME Typed, Grown, NEW w \in Worker, FailGraph(w) \/ Finish(w) \/ CompleteGraph(w)
  PROVE  Grown'
<1>1. Typed' /\ frame[w] \in TypedFrame BY CallFrame, FailGraphTyped, FinishTyped
<1>2. /\ frame' = [frame EXCEPT ![w] = frame'[w]]
      /\ frame[w].pc \in {"failgraph", "pop", "done"}
      /\ frame'[w].pc \in {"failevent", "done", "idle", "doneevent"}
  BY <1>1 DEF FailGraph, Finish, CompleteGraph, Goto, Return, IdleFrame, At, Typed,
              TypedFrame, Frame
<1>3. UNCHANGED <<edges, tokens, log, nodeStatus, output>>
      /\ (graphStatus' = "running" => graphStatus = "running")
  BY DEF FailGraph, Finish, CompleteGraph, topology
<1> QED BY <1>1, <1>2, <1>3, SameLog, AsideGrown DEF InRouting, RoutingPc

LEMMA LogOutcomeGrown ==
  ASSUME Typed, Grown, NEW w \in Worker, LogGraphFailed(w) \/ LogGraphDone(w)
  PROVE  Grown'
<1>1. Typed' /\ frame[w] \in TypedFrame BY CallFrame, FailGraphTyped, FinishTyped
<1>2. /\ frame' = [frame EXCEPT ![w] = frame'[w]] /\ frame'[w].pc = "idle"
      /\ frame[w].pc \in {"failevent", "doneevent"}
  BY DEF LogGraphFailed, LogGraphDone, Return, IdleFrame, At, Typed
<1>3. PICK e \in Event : log' = Append(log, e)
  <2>1. Ev("GraphFailed", frame[w].node) \in Event /\ Ev("GraphDone", NoNode) \in Event
    BY <1>1, FrameFields DEF Ev, Event, EventType
  <2> QED BY <2>1 DEF LogGraphFailed, LogGraphDone, Persist
<1>4. Answered \subseteq Answered' /\ \A n : Once(n)' => Once(n) BY <1>3, OnceBefore
<1>5. UNCHANGED <<edges, tokens, nodeStatus, output, graphStatus>>
  BY DEF LogGraphFailed, LogGraphDone, topology
<1> QED BY <1>1, <1>2, <1>4, <1>5, AsideGrown DEF InRouting, RoutingPc

LEMMA CheckGrown ==
  ASSUME Typed, Grown, NEW w \in Worker, Check(w) \/ NotEnabled(w) \/ LogReady(w)
  PROVE  Grown'
<1> DEFINE f == frame[w]
           g == frame'[w]
<1>1. f \in TypedFrame /\ g \in TypedFrame /\ Typed'
  BY CallFrame, CheckTyped, LogReadyTyped DEF Typed
<1>2. UNCHANGED <<edges, tokens, nodeStatus, output, graphStatus>>
      /\ f.pc \in {"check", "enable", "ready"}
  BY DEF Check, NotEnabled, LogReady, topology, At
<1>3. Answered \subseteq Answered' /\ \A n : Once(n)' => Once(n)
  <2>1. CASE Check(w) \/ NotEnabled(w) BY <2>1, SameLog DEF Check, NotEnabled
  <2>2. CASE LogReady(w)
    <3>1. f.target \in Node BY <1>1, <2>2 DEF LogReady, At, TypedFrame
    <3>2. Ev("NodeReady", f.target) \in Event BY <3>1 DEF Ev, Event, EventType
    <3> QED BY <2>2, <3>2, OnceBefore DEF LogReady, Persist
  <2> QED BY <2>1, <2>2
<1>4. CASE frame' = [frame EXCEPT ![w] = Resume(f)]
  <2>1. frame' = [frame EXCEPT ![w] = g] /\ g = Resume(f) BY <1>4 DEF Typed
  <2> HIDE DEF g
  <2> QED BY <1>1, <1>2, <1>3, <2>1, ResumeFields, OnwardGrown
<1>5. CASE frame' = [frame EXCEPT ![w] = [f EXCEPT !.pc = "enable"]]
  <2>1. /\ frame' = [frame EXCEPT ![w] = g] /\ g.pc = "enable" /\ g.op = f.op
        /\ g.node = f.node /\ g.todo = f.todo
    BY <1>1, <1>5 DEF Typed, TypedFrame, Frame
  <2> QED BY <1>1, <1>2, <1>3, <2>1, OnwardGrown
<1> QED BY <1>4, <1>5 DEF Check, NotEnabled, LogReady

LEMMA RoutedGrown == ASSUME Typed, Grown, NEW w \in Worker, Routed(w) PROVE Grown'
<1> DEFINE f == frame[w]
           g == frame'[w]
<1>1. f \in TypedFrame /\ g \in TypedFrame /\ Typed' BY CallFrame, RoutedTyped DEF Typed
<1>2. f.pc = "route" /\ f.todo = {} BY DEF Routed, At
<1>3. /\ frame' = [frame EXCEPT ![w] = g] /\ g.pc = AfterRouting(f) /\ g.op = f.op
      /\ g.node = f.node
  BY <1>1 DEF Routed, Goto, Typed, TypedFrame, Frame
<1>4. IF f.op = "advance" THEN AfterRouting(f) \in {"pop", "failgraph"}
      ELSE AfterRouting(f) = "check"
  BY DEF AfterRouting
<1> QED BY <1>1, <1>2, <1>3, <1>4, SameLog, OnwardGrown DEF Routed, topology

LEMMA EnableGrown ==
  ASSUME Typed, Grown, NEW w \in Worker, EnableTask(w) \/ EnableGather(w) PROVE Grown'
<1> DEFINE f == frame[w]
           g == frame'[w]
<1>1. f \in TypedFrame /\ g \in TypedFrame /\ Typed' BY CallFrame, EnableTyped DEF Typed
<1>2. UNCHANGED <<edges, tokens, log, graphStatus>> /\ f.pc = "enable" /\ f.target \in Node
  BY <1>1 DEF EnableTask, EnableGather, topology, At, TypedFrame
<1>3. \A m \in Node : nodeStatus'[m] = "complete" =>
             nodeStatus[m] = "complete" /\ output'[m] = output[m]
  BY <1>2, NoNewComplete DEF EnableTask, EnableGather
<1>4. CASE EnableTask(w)
  <2>1. /\ frame' = [frame EXCEPT ![w] = g] /\ g.pc = "ready" /\ g.op = f.op
        /\ g.node = f.node /\ g.todo = f.todo
    BY <1>1, <1>4 DEF EnableTask, Goto, Typed, TypedFrame, Frame
  <2> QED BY <1>1, <1>2, <1>3, <2>1, SameLog, OnwardGrown
<1>5. CASE EnableGather(w)
  <2>1. PICK out : frame' = [frame EXCEPT ![w] = Enqueue(f, f.target, out)]
    BY <1>5 DEF EnableGather
  <2>2. frame' = [frame EXCEPT ![w] = g] /\ g = Enqueue(f, f.target, out)
    BY <2>1 DEF Typed
  <2>3. \/ g = Resume(f)
        \/ /\ f.op = "advance" /\ g.op = Resume(f).op /\ g.pc = Resume(f).pc
           /\ g.node = Resume(f).node /\ g.todo = Resume(f).todo
    <3>1. Resume(f) \in Frame BY <1>1, ResumeType DEF TypedFrame
    <3>2. g = IF f.op = "advance"
              THEN [Resume(f) EXCEPT !.queue =
                       Append(@, [node |-> f.target, out |-> out, failed |-> FALSE])]
              ELSE Resume(f)
      BY <2>2 DEF Enqueue
    <3> DEFINE r == Resume(f)
    <3> HIDE DEF r, f, g
    <3> QED BY <3>1, <3>2 DEF Frame, r
  <2>4. \/ g.op # "advance" /\ f.op # "advance" /\ g.pc \in {"seed", "idle"}
        \/ /\ g.op = "advance" /\ f.op = "advance" /\ g.node = f.node
           /\ g.todo = f.todo /\ g.pc = "route"
    <3> HIDE DEF f, g
    <3> QED BY <1>1, <2>3, ResumeFields
  <2> HIDE DEF g
  <2> QED BY <1>1, <1>2, <1>3, <2>2, <2>4, SameLog, OnwardGrown
<1> QED BY <1>4, <1>5

LEMMA MarkGrown == ASSUME Typed, Grown, NEW w \in Worker, Mark(w) PROVE Grown'
<1> DEFINE f == frame[w]
           g == frame'[w]
<1>1. f \in TypedFrame /\ g \in TypedFrame BY CallFrame, MarkTyped DEF Typed
<1>2. UNCHANGED <<edges, tokens, log, graphStatus>> /\ f.pc = "mark" /\ f.node \in Node
  BY <1>1 DEF Mark, At, topology, TypedFrame
<1>3. /\ frame' = [frame EXCEPT ![w] = g] /\ g.pc = "log" /\ g.node = f.node
      /\ g.failed = f.failed /\ g.out = f.out
  BY <1>1 DEF Mark, Goto, Typed, TypedFrame, Frame
<1>4. /\ \A m \in Node \ {f.node} : nodeStatus'[m] = nodeStatus[m] /\ output'[m] = output[m]
      /\ nodeStatus'[f.node] = "complete" => ~ f.failed /\ output'[f.node] = f.out
  BY <1>2 DEF Mark, SetNode, Typed, TypeOK
<1>5. frame[w].pc = "mark" /\ frame'[w] = g BY <1>2
<1>0. Answered' = Answered /\ \A n : Once(n)' <=> Once(n) BY <1>2, SameLog
<1> HIDE DEF f, g
<1>6. g \in GrownFrame(Answered') BY <1>1, <1>3 DEF GrownFrame, InRouting, RoutingPc
<1>7. \A n : ~ Routing(w, n)' BY <1>3, <1>5 DEF Routing, RoutingPc
<1>8. \A e : ~ Owes(w, e) BY <1>5 DEF Owes, Routing, RoutingPc
<1>9. \A e \in edges : Ripe(e)' =>
          Owes(w, e)' \/ (Ripe(e) /\ output'[From[e]] = output[From[e]])
  <2> SUFFICES ASSUME NEW e \in edges, Ripe(e)'
               PROVE  Owes(w, e)' \/ (Ripe(e) /\ output'[From[e]] = output[From[e]])
    OBVIOUS
  <2>1. From[e] \in Node BY FromIsNode
  <2>2. CASE From[e] = f.node
    <3>1. nodeStatus'[From[e]] = "complete" BY DEF Ripe
    <3> QED BY <1>3, <1>4, <1>5, <2>2, <3>1 DEF Owes
  <2>3. CASE From[e] # f.node BY <1>0, <1>2, <1>4, <2>1, <2>3, RipeBefore
  <2> QED BY <2>2, <2>3
<1>10. g.pc # "deliver" BY <1>3
<1> QED BY <1>0, <1>2, <1>3, <1>6, <1>7, <1>8, <1>9, <1>10, GrownStep

LEMMA LogNodeGrown == ASSUME Typed, Grown, NEW w \in Worker, LogNode(w) PROVE Grown'
<1> DEFINE f == frame[w]
           g == frame'[w]
<1>1. f \in TypedFrame /\ g \in TypedFrame BY CallFrame, LogNodeTyped DEF Typed
<1>2. UNCHANGED <<edges, tokens, nodeStatus, output, graphStatus>> /\ f.pc = "log"
  BY DEF LogNode, At, topology
<1>3. f.op = "advance" /\ f.node \in Node BY <1>1, <1>2 DEF TypedFrame
<1> PICK n \in Node : n = f.node BY <1>3
<1>4. /\ frame' = [frame EXCEPT ![w] = g] /\ g.pc = "route" /\ g.op = "advance" /\ g.node = n
      /\ g.todo = {h \in [tok : f.out, edge : Outbound(n)] : Matches(Cond[h.edge], h.tok.color)}
  BY <1>1, <1>3 DEF LogNode, Typed, TypedFrame, Frame
<1>5. PICK a \in Answers(n) : a \in Event /\ log' = Append(log, a)
  <2>1. Ev("NodeDone", n) \in Event /\ Ev("NodeFailed", n) \in Event
    BY DEF Ev, Event, EventType
  <2> QED BY <2>1 DEF LogNode, Persist, Answers
<1>6. f = frame[w] /\ g = frame'[w] OBVIOUS
<1> HIDE DEF f, g
<1>7. Answered \subseteq Answered' /\ \A m : Once(m)' => Once(m) BY <1>5, OnceBefore
<1>8. n \in Answered'
  <2>1. Events' = Events \cup {a} BY <1>5, AppendKeeps
  <2> QED BY <1>5, <2>1 DEF Answered, Answers, Ev
<1>9. n \in Answered => ~ Once(n)'
  <2>1. /\ DOMAIN log' = 1..(Len(log) + 1) /\ DOMAIN log = 1..Len(log)
        /\ \A i \in DOMAIN log : log'[i] = log[i]
        /\ log'[Len(log) + 1] = a
    BY <1>5, AppendKeeps
  <2>2. Len(log) \in Nat BY DEF Typed, TypeOK
  <2> SUFFICES ASSUME n \in Answered PROVE ~ Once(n)'
    OBVIOUS
  <2>3. PICK i \in DOMAIN log : log[i] \in Answers(n) BY DEF Answered, Events
  <2>4. Answers(n)' = Answers(n) BY DEF Answers, Ev
  <2>5. i \in DOMAIN log' /\ Len(log) + 1 \in DOMAIN log' /\ i # Len(log) + 1
    BY <2>1, <2>2, <2>3
  <2> QED BY <1>5, <2>1, <2>3, <2>4, <2>5 DEF Once
<1>10. Hands(g) = {h.edge : h \in g.todo} BY <1>4 DEF Hands
<1>11. \A e \in Hands(g) : From[e] = n BY <1>4, <1>10 DEF Outbound
<1>12. g \in GrownFrame(Answered') BY <1>1, <1>4, <1>8, <1>11 DEF GrownFrame
<1>13. \A m \in Node : Once(m)' /\ Routing(w, m)' => \A u \in Worker \ {w} : ~ Routing(u, m)
  <2> SUFFICES ASSUME NEW m \in Node, Once(m)', Routing(w, m)', NEW u \in Worker \ {w},
                      Routing(u, m)
               PROVE  FALSE
    OBVIOUS
  <2>1. m = n BY <1>4, <1>6 DEF Routing
  <2>2. n \in Answered BY <2>1, GrownCall DEF GrownFrame, Routing, InRouting
  <2> QED BY <1>9, <2>1, <2>2
<1>14. \A e \in edges : Ripe(e)' =>
          Owes(w, e)' \/ (Ripe(e) /\ output'[From[e]] = output[From[e]] /\ ~ Owes(w, e))
  <2> SUFFICES ASSUME NEW e \in edges, Ripe(e)', Owes(w, e) PROVE Owes(w, e)'
    BY <1>2, <1>7, RipeBefore
  <2>1. From[e] = n /\ f.out = output[n]
    BY <1>2, <1>3, <1>6 DEF Owes, Routing, RoutingPc
  <2>2. PICK t \in f.out : Matches(Cond[e], t.color) BY <1>2, <2>1 DEF Ripe
  <2>3. e \in Outbound(n) BY <2>1 DEF Outbound
  <2>4. [tok |-> t, edge |-> e] \in g.todo BY <1>4, <2>2, <2>3
  <2>5. e \in Hands(g) BY <1>10, <2>4
  <2> QED BY <1>4, <1>6, <2>1, <2>5 DEF Owes, Routing, RoutingPc
<1>15. g.pc # "deliver" BY <1>4
<1> QED BY <1>2, <1>4, <1>7, <1>12, <1>13, <1>14, <1>15, GrownStep

LEMMA RouteGrown == ASSUME Typed, Placed, Grown, NEW w \in Worker, Route(w) PROVE Grown'
<1> DEFINE f == frame[w]
           g == frame'[w]
<1>1. f \in TypedFrame /\ g \in TypedFrame /\ f \in GrownFrame(Answered)
  BY CallFrame, RouteTyped, GrownCall DEF Typed
<1>2. UNCHANGED <<edges, tokens, nodeStatus, output, log, graphStatus>> /\ f.pc = "route"
  BY DEF Route, At, topology
<1>3. PICK h \in NextHops(f) : frame' = [frame EXCEPT ![w] =
         [f EXCEPT !.pc = "deliver", !.hop = h, !.todo = @ \ {h}, !.seq = NextSeq(h.edge)]]
  BY DEF Route
<1>4. h \in f.todo BY DEF NextHops
<1>5. /\ frame' = [frame EXCEPT ![w] = g] /\ g.pc = "deliver" /\ g.hop = h
      /\ g.todo = f.todo \ {h} /\ g.seq = NextSeq(h.edge) /\ g.op = f.op /\ g.node = f.node
  BY <1>1, <1>3 DEF Typed, TypedFrame, Frame
<1>6. ~ \E r \in tokens : r.edge = h.edge /\ r.seq = NextSeq(h.edge) BY FreshPosition
<1>7. f = frame[w] /\ g = frame'[w] OBVIOUS
<1>0. Answered' = Answered /\ \A n : Once(n)' <=> Once(n) BY <1>2, SameLog
<1> HIDE DEF f, g
<1>8. Hands(g) = Hands(f)
  <2>1. Hands(f) = {k.edge : k \in f.todo} BY <1>2 DEF Hands
  <2>2. Hands(g) = {k.edge : k \in f.todo \ {h}} \cup {h.edge} BY <1>5 DEF Hands
  <2> QED BY <1>4, <2>1, <2>2
<1>9. g \in GrownFrame(Answered')
  BY <1>0, <1>1, <1>2, <1>5, <1>8 DEF GrownFrame, InRouting, RoutingPc
<1>10. \A n : Routing(w, n)' <=> Routing(w, n) BY <1>2, <1>5, <1>7 DEF Routing, RoutingPc
<1>11. \A n \in Node : Once(n)' /\ Routing(w, n)' => \A u \in Worker \ {w} : ~ Routing(u, n)
  BY <1>0, <1>10 DEF Grown
<1>12. ~ Taken(w)' BY <1>2, <1>5, <1>6, <1>7 DEF Taken
<1>13. \A e : Owes(w, e) => Owes(w, e)'
  BY <1>2, <1>5, <1>7, <1>8, <1>10 DEF Owes
<1>14. \A e \in edges : Ripe(e)' => Ripe(e) /\ output'[From[e]] = output[From[e]]
  BY <1>0, <1>2, RipeBefore
<1> QED BY <1>0, <1>2, <1>5, <1>9, <1>11, <1>12, <1>13, <1>14, GrownStep

LEMMA DeliverGrown ==
  ASSUME Typed, Placed, Grown, NEW w \in Worker, Deliver(w) PROVE Grown'
<1> DEFINE f == frame[w]
           g == frame'[w]
<1>1. /\ f \in TypedFrame /\ g \in TypedFrame /\ f \in GrownFrame(Answered)
      /\ f \in PlacedFrame
  BY CallFrame, DeliverTyped, GrownCall, PlacedCall DEF Typed
<1>2. UNCHANGED <<edges, nodeStatus, output, log, graphStatus>> /\ f.pc = "deliver"
  BY DEF Deliver, At, topology
<1>3. f.op \in {"advance", "edge"} /\ f.hop \in Hop BY <1>1, <1>2 DEF TypedFrame
<1> PICK k : k = f.hop.edge OBVIOUS
<1>4. k \in Hands(f) /\ From[k] = f.node /\ k \in edges
      /\ (f.op = "advance" => InRouting(f)) /\ \A e \in Hands(f) : From[e] = f.node
  <2>1. k \in Hands(f) BY <1>2 DEF Hands
  <2>2. k \in edges BY <1>1, <1>3, NoHopIsNoHop DEF PlacedFrame
  <2> QED BY <1>1, <1>2, <1>3, <2>1, <2>2 DEF GrownFrame, InRouting, RoutingPc
<1>5. Answered' = Answered /\ \A n : Once(n)' <=> Once(n) BY <1>2, SameLog
<1>6. f = frame[w] /\ g = frame'[w] OBVIOUS
<1>7. \A e \in edges : Ripe(e)' => Ripe(e) BY <1>2, <1>5, RipeBefore
<1>8. \A u \in Worker \ {w} : frame'[u] = frame[u] BY DEF Deliver, Return, Typed
<1>9. \A u \in Worker \ {w} : \A n : Routing(u, n)' <=> Routing(u, n)
  BY <1>8 DEF Routing
<1>10. \A u \in Worker \ {w} : \A e : Owes(u, e) => Owes(u, e)'
  BY <1>2, <1>8, <1>9 DEF Owes
<1>11. CASE Taken(w)
  <2>1. frame' = [frame EXCEPT ![w] = IdleFrame] /\ UNCHANGED tokens
    BY <1>11 DEF Deliver, Return, Taken
  <2>2. g = IdleFrame BY <2>1 DEF Typed
  <2> HIDE DEF f, g
  <2>3. IdleFrame.pc = "idle" BY DEF IdleFrame
  <2>4. IdleFrame \in GrownFrame(Answered')
    BY <2>3, IdleFrameType DEF GrownFrame, InRouting, RoutingPc
  <2>5. frame' \in [Worker -> GrownFrame(Answered')]
    BY <1>5, <2>1, <2>4 DEF Grown
  <2>6. \A n : ~ Routing(w, n)' BY <1>6, <2>2, <2>3 DEF Routing, RoutingPc
  <2>7. \A n \in Node : Once(n)' =>
           \A u, v \in Worker : Routing(u, n)' /\ Routing(v, n)' => u = v
    BY <1>5, <1>9, <2>6 DEF Grown
  <2>8. \A n \in Node : Once(n)' =>
           \A u \in Worker : Routing(u, n)' /\ At(u, "deliver")' /\ Taken(u)' =>
               frame'[u].hop.edge \notin InitEdge
    <3> SUFFICES ASSUME NEW n \in Node, Once(n)', NEW u \in Worker, Routing(u, n)',
                        At(u, "deliver")', Taken(u)'
                 PROVE  frame'[u].hop.edge \notin InitEdge
      OBVIOUS
    <3>1. u # w BY <2>6
    <3>2. Routing(u, n) /\ At(u, "deliver") /\ Taken(u) /\ frame'[u] = frame[u]
      BY <1>8, <1>9, <2>1, <3>1 DEF At, Taken
    <3> QED BY <1>5, <3>2 DEF Grown
  <2>9. HasToken(k) BY <1>6, <1>11 DEF Taken, HasToken, f
  <2>10. \A e \in edges : Ripe(e) /\ Owes(w, e) => HasToken(e)
    <3> SUFFICES ASSUME NEW e \in edges, Ripe(e), Owes(w, e) PROVE e = k
      BY <2>9
    <3>0. Once(From[e]) /\ Alone(e)
      <4>1. ~ OneCall BY <1>2, <1>6, <1>11 DEF Grown, At
      <4> QED BY <4>1 DEF Ripe, Safe
    <3>1. e \in Hands(f) BY <1>2, <1>6 DEF Owes
    <3>2. From[e] = f.node BY <1>4, <3>1
    <3>3. k \notin InitEdge
      <4>1. CASE f.op = "edge" BY <1>1, <1>2, <1>4, <4>1 DEF GrownFrame
      <4>2. CASE f.op = "advance"
        <5>1. Routing(w, From[e]) /\ At(w, "deliver")
          BY <1>2, <1>4, <1>6, <3>2, <4>2 DEF Routing, InRouting, At
        <5>2. From[e] \in Node /\ Once(From[e]) BY <3>0, FromIsNode
        <5> QED BY <1>6, <1>11, <5>1, <5>2 DEF Grown, f
      <4> QED BY <1>3, <4>1, <4>2
    <3> QED BY <1>4, <3>0, <3>2, <3>3 DEF Alone
  <2>11. \A e \in edges : Ripe(e)' => HasToken(e)' \/ \E u \in Worker : Owes(u, e)'
    <3> SUFFICES ASSUME NEW e \in edges, Ripe(e), ~ HasToken(e)
                 PROVE  \E u \in Worker : Owes(u, e)'
      BY <1>7, <2>1 DEF HasToken
    <3>1. PICK u \in Worker : Owes(u, e) BY DEF Grown
    <3>2. u # w BY <2>10, <3>1
    <3> QED BY <1>10, <3>1, <3>2
  <2>12. OneCall => \A u \in Worker : At(u, "deliver")' => ~ Taken(u)'
    BY <1>6, <2>2, <2>3 DEF OneCall, At
  <2> QED BY <1>2, <2>5, <2>7, <2>8, <2>11, <2>12 DEF Grown
<1>12. CASE ~ Taken(w)
  <2> DEFINE p == IF f.op = "advance" THEN "check" ELSE "route"
  <2>1. PICK row : row = [edge |-> k, seq |-> f.seq, color |-> f.hop.tok.color]
    OBVIOUS
  <2>2. tokens' = tokens \cup {row} /\ row.edge = k BY <1>12, <2>1 DEF Deliver, Taken
  <2>3. /\ frame' = [frame EXCEPT ![w] = g] /\ g.pc = p /\ g.op = f.op
        /\ g.node = f.node /\ g.todo = f.todo
    <3>1. frame' = [frame EXCEPT ![w] = [f EXCEPT !.any = TRUE, !.target = To[k], !.pc = p]]
      BY <1>12 DEF Deliver, Taken
    <3> HIDE DEF p
    <3> QED BY <1>1, <3>1 DEF Typed, TypedFrame, Frame
  <2> HIDE DEF f, g
  <2>4. Hands(f) = Hands(g) \cup {k} /\ Hands(g) \subseteq Hands(f)
    BY <1>2, <2>3 DEF Hands
  <2>5. g \in GrownFrame(Answered')
    BY <1>1, <1>2, <1>3, <1>4, <1>5, <2>3, <2>4 DEF GrownFrame, InRouting, RoutingPc
  <2>6. frame' \in [Worker -> GrownFrame(Answered')] BY <1>5, <2>3, <2>5 DEF Grown
  <2>7. \A n : Routing(w, n)' <=> Routing(w, n)
    BY <1>2, <1>6, <2>3 DEF Routing, RoutingPc
  <2>8. \A n \in Node : Once(n)' =>
           \A u, v \in Worker : Routing(u, n)' /\ Routing(v, n)' => u = v
    BY <1>5, <1>9, <2>7 DEF Grown
  <2>9. \A n \in Node : Once(n)' =>
           \A u \in Worker : Routing(u, n)' /\ At(u, "deliver")' /\ Taken(u)' =>
               frame'[u].hop.edge \notin InitEdge
    <3> SUFFICES ASSUME NEW n \in Node, Once(n), NEW u \in Worker, Routing(u, n)',
                        At(u, "deliver")', Taken(u)', frame'[u].hop.edge \in InitEdge
                 PROVE  FALSE
      BY <1>5
    <3>1. u # w BY <1>6, <2>3 DEF At
    <3>2. Routing(u, n) /\ frame'[u] = frame[u] /\ At(u, "deliver")
      BY <1>8, <1>9, <3>1 DEF At
    <3>3. ~ Taken(u) BY <3>2 DEF Grown
    <3>4. frame[u].hop.edge = k BY <2>2, <3>2, <3>3 DEF Taken
    <3>5. k \in InitEdge BY <3>2, <3>4
    <3>6. f.op = "advance" BY <1>1, <1>2, <1>3, <1>4, <3>5 DEF GrownFrame
    <3>7. From[k] = n
      <4>1. frame[u] \in GrownFrame(Answered) /\ InRouting(frame[u]) /\ frame[u].node = n
            /\ k \in Hands(frame[u])
        BY <3>2, <3>4, GrownCall DEF Routing, InRouting, At, Hands
      <4> QED BY <4>1 DEF GrownFrame
    <3>8. Routing(w, n) BY <1>4, <1>6, <3>6, <3>7 DEF Routing, InRouting
    <3> QED BY <3>1, <3>2, <3>8 DEF Grown
  <2>10. \A e : Owes(w, e) => Owes(w, e)' \/ e = k
    <3> SUFFICES ASSUME NEW e, Owes(w, e), e # k PROVE Owes(w, e)'
      OBVIOUS
    <3>1. e \in Hands(g) /\ (Routing(w, From[e]) \/ f.op = "edge")
      BY <1>2, <1>6, <2>4 DEF Owes
    <3>2. f.op = "edge" => g.op = "edge" /\ g.pc = "route" BY <2>3
    <3> QED BY <1>6, <2>7, <3>1, <3>2 DEF Owes
  <2>11. \A e \in edges : Ripe(e)' => HasToken(e)' \/ \E u \in Worker : Owes(u, e)'
    <3> SUFFICES ASSUME NEW e \in edges, Ripe(e), e # k
                 PROVE  HasToken(e)' \/ \E u \in Worker : Owes(u, e)'
      BY <1>7, <2>2 DEF HasToken
    <3>1. HasToken(e) => HasToken(e)' BY <2>2 DEF HasToken
    <3>2. \A u \in Worker : Owes(u, e) => Owes(u, e)' BY <1>10, <2>10
    <3> QED BY <3>1, <3>2 DEF Grown
  <2>12. OneCall => \A u \in Worker : At(u, "deliver")' => ~ Taken(u)'
    BY <1>6, <2>3 DEF OneCall, At
  <2> QED BY <1>2, <2>6, <2>8, <2>9, <2>11, <2>12 DEF Grown
<1> QED BY <1>11, <1>12

LEMMA AddNodeGrown ==
  ASSUME Typed, Grown, NEW w \in Worker, NEW n \in Node, AddNode(w, n) PROVE Grown'
<1> DEFINE g == [IdleFrame EXCEPT !.pc = "status", !.op = "node", !.target = n]
<1>1. /\ frame' = [frame EXCEPT ![w] = g] /\ frame[w].pc = "idle"
      /\ UNCHANGED <<edges, tokens, nodeStatus, output, log, graphStatus>>
  BY DEF AddNode, At
<1>2. g.op = "node" /\ g.pc = "status" BY DEF IdleFrame
<1>3. frame'[w] = g BY <1>1 DEF Typed
<1>4. g \in TypedFrame BY <1>3, AddTyped DEF Typed
<1> HIDE DEF g
<1>5. g \in GrownFrame(Answered') BY <1>2, <1>4 DEF GrownFrame, InRouting
<1>6. \A m : ~ Routing(w, m)' BY <1>2, <1>3 DEF Routing
<1>7. \A e : ~ Owes(w, e) BY <1>1 DEF Owes, Routing, RoutingPc
<1>8. \A e \in edges : Ripe(e)' => Ripe(e) /\ output'[From[e]] = output[From[e]]
  BY <1>1, SameLog, RipeBefore
<1> QED BY <1>1, <1>2, <1>5, <1>6, <1>7, <1>8, SameLog, GrownStep

LEMMA AddEdgeGrown ==
  ASSUME Typed, Placed, Grown, NEW w \in Worker, NEW x \in Edge, AddEdge(w, x)
  PROVE  Grown'
<1> DEFINE h == [NoHop EXCEPT !.edge = x]
           g == [IdleFrame EXCEPT !.pc = "status", !.op = "edge", !.target = To[x],
                                  !.node = From[x], !.hop = h]
<1>1. /\ frame' = [frame EXCEPT ![w] = g] /\ frame[w].pc = "idle"
      /\ edges' = edges \cup {x} /\ x \notin edges
      /\ UNCHANGED <<tokens, nodeStatus, output, log, graphStatus>>
  BY DEF AddEdge, At
<1>2. g.op = "edge" /\ g.pc = "status" /\ g.node = From[x] /\ g.hop.edge = x
  BY DEF IdleFrame, NoHop
<1>3. frame'[w] = g BY <1>1 DEF Typed
<1>4. g \in TypedFrame BY <1>3, AddTyped DEF Typed
<1> HIDE DEF g, h
<1>5. \A u \in Worker \ {w} : frame'[u] = frame[u] BY <1>1 DEF Typed
<1>6. Answered' = Answered /\ \A n : Once(n)' <=> Once(n) BY <1>1, SameLog
<1>7. x \notin InitEdge BY <1>1 DEF Grown
<1>8. g \in GrownFrame(Answered') BY <1>2, <1>4, <1>7 DEF GrownFrame, InRouting
<1>9. frame' \in [Worker -> GrownFrame(Answered')] BY <1>1, <1>6, <1>8 DEF Grown
<1>10. \A n : ~ Routing(w, n)' BY <1>2, <1>3 DEF Routing
<1>11. \A u \in Worker \ {w} : \A n : Routing(u, n)' <=> Routing(u, n)
  BY <1>5 DEF Routing
<1>12. \A n \in Node : Once(n)' =>
          \A u, v \in Worker : Routing(u, n)' /\ Routing(v, n)' => u = v
  BY <1>6, <1>10, <1>11 DEF Grown
<1>13. \A n \in Node : Once(n)' =>
          \A u \in Worker : Routing(u, n)' /\ At(u, "deliver")' /\ Taken(u)' =>
              frame'[u].hop.edge \notin InitEdge
  <2> SUFFICES ASSUME NEW n \in Node, Once(n), NEW u \in Worker, Routing(u, n)',
                      At(u, "deliver")', Taken(u)'
               PROVE  frame'[u].hop.edge \notin InitEdge
    BY <1>6
  <2>1. u # w BY <1>10
  <2>2. Routing(u, n) /\ At(u, "deliver") /\ Taken(u) /\ frame'[u] = frame[u]
    BY <1>1, <1>5, <1>11, <2>1 DEF At, Taken
  <2> QED BY <2>2 DEF Grown
<1>14. \A e \in edges' : Ripe(e)' => HasToken(e)' \/ \E u \in Worker : Owes(u, e)'
  <2> SUFFICES ASSUME NEW e \in edges', Ripe(e)'
               PROVE  HasToken(e)' \/ \E u \in Worker : Owes(u, e)'
    OBVIOUS
  <2>1. CASE e = x BY <1>2, <1>3, <2>1 DEF Owes
  <2>2. CASE e # x
    <3>1. e \in edges /\ Ripe(e) BY <1>1, <1>6, <2>2 DEF Ripe, Safe, Alone
    <3>2. ~ Owes(w, e) BY <1>1 DEF Owes, Routing, RoutingPc
    <3>3. \A u \in Worker \ {w} : Owes(u, e) => Owes(u, e)'
      BY <1>1, <1>5, <1>11 DEF Owes
    <3>4. HasToken(e)' <=> HasToken(e) BY <1>1 DEF HasToken
    <3> QED BY <3>1, <3>2, <3>3, <3>4 DEF Grown
  <2> QED BY <2>1, <2>2
<1>15. OneCall => \A u \in Worker : At(u, "deliver")' => ~ Taken(u)'
  BY <1>2, <1>3 DEF OneCall, At
<1> QED BY <1>1, <1>9, <1>12, <1>13, <1>14, <1>15 DEF Grown

LEMMA ReadGrown ==
  ASSUME Typed, Grown, NEW w \in Worker, ReadGraphStatus(w) \/ ReadSource(w) PROVE Grown'
<1> DEFINE f == frame[w]
           g == frame'[w]
<1>1. f \in TypedFrame /\ g \in TypedFrame /\ f \in GrownFrame(Answered)
  BY CallFrame, ReadTyped, GrownCall DEF Typed
<1>2. UNCHANGED <<edges, tokens, nodeStatus, output, log, graphStatus>>
      /\ f.pc \in {"status", "source"}
  BY DEF ReadGraphStatus, ReadSource, topology, At
<1>3. f = frame[w] /\ g = frame'[w] OBVIOUS
<1>4. Answered' = Answered /\ \A n : Once(n)' <=> Once(n) BY <1>2, SameLog
<1>5. \A e \in edges : Ripe(e)' => Ripe(e) /\ output'[From[e]] = output[From[e]]
  BY <1>2, <1>4, RipeBefore
<1>6. f.op \in {"node", "edge"} BY <1>1, <1>2 DEF TypedFrame
<1>7. \A e : Owes(w, e) => f.op = "edge" /\ f.hop.edge = e
  BY <1>2, <1>6, <1>3 DEF Owes, Routing
<1>8. CASE ReadGraphStatus(w)
  <2>1. f.pc = "status" BY <1>8 DEF ReadGraphStatus, At
  <2>2. frame' = [frame EXCEPT ![w] = g] BY <1>8 DEF ReadGraphStatus, Typed
  <2>3. IF graphStatus # "running" THEN g = IdleFrame
        ELSE /\ g.pc = IF f.op = "node" THEN "check" ELSE "source"
             /\ g.op = f.op /\ g.hop = f.hop /\ g.node = f.node
    BY <1>1, <1>8 DEF ReadGraphStatus, Typed, TypedFrame, Frame
  <2>4. g.op # "advance" BY <1>6, <2>3 DEF IdleFrame
  <2>5. g.op # "edge" \/ (f.op = "edge" /\ g.pc = "source" /\ g.hop = f.hop /\ g.node = f.node)
    BY <1>6, <2>3 DEF IdleFrame
  <2>6. g.pc # "deliver" BY <2>3 DEF IdleFrame
  <2> HIDE DEF f, g
  <2>7. g \in GrownFrame(Answered')
    BY <1>1, <2>1, <2>4, <2>5 DEF GrownFrame, InRouting
  <2>8. \A n : ~ Routing(w, n)' BY <1>3, <2>4 DEF Routing
  <2>9. \A e \in edges : Ripe(e)' =>
          Owes(w, e)' \/ (Ripe(e) /\ output'[From[e]] = output[From[e]] /\ ~ Owes(w, e))
    <3> SUFFICES ASSUME NEW e \in edges, Ripe(e)', Owes(w, e) PROVE Owes(w, e)'
      BY <1>5
    <3>1. graphStatus = "running" BY <1>2 DEF Ripe
    <3>2. g.op = "edge" /\ g.pc = "source" /\ g.hop.edge = e
      BY <1>7, <2>3, <3>1
    <3> QED BY <1>3, <3>2 DEF Owes
  <2> QED BY <1>2, <1>4, <2>2, <2>6, <2>7, <2>8, <2>9, GrownStep
<1>9. CASE ReadSource(w)
  <2>1. f.pc = "source" BY <1>9 DEF ReadSource, At
  <2>2. f.op = "edge" /\ f.hop \in Hop BY <1>1, <2>1 DEF TypedFrame
  <2>3. From[f.hop.edge] = f.node /\ f.hop.edge \notin InitEdge
    BY <1>1, <2>1, <2>2 DEF GrownFrame
  <2>4. frame' = [frame EXCEPT ![w] = g] BY <1>9 DEF ReadSource, Typed
  <2>5. IF nodeStatus[f.node] = "complete"
        THEN /\ g.pc = "route" /\ g.op = f.op /\ g.node = f.node
             /\ g.todo = Retroactive(f.node, f.hop.edge)
        ELSE g = IdleFrame
    BY <1>1, <1>9 DEF ReadSource, Typed, TypedFrame, Frame
  <2>6. g.op # "advance" /\ g.pc \in {"route", "idle"} BY <2>2, <2>5 DEF IdleFrame
  <2>7. g.op = "edge" => g.node = f.node /\ g.pc = "route"
                         /\ g.todo = Retroactive(f.node, f.hop.edge)
    BY <2>5 DEF IdleFrame
  <2> HIDE DEF f, g
  <2>8. g.op = "edge" => \A e \in Hands(g) : e = f.hop.edge
    BY <2>7 DEF Hands, Retroactive
  <2>9. g \in GrownFrame(Answered')
    BY <1>1, <2>3, <2>6, <2>7, <2>8 DEF GrownFrame, InRouting
  <2>10. \A n : ~ Routing(w, n)' BY <1>3, <2>6 DEF Routing
  <2>11. \A e \in edges : Ripe(e)' =>
          Owes(w, e)' \/ (Ripe(e) /\ output'[From[e]] = output[From[e]] /\ ~ Owes(w, e))
    <3> SUFFICES ASSUME NEW e \in edges, Ripe(e)', Owes(w, e) PROVE Owes(w, e)'
      BY <1>5
    <3>1. f.hop.edge = e /\ From[e] = f.node BY <1>7, <2>3
    <3>2. nodeStatus[f.node] = "complete" BY <1>2, <3>1 DEF Ripe
    <3>3. PICK t \in output[f.node] : Matches(Cond[e], t.color) BY <1>2, <3>1 DEF Ripe
    <3>4. [tok |-> t, edge |-> e] \in g.todo
      BY <2>5, <3>1, <3>2, <3>3 DEF Retroactive
    <3>5. e \in Hands(g) BY <3>4 DEF Hands
    <3> QED BY <1>3, <2>2, <2>5, <3>2, <3>5 DEF Owes
  <2> QED BY <1>2, <1>4, <2>4, <2>6, <2>9, <2>10, <2>11, GrownStep
<1> QED BY <1>8, <1>9

LEMMA NextGrown ==
  Typed /\ Placed /\ Unstarted /\ Grown /\ [GrowNext]_vars => Grown'
<1> SUFFICES ASSUME Typed, Placed, Unstarted, Grown, [GrowNext]_vars PROVE Grown'
  OBVIOUS
<1>1. CASE Cancel \/ UNCHANGED vars
  <2>1. UNCHANGED <<edges, tokens, log, nodeStatus, output, frame>>
        /\ (graphStatus' = "running" => graphStatus = "running")
    BY <1>1 DEF Cancel, vars, topology
  <2>2. Answered' = Answered /\ \A n : Once(n)' <=> Once(n) BY <2>1, SameLog
  <2>3. \A n : \A w : Routing(w, n)' <=> Routing(w, n) BY <2>1 DEF Routing
  <2>4. \A w : Taken(w)' <=> Taken(w) BY <2>1 DEF Taken
  <2>5. \A e : \A w : Owes(w, e)' <=> Owes(w, e) BY <2>1, <2>3 DEF Owes
  <2>6. \A e \in edges : Ripe(e)' => Ripe(e) BY <2>1, <2>2, RipeBefore
  <2>7. \A e : HasToken(e)' <=> HasToken(e) BY <2>1 DEF HasToken
  <2> QED BY <2>1, <2>2, <2>3, <2>4, <2>5, <2>6, <2>7 DEF Grown, At
<1>2. ASSUME NEW w \in Worker, Execute(w) PROVE Grown'
  <2>1. CASE Start(w) \/ \E n \in Node : Report(w, n) BY <2>1, BeginGrown
  <2>2. CASE Step(w)
    BY <2>2, RootsGrown, PopGrown, MarkGrown, LogNodeGrown, RouteGrown, DeliverGrown,
       RoutedGrown, EndGrown, LogOutcomeGrown, CheckGrown, EnableGrown DEF Step
  <2> QED BY <1>2, <2>1, <2>2 DEF Execute
<1>3. ASSUME NEW w \in Worker, Grow(w) PROVE Grown'
  BY <1>3, AddNodeGrown, AddEdgeGrown, ReadGrown DEF Grow
<1> QED BY <1>1, <1>2, <1>3 DEF GrowNext, Next

LEMMA AlwaysGrown == GrowSpec => [](Placed /\ Grown)
<1>1. Init => Unstarted /\ Grown BY InitGrown
<1>2. Typed /\ Placed /\ Unstarted /\ Grown /\ [GrowNext]_vars => (Unstarted /\ Grown)'
  BY NextUnstarted, NextGrown
<1> QED BY <1>1, <1>2, AlwaysPlaced, PTL DEF GrowSpec

LEMMA RipeIsFed ==
  ASSUME Grown, AllIdle, NEW e \in edges, Ripe(e) PROVE HasToken(e)
<1>1. HasToken(e) \/ \E w \in Worker : Owes(w, e) BY DEF Grown
<1>2. \A w \in Worker : ~ Owes(w, e) BY DEF Owes, Routing, RoutingPc, AllIdle, At
<1> QED BY <1>1, <1>2

\* No two edges were added out of the same node.
LoneLateEdges == \A d, e \in edges \ InitEdge : From[d] = From[e] => d = e

\* add_edge and advance_graph between them bring a new edge its tokens, for every graph
\* and any number of calls at once, as long as no node is answered twice and no source
\* has got two new edges.  (The second of two could be left behind, see Alone.)
THEOREM LateEdgesAreFed == GrowSpec => [](AnsweredOnce /\ LoneLateEdges => LateEdgeFed)
<1>1. Placed /\ Grown => (AnsweredOnce /\ LoneLateEdges => LateEdgeFed)
  <2> SUFFICES ASSUME Placed, Grown, AnsweredOnce, LoneLateEdges, AllIdle,
                      graphStatus = "running", NEW e \in edges \ InitEdge,
                      nodeStatus[From[e]] = "complete",
                      \E t \in output[From[e]] : Matches(Cond[e], t.color)
               PROVE  HasToken(e)
    BY DEF LateEdgeFed
  <2>1. Once(From[e]) BY DEF AnsweredOnce, Once, Placed
  <2>2. Alone(e) BY DEF LoneLateEdges, Alone
  <2> QED BY <2>1, <2>2, RipeIsFed DEF Ripe, Safe
<1> QED BY <1>1, AlwaysGrown, PTL

\* With one call at a time every new edge gets its tokens, however many are added and
\* however often their sources are answered.
THEOREM SerialGrowthIsFed == ASSUME OneCall PROVE GrowSpec => []LateEdgeFed
<1>1. Grown => LateEdgeFed BY RipeIsFed DEF LateEdgeFed, Ripe, Safe
<1> QED BY <1>1, AlwaysGrown, PTL
=============================================================================
