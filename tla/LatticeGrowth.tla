---------------------------- MODULE LatticeGrowth ----------------------------
(***************************************************************************)
(* Graphs that grow while they run: add_node and add_edge, which a running *)
(* node may call on its own graph.  Both insert a row first and then, when *)
(* the graph is running, bring the marking up to date with the statements  *)
(* of Lattice (a call whose op is "node" or "edge").                       *)
(***************************************************************************)
EXTENDS Lattice

\* add_node: the row is inserted as pending.
AddNode(w, n) ==
    /\ At(w, "idle")
    /\ n \notin nodes
    /\ nodes' = nodes \cup {n}
    /\ frame' = [frame EXCEPT ![w] =
            [IdleFrame EXCEPT !.pc = "status", !.op = "node", !.target = n]]
    /\ UNCHANGED <<edges, nodeStatus, output, graphStatus, tokens, log, reported>>

\* add_edge: both end points must exist.
AddEdge(w, e) ==
    /\ At(w, "idle")
    /\ e \notin edges
    /\ From[e] \in nodes /\ To[e] \in nodes
    /\ edges' = edges \cup {e}
    /\ frame' = [frame EXCEPT ![w] =
            [IdleFrame EXCEPT !.pc = "status", !.op = "edge", !.target = To[e],
                              !.node = From[e], !.hop = [NoHop EXCEPT !.edge = e]]]
    /\ UNCHANGED <<nodes, nodeStatus, output, graphStatus, tokens, log, reported>>

\* get_graph_status: only a running graph is brought up to date.
ReadGraphStatus(w) ==
    LET f == frame[w]
    IN  /\ At(w, "status")
        /\ frame' = [frame EXCEPT ![w] =
                IF graphStatus # "running" THEN IdleFrame
                ELSE [f EXCEPT !.pc = IF f.op = "node" THEN "check" ELSE "source"]]
        /\ UNCHANGED <<topology, nodeStatus, output, graphStatus, tokens, log, reported>>

\* get_node(from): a complete source has its output routed on the new edge;
\* a failed one has nothing routed.
Retroactive_Nothing(n, e) == {}
Retroactive(n, e) ==
    {h \in [tok : output[n], edge : {e}] : Matches(Cond[e], h.tok.color)}

ReadSource(w) ==
    LET f == frame[w]
        e == f.hop.edge
    IN  /\ At(w, "source")
        /\ frame' = [frame EXCEPT ![w] =
                IF nodeStatus[f.node] = "complete"
                THEN [f EXCEPT !.pc = "route", !.hop = NoHop,
                               !.todo = Retroactive(f.node, e)]
                ELSE IdleFrame]
        /\ UNCHANGED <<topology, nodeStatus, output, graphStatus, tokens, log, reported>>

\* orcha's add_*_node methods and add_dependency are this, and so is a node that adds
\* to its own graph.
Grow(w) ==
    \/ \E n \in Node : AddNode(w, n)
    \/ \E e \in Edge : AddEdge(w, e)
    \/ ReadGraphStatus(w) \/ ReadSource(w)

GrowNext == Next \/ \E w \in Worker : Grow(w)

GrowSpec == Init /\ [][GrowNext]_vars
-----------------------------------------------------------------------------
\* Whichever looks second sees the other: once no call is in progress, an
\* edge added to a running graph carries the output of its complete source,
\* however add_edge raced the advance_graph call that completed it.
LateEdgeFed ==
    AllIdle /\ graphStatus = "running" =>
        \A e \in edges \ InitEdge :
            (/\ nodeStatus[From[e]] = "complete"
             /\ \E t \in output[From[e]] : Matches(Cond[e], t.color))
            => HasToken(e)
=============================================================================
