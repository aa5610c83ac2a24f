--------------------------------- MODULE Trees ---------------------------------
(***************************************************************************)
(* Reading a forest of conversation nodes (src/activations/arbor): every   *)
(* row of the nodes table names its tree and its parent.  `nodes' is a     *)
(* function from the ids of the rows to records [tree, parent, kind].      *)
(***************************************************************************)
EXTENDS Naturals, Sequences, FiniteSets

CONSTANT NoNode     \* the parent of a root; no row has this id

Add(nodes, n, t, p, k) ==
    [m \in DOMAIN nodes \cup {n} |->
        IF m = n THEN [tree |-> t, parent |-> p, kind |-> k] ELSE nodes[m]]

\* node_get_path without its checks: from the highest ancestor down to n.
Path(nodes, n) ==
    LET path[m \in DOMAIN nodes] ==
          IF nodes[m].parent \in DOMAIN nodes THEN Append(path[nodes[m].parent], m)
                                              ELSE <<m>>
    IN  path[n]

OnPath(nodes, n) == {Path(nodes, n)[i] : i \in DOMAIN Path(nodes, n)}

\* node_get_path looks every ancestor up by its id and by the tree that the
\* caller names; one that is missing there is an error.
Readable(nodes, t, n) ==
    /\ n \in DOMAIN nodes
    /\ \A m \in OnPath(nodes, n) : nodes[m].tree = t
    /\ nodes[Head(Path(nodes, n))].parent = NoNode
=============================================================================
