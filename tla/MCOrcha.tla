------------------------------- MODULE MCOrcha -------------------------------
(***************************************************************************)
(* Small graphs for checking OrchaRunner.                                  *)
(***************************************************************************)
EXTENDS OrchaRunner, TLC

CONSTANTS a, b, c, ab, ac, bc, r, s

\* A chain of three, wired by depends_on: a -> b -> c.
ChainNode == {a, b, c}
ChainEdge == {ab, bc}
ChainFrom == ab :> a @@ bc :> b
ChainTo   == ab :> b @@ bc :> c

\* A fork: b and c run at the same time.
ForkNode == {a, b, c}
ForkEdge == {ab, ac}
ForkFrom == ab :> a @@ ac :> a
ForkTo   == ab :> b @@ ac :> c

\* A join of two tasks.
JoinNode == {a, b, c}
JoinEdge == {ac, bc}
JoinFrom == ac :> a @@ bc :> b
JoinTo   == ac :> c @@ bc :> c

AnyColor  == [e \in Edge |-> "any"]
None      == {}
NoLimit   == [n \in {} |-> 0]
OnlyOk    == {{Fresh(1, "ok")}}
Calls     == {Runner} \cup (Node \X Copy)
Once      == [n \in Node |-> 1]
Twice     == [n \in Node |-> 2]
=============================================================================
