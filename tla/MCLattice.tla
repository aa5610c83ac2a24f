------------------------------ MODULE MCLattice ------------------------------
(***************************************************************************)
(* Small graphs for checking Lattice and LatticeGrowth.                    *)
(***************************************************************************)
EXTENDS LatticeGrowth, TLC

CONSTANTS a, b, c, d, g, ab, ac, ad, ag, bc, bg, gd

NoGather == {}
NoLimit  == [n \in {} |-> 0]
Ok       == {Fresh(1, "ok")}
OnlyOk   == {Ok}
Named    == {Fresh(1, "named")}
\* A Scatter output of two tokens.
Two      == {Fresh(1, "ok"), Fresh(2, "named")}
OneOrTwo == {Ok, Named, Two}
Always(E) == [e \in E |-> "any"]

\* A join of two independent tasks: a -> c <- b.
JoinNode == {a, b, c}
JoinEdge == {ac, bc}
JoinFrom == ac :> a @@ bc :> b
JoinTo   == ac :> c @@ bc :> c
JoinCond == Always(JoinEdge)

\* Two tasks gathered, one of which also has a task behind it:
\* (a, b) -> g, a -> d.
FanNode == {a, b, g, d}
FanEdge == {ag, bg, ad}
FanFrom == ag :> a @@ bg :> b @@ ad :> a
FanTo   == ag :> g @@ bg :> g @@ ad :> d
FanCond == Always(FanEdge)
FanGather == {g}
FanLimit == g :> 0

\* The same gather behind a branch on the colour: an ok token of a goes to g,
\* an error token to c.  g is a First{1}.
BranchNode == {a, b, c, d, g}
BranchEdge == {ag, ac, bg, gd}
BranchFrom == ag :> a @@ ac :> a @@ bg :> b @@ gd :> g
BranchTo   == ag :> g @@ ac :> c @@ bg :> g @@ gd :> d
BranchCond == ag :> "ok" @@ ac :> "error" @@ bg :> "any" @@ gd :> "any"
BranchLimit == g :> 1

\* A graph that grows: it starts with a -> b, and a second successor of a, the
\* task c, is added and connected while it runs.
GrowNode == {a, b, c}
GrowEdge == {ab, ac}
GrowFrom == ab :> a @@ ac :> a
GrowTo   == ab :> b @@ ac :> c
GrowCond == Always(GrowEdge)
GrowInitNode == {a, b}
GrowInitEdge == {ab}
=============================================================================
