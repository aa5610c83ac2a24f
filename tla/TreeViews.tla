------------------------------- MODULE TreeViews -------------------------------
(***************************************************************************)
(* Collapsed views of a tree (src/activations/arbor/views.rs): runs of     *)
(* text nodes, each the child of the one before, are detected in a         *)
(* depth-first walk and copied into a new tree as one node.  The tree is   *)
(* read twice, and each reading lists the children of a node in an order   *)
(* of its own (the iteration order of a HashMap).                          *)
(***************************************************************************)
EXTENDS Naturals, Sequences, SequencesExt, FiniteSets, TLC

CONSTANTS MaxNodes, MinRun
ASSUME TreeViewsAssumption == MaxNodes \in Nat \ {0} /\ MinRun \in Nat

VARIABLES
    source,   \* the nodes, in the order of their creation: parent and kind; 1 is the root
    runs,     \* what view_detect_text_runs returned
    view,     \* nodes of the view: parent (0: none) and the source nodes it shows
    stage,    \* grow, detected or done
    known     \* history: how many nodes there were when the runs were detected

viewVars == <<source, runs, view, stage, known>>

Rows == DOMAIN source
Kids(n) == {m \in Rows : source[m].parent = n}
IsText(n) == source[n].kind = "text"
-----------------------------------------------------------------------------
\* The children of a node, in the order in which the map lists the nodes.
Listed(n, rank) ==
    CHOOSE kids \in SetToSeqs(Kids(n)) :
        \A i, j \in DOMAIN kids : i < j => rank[kids[i]] < rank[kids[j]]

\* traverse_tree_dfs from the root, for every order in which the map may list the
\* nodes.  A child is created after its parent, so the recursion ends.
DepthFirst(rank) ==
    LET walk[i \in 0 .. Len(source) - 1] ==
          LET n == Len(source) - i
              kids == Listed(n, rank)
          IN  <<n>> \o FlattenSeq([k \in DOMAIN kids |-> walk[Len(source) - kids[k]]])
    IN  walk[Len(source) - 1]
Walks == {DepthFirst(rank) : rank \in Permutations(Rows)}

\* range_get: from the end up to the start.
RangeGet(first, last) ==
    LET up[n \in Rows] == IF n = first \/ source[n].parent = 0 THEN <<n>>
                          ELSE Append(up[source[n].parent], n)
    IN  up[last]
-----------------------------------------------------------------------------
(***************************************************************************)
(* view_detect_text_runs.                                                  *)
(***************************************************************************)
NoRun == [start |-> 0, end |-> 0, length |-> 0]

Closed(acc) ==
    [open |-> NoRun,
     runs |-> IF acc.open # NoRun /\ acc.open.length >= MinRun THEN Append(acc.runs, acc.open)
              ELSE acc.runs]

\* The run goes on below its last node only.
Continues(acc, n) == acc.open # NoRun /\ source[n].parent = acc.open.end

Scan(acc, n) ==
    IF ~IsText(n) THEN Closed(acc)
    ELSE IF Continues(acc, n)
    THEN [acc EXCEPT !.open = [start |-> @.start, end |-> n, length |-> @.length + 1]]
    ELSE [Closed(acc) EXCEPT !.open = [start |-> n, end |-> n, length |-> 1]]

\* The last run may end with the walk.
LastSeen(walk) ==
    LET seen[k \in 0 .. Len(walk)] ==
          IF k = 0 THEN [open |-> NoRun, runs |-> <<>>] ELSE Scan(seen[k - 1], walk[k])
    IN  seen[Len(walk)]
TextRuns_Open(walk) == LastSeen(walk).runs
TextRuns(walk) == Closed(LastSeen(walk)).runs

DetectTextRuns ==
    /\ stage = "grow"
    /\ \E walk \in Walks : runs' = TextRuns(walk)
    /\ known' = Len(source)
    /\ stage' = "detected"
    /\ UNCHANGED <<source, view>>
-----------------------------------------------------------------------------
(***************************************************************************)
(* The rest of view_collapse_text_runs.                                    *)
(***************************************************************************)
\* The nodes of a run are looked for by way of first children: in a depth-first
\* walk the first child of a node is the next one.
Followed(run, walk) ==
    LET next[i \in DOMAIN walk] ==
          IF walk[i] = run.end \/ Kids(walk[i]) = {} THEN {walk[i]}
          ELSE {walk[i]} \cup next[i + 1]
    IN  next[CHOOSE i \in DOMAIN walk : walk[i] = run.start]

Starts == {runs[i].start : i \in DOMAIN runs}
Collapsed(walk) == UNION {Followed(runs[i], walk) : i \in DOMAIN runs}

\* A node of the view is placed below the view of its parent, if that has one; a
\* run without one goes below the root, another node nowhere.
Placed(acc, n, collapsed) ==
    LET p == source[n].parent
        above == IF p \in DOMAIN acc.mapped THEN acc.mapped[p] ELSE 0
        isRun == n \in Starts
        run == CHOOSE i \in DOMAIN runs : runs[i].start = n
        shown == IF isRun THEN RangeGet(n, runs[run].end)
                 ELSE IF source[n].kind = "root" THEN <<>> ELSE <<n>>
    IN  IF n \in collapsed /\ ~isRun THEN acc
        ELSE [view |-> Append(acc.view, [parent |-> IF isRun /\ above = 0 THEN 1 ELSE above,
                                         shown |-> shown]),
              mapped |-> [m \in DOMAIN acc.mapped \cup {n} |->
                             IF m = n THEN Len(acc.view) + 1 ELSE acc.mapped[m]]]

Copied(walk) ==
    LET copy[k \in 0 .. Len(walk)] ==
          IF k = 0 THEN [view |-> <<[parent |-> 0, shown |-> <<>>]>>, mapped |-> [n \in {1} |-> 1]]
          ELSE Placed(copy[k - 1], walk[k], Collapsed(walk))
    IN  copy[Len(walk)].view

CollapseTextRuns ==
    /\ stage = "detected"
    /\ \E walk \in Walks : view' = Copied(walk)
    /\ stage' = "done"
    /\ UNCHANGED <<source, runs, known>>

\* A conversation appends below any node, between the two readings too.
GrowSource(p, kind) ==
    /\ stage # "done"
    /\ Len(source) < MaxNodes
    /\ source' = Append(source, [parent |-> p, kind |-> kind])
    /\ UNCHANGED <<runs, view, stage, known>>
-----------------------------------------------------------------------------
ViewInit ==
    /\ source = <<[parent |-> 0, kind |-> "root"]>>
    /\ runs = <<>> /\ view = <<>> /\ stage = "grow" /\ known = 0

ViewNext ==
    \/ \E p \in Rows, kind \in {"text", "handle"} : GrowSource(p, kind)
    \/ DetectTextRuns \/ CollapseTextRuns

ViewSpec == ViewInit /\ [][ViewNext]_viewVars
-----------------------------------------------------------------------------
IsChain == \A n \in Rows : Cardinality(Kids(n)) <= 1
FromTo(a, b) == [i \in 1 .. (b - a + 1) |-> a + i - 1]

\* In a conversation without branches: where text began and ended, as far as it was
\* known, and was long enough.
TextRun(a, b) ==
    /\ 2 <= a /\ a <= b /\ b <= known /\ b - a + 1 >= MinRun
    /\ \A n \in a .. b : IsText(n)
    /\ ~IsText(a - 1) /\ (b < known => ~IsText(b + 1))

\* The rows of the view of a conversation without branches, in the order in which they
\* are made: they hold every node once and in order, each long run of text in one row
\* and no other two nodes together.  (Which rows hang below the root of the view is
\* another matter: those behind a run do not.)
ChainIsMerged ==
    stage = "done" /\ IsChain =>
        /\ FlattenSeq([v \in DOMAIN view |-> view[v].shown]) = FromTo(2, Len(source))
        /\ \A a, b \in Rows : TextRun(a, b) => \E v \in DOMAIN view : view[v].shown = FromTo(a, b)
        /\ \A v \in DOMAIN view :
              Len(view[v].shown) > 1
              => \E a, b \in Rows : TextRun(a, b) /\ view[v].shown = FromTo(a, b)
=============================================================================
