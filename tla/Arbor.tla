--------------------------------- MODULE Arbor ---------------------------------
(***************************************************************************)
(* The tree store (src/activations/arbor/storage.rs).  Owners claim and    *)
(* release trees; a tree without references is scheduled for deletion and, *)
(* a week later, archived.  Nodes are appended under any parent, by two    *)
(* more statements after the row itself is there.                          *)
(***************************************************************************)
EXTENDS Trees, FiniteSetsExt, Maps

CONSTANTS
    ArborTree, Owner,
    ArborNode,    \* nodes other than roots; the root of a tree is named as the tree
    Amount,       \* the counts that owners claim and release: one or more, which the
                  \* methods leave to the client, for they check no count
    MaxCount      \* bound on the references of a tree

ASSUME ArborAssumption ==
    /\ Amount \subseteq Nat \ {0} /\ MaxCount \in Nat
    /\ IsFiniteSet(Owner)
    /\ NoNode \notin ArborTree \cup ArborNode
    /\ ArborTree \cap ArborNode = {}

VARIABLES
    trees,      \* rows of trees: ref_count, state, and whether a deletion is due
    refs,       \* rows of tree_refs, by tree and owner
    nodes,      \* rows of nodes
    listed,     \* rows of node_children, by child: its parent and position
    adding,     \* node_create calls between their statements: the position read
    elder       \* history: the siblings listed before a node's row was inserted

treeVars == <<trees, refs>>
nodeVars == <<nodes, listed, adding, elder>>
arborVars == <<trees, refs, nodes, listed, adding, elder>>

RefsOf(t, o) == IF <<t, o>> \in DOMAIN refs THEN refs[<<t, o>>] ELSE 0
Siblings(p) == {m \in DOMAIN listed : listed[m].parent = p}
-----------------------------------------------------------------------------
(***************************************************************************)
(* Trees.  Each of these is one transaction.                               *)
(***************************************************************************)
TreeCreate(t, o) ==
    /\ t \notin DOMAIN trees
    /\ trees' = Put(trees, t, [count |-> 1, state |-> "active", due |-> FALSE])
    /\ refs' = Put(refs, <<t, o>>, 1)
    /\ nodes' = Add(nodes, t, t, NoNode, "text")
    /\ UNCHANGED <<listed, adding, elder>>

Claimable(t) == trees[t].state # "archived"

\* A tree that is scheduled for deletion is reactivated.
TreeClaim(t, o, k) ==
    /\ t \in DOMAIN trees
    /\ Claimable(t)
    /\ trees[t].count + k <= MaxCount
    /\ trees' = [trees EXCEPT ![t] = [count |-> @.count + k, state |-> "active", due |-> FALSE]]
    /\ refs' = Put(refs, <<t, o>>, RefsOf(t, o) + k)
    /\ UNCHANGED nodeVars

Kept_All(t, o, k) == DOMAIN refs \ {<<t, o>>}
\* The owner's row goes when its count reaches zero.
Kept(t, o, k) == IF refs[<<t, o>>] = k THEN DOMAIN refs \ {<<t, o>>} ELSE DOMAIN refs

\* The last reference schedules the deletion, from now on.
Released_ByOwner(t, o, k) ==
    IF <<t, o>> \in Kept(t, o, k) THEN [trees[t] EXCEPT !.count = @ - k]
    ELSE [count |-> trees[t].count - k, state |-> "scheduled_delete", due |-> FALSE]
Released(t, o, k) ==
    IF trees[t].count - k # 0 THEN [trees[t] EXCEPT !.count = @ - k]
    ELSE [count |-> 0, state |-> "scheduled_delete", due |-> FALSE]

TreeRelease(t, o, k) ==
    /\ <<t, o>> \in DOMAIN refs
    /\ refs[<<t, o>>] >= k
    /\ refs' = [x \in Kept(t, o, k) |-> IF x = <<t, o>> THEN refs[x] - k ELSE refs[x]]
    /\ trees' = [trees EXCEPT ![t] = Released(t, o, k)]
    /\ UNCHANGED nodeVars

\* Seven days have passed since the deletion of t was scheduled.
TreeComesDue(t) ==
    /\ t \in DOMAIN trees
    /\ trees[t].state = "scheduled_delete" /\ ~trees[t].due
    /\ trees' = [trees EXCEPT ![t].due = TRUE]
    /\ UNCHANGED <<refs, nodes, listed, adding, elder>>

Expired(t) == trees[t].due /\ trees[t].state = "scheduled_delete"
CleanupScheduledTrees ==
    /\ \E t \in DOMAIN trees : Expired(t)
    /\ trees' = [t \in DOMAIN trees |->
                    IF Expired(t) THEN [trees[t] EXCEPT !.state = "archived"] ELSE trees[t]]
    /\ UNCHANGED <<refs, nodes, listed, adding, elder>>
-----------------------------------------------------------------------------
(***************************************************************************)
(* Nodes: node_create_text, node_create_external and the ephemeral one.    *)
(* Neither the state of the tree nor the tree of the parent is looked at,  *)
(* and tree_id is the only foreign key of the row.                         *)
(***************************************************************************)
NodeCreate(n, t, p, k) ==
    /\ n \notin DOMAIN nodes
    /\ t \in DOMAIN trees
    /\ nodes' = Add(nodes, n, t, p, k)
    /\ elder' = [elder EXCEPT ![n] = Siblings(p)]
    /\ adding' = IF p = NoNode THEN adding ELSE Put(adding, n, {})
    /\ UNCHANGED <<trees, refs, listed>>

NextPosition_Count(p) == IF Siblings(p) = {} THEN 0 ELSE Max({listed[m].position : m \in Siblings(p)})
NextPosition(p) ==
    IF Siblings(p) = {} THEN 0 ELSE 1 + Max({listed[m].position : m \in Siblings(p)})

\* add_child_to_parent reads the next position and then uses it.
ReadPosition(n) ==
    /\ n \in DOMAIN adding /\ adding[n] = {}
    /\ adding' = [adding EXCEPT ![n] = {NextPosition(nodes[n].parent)}]
    /\ UNCHANGED <<trees, refs, nodes, listed, elder>>

\* The foreign key refuses a parent that does not exist; the node's row stays.
AddChild(n) ==
    /\ n \in DOMAIN adding
    /\ adding' = Without(adding, {n})
    /\ \E i \in adding[n] :
          listed' = IF nodes[n].parent \in DOMAIN nodes
                    THEN Put(listed, n, [parent |-> nodes[n].parent, position |-> i])
                    ELSE listed
    /\ UNCHANGED <<trees, refs, nodes, elder>>

\* The process stops: calls between their statements are gone.
ArborCrash ==
    /\ adding # <<>>
    /\ adding' = <<>>
    /\ UNCHANGED <<trees, refs, nodes, listed, elder>>
-----------------------------------------------------------------------------
ArborInit ==
    /\ trees = <<>> /\ refs = <<>>              \* no rows: <<>> is the empty function
    /\ nodes = <<>> /\ listed = <<>> /\ adding = <<>>
    /\ elder = [n \in ArborNode |-> {}]

ArborNext ==
    \/ \E t \in ArborTree :
          \/ \E o \in Owner : \/ TreeCreate(t, o)
                              \/ \E k \in Amount : TreeClaim(t, o, k) \/ TreeRelease(t, o, k)
          \/ TreeComesDue(t)
    \/ CleanupScheduledTrees
    \/ \E n \in ArborNode :
          \/ \E t \in ArborTree, p \in ArborTree \cup ArborNode \cup {NoNode}, k \in {"text", "ephemeral"} :
                p # n /\ NodeCreate(n, t, p, k)
          \/ ReadPosition(n) \/ AddChild(n)
    \/ ArborCrash

ArborSpec == ArborInit /\ [][ArborNext]_arborVars
-----------------------------------------------------------------------------
(***************************************************************************)
(* Properties.                                                             *)
(***************************************************************************)
\* tree_claim and tree_release keep two tables in step, for clients that pass positive
\* counts: the count of a tree is the sum of the counts of its owners, and it is what
\* ref_count reports.
CountIsSumOfOwners ==
    \A t \in DOMAIN trees :
        trees[t].count = SumFunction([o \in Owner |-> RefsOf(t, o)])

\* With positive counts a tree that somebody holds is active, whatever was scheduled
\* before it was claimed again, and one that nobody holds is on its way out: cleanup
\* cannot archive a tree in use, and a release cannot leave a tree behind for ever.
ActiveIsHeld ==
    \A t \in DOMAIN trees :
        trees[t].state = "active" <=> \E o \in Owner : <<t, o>> \in DOMAIN refs

\* Children are listed in the order of the calls that made them: a node whose
\* sibling was listed before its own row was inserted comes after that sibling,
\* although the position is read and written in two statements.  (Calls that
\* overlap may take the same position.)
ChildrenInCallOrder ==
    \A n \in DOMAIN listed :
        n \in ArborNode =>
            \A m \in elder[n] : m \in DOMAIN listed => listed[m].position < listed[n].position
-----------------------------------------------------------------------------
(***************************************************************************)
(* The inductive invariant behind them.                                    *)
(***************************************************************************)
TreeRow == [count : Nat, due : BOOLEAN, state : {"active", "scheduled_delete", "archived"}]
RowsOfTrees ==
    /\ trees \in [DOMAIN trees -> TreeRow]
    /\ refs \in [DOMAIN refs -> Nat \ {0}]
    /\ DOMAIN refs \subseteq (DOMAIN trees) \X Owner

\* The state of a tree goes by its count.
ActiveIsCounted == \A t \in DOMAIN trees : trees[t].state = "active" <=> trees[t].count # 0

\* A child is listed below the parent that its row names, once its call is over.
RowsOfNodes ==
    /\ IsFiniteSet(DOMAIN listed)
    /\ DOMAIN listed \subseteq ArborNode \cap DOMAIN nodes
    /\ \A n \in DOMAIN listed : listed[n].position \in Nat /\ listed[n].parent = nodes[n].parent
    /\ DOMAIN adding \subseteq (ArborNode \cap DOMAIN nodes) \ DOMAIN listed
    /\ \A n \in DOMAIN adding : adding[n] \subseteq Nat
    /\ DOMAIN elder = ArborNode

\* The elders of a node are its siblings, and both the position that its call has
\* read and the one it is listed at are behind theirs.
EldersFirst ==
    \A n \in ArborNode \cap DOMAIN nodes : \A m \in elder[n] :
        /\ m \in DOMAIN listed /\ listed[m].parent = nodes[n].parent
        /\ n \in DOMAIN adding => \A i \in adding[n] : listed[m].position < i
        /\ n \in DOMAIN listed => listed[m].position < listed[n].position

TreesIInv == RowsOfTrees /\ CountIsSumOfOwners /\ ActiveIsCounted
NodesIInv == RowsOfNodes /\ EldersFirst
ArborIInv == TreesIInv /\ NodesIInv
=============================================================================
