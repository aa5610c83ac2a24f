------------------------- MODULE ConversationProofs -------------------------
(***************************************************************************)
(* Theorems about the tree store (Arbor) and the two activations that keep *)
(* a conversation in it (Cone, ClaudeCode), for any number of trees,       *)
(* nodes, turns and chats.                                                 *)
(***************************************************************************)
EXTENDS Arbor, Cone, ClaudeCode, Induction, SequenceTheorems

(***************************************************************************)
(* Arbor: the references of a tree and their sum.                          *)
(***************************************************************************)
\* What each owner holds of a tree.
Row(t) == [o \in Owner |-> RefsOf(t, o)]

LEMMA RowTyped ==
  ASSUME RowsOfTrees, NEW t
  PROVE  Row(t) \in [Owner -> Nat]
<1>1. \A o \in Owner : RefsOf(t, o) \in Nat BY DEF RowsOfTrees, RefsOf
<1> QED BY <1>1 DEF Row

\* A tree whose count is the sum of its owners is active when one of them holds it.
LEMMA HeldIsActive ==
  ASSUME TreesIInv PROVE ActiveIsHeld
<1>1. SUFFICES ASSUME NEW t \in DOMAIN trees
               PROVE  trees[t].count # 0 <=> \E o \in Owner : <<t, o>> \in DOMAIN refs
  BY DEF ActiveIsHeld, TreesIInv, ActiveIsCounted
<1>2. trees[t].count = SumFunction(Row(t)) BY DEF TreesIInv, CountIsSumOfOwners, Row
<1>3. Row(t) \in [Owner -> Nat] BY RowTyped DEF TreesIInv
<1>4. SumFunction(Row(t)) = 0 <=> \A o \in Owner : Row(t)[o] = 0
  BY <1>3, SumOfNaturals, ArborAssumption
<1>5. ASSUME NEW o \in Owner PROVE Row(t)[o] = 0 <=> <<t, o>> \notin DOMAIN refs
  BY DEF TreesIInv, RowsOfTrees, RefsOf, Row
<1> QED BY <1>2, <1>4, <1>5

\* What one owner's row becomes.
LEMMA OtherRowsStay ==
  ASSUME RowsOfTrees, RowsOfTrees', NEW t, NEW o \in Owner, NEW k \in Nat,
         \A u, q : <<u, q>> # <<t, o>> => RefsOf(u, q)' = RefsOf(u, q),
         RefsOf(t, o)' = RefsOf(t, o) + k
  PROVE  /\ SumFunction(Row(t))' = SumFunction(Row(t)) + k
         /\ \A u : u # t => SumFunction(Row(u))' = SumFunction(Row(u))
<1>1. Row(t) \in [Owner -> Nat] /\ Row(t)' \in [Owner -> Nat]
  <2>1. \A p \in Owner : RefsOf(t, p)' \in Nat BY DEF RowsOfTrees, RefsOf
  <2> QED BY <2>1, RowTyped DEF Row
<1>2. PICK f \in [Owner -> Nat] : f = Row(t) BY <1>1
<1>3. PICK h \in [Owner -> Nat] : h = Row(t)' BY <1>1
<1>4. h[o] = f[o] + k BY <1>2, <1>3 DEF Row
<1>5. \A p \in Owner \ {o} : h[p] = f[p] BY <1>2, <1>3 DEF Row
<1>6. SumFunction(h) = SumFunction(f) + k BY <1>4, <1>5, SumAtOnePoint, ArborAssumption
<1>7. SumFunction(Row(t))' = SumFunction(h) BY <1>3
<1>8. ASSUME NEW u, u # t PROVE Row(u)' = Row(u)
  <2>1. \A p \in Owner : RefsOf(u, p)' = RefsOf(u, p) BY <1>8
  <2> QED BY <2>1 DEF Row
<1> QED BY <1>2, <1>6, <1>7, <1>8

\* A step that sets the row of one tree, and adds k to what one owner holds of it.
LEMMA CountFollows ==
  ASSUME TreesIInv, RowsOfTrees', NEW t, NEW o \in Owner, NEW k \in Nat,
         DOMAIN trees' = DOMAIN trees \cup {t},
         \A u \in DOMAIN trees \ {t} : trees'[u] = trees[u],
         \A u, q : <<u, q>> # <<t, o>> => RefsOf(u, q)' = RefsOf(u, q),
         RefsOf(t, o)' = RefsOf(t, o) + k,
         trees'[t].count = SumFunction(Row(t)) + k
  PROVE  CountIsSumOfOwners'
<1>1. /\ SumFunction(Row(t))' = SumFunction(Row(t)) + k
      /\ \A u : u # t => SumFunction(Row(u))' = SumFunction(Row(u))
  BY OtherRowsStay DEF TreesIInv
<1>2. ASSUME NEW u \in DOMAIN trees' PROVE trees'[u].count = SumFunction(Row(u))'
  <2>1. CASE u = t BY <2>1, <1>1
  <2>2. CASE u # t BY <2>2, <1>1 DEF TreesIInv, CountIsSumOfOwners, Row
  <2> QED BY <2>1, <2>2
<1> QED BY <1>2 DEF CountIsSumOfOwners, Row

LEMMA TreeCreateTrees ==
  ASSUME TreesIInv, NEW t \in ArborTree, NEW o \in Owner, TreeCreate(t, o)
  PROVE  TreesIInv'
<1>1. DOMAIN trees' = DOMAIN trees \cup {t} /\ DOMAIN refs' = DOMAIN refs \cup {<<t, o>>}
  BY DEF TreeCreate, Put
<1>2. /\ trees'[t] = [count |-> 1, state |-> "active", due |-> FALSE]
      /\ \A u \in DOMAIN trees \ {t} : trees'[u] = trees[u]
  BY DEF TreeCreate, Put
<1>3. refs'[<<t, o>>] = 1 /\ \A x \in DOMAIN refs \ {<<t, o>>} : refs'[x] = refs[x]
  BY DEF TreeCreate, Put
<1>4. \A q : <<t, q>> \notin DOMAIN refs BY DEF TreesIInv, RowsOfTrees, TreeCreate
<1>5. RowsOfTrees'
  <2>1. trees' = [u \in DOMAIN trees' |-> trees'[u]] /\ refs' = [x \in DOMAIN refs' |-> refs'[x]]
    BY DEF TreeCreate, Put
  <2>2. \A u \in DOMAIN trees' : trees'[u] \in TreeRow
    <3>1. trees'[t] \in TreeRow BY <1>2 DEF TreeRow
    <3> QED BY <1>1, <1>2, <3>1 DEF TreesIInv, RowsOfTrees
  <2>3. \A x \in DOMAIN refs' : refs'[x] \in Nat \ {0} BY <1>1, <1>3 DEF TreesIInv, RowsOfTrees
  <2>4. DOMAIN refs' \subseteq (DOMAIN trees') \X Owner BY <1>1 DEF TreesIInv, RowsOfTrees
  <2> QED BY <2>1, <2>2, <2>3, <2>4 DEF RowsOfTrees
<1>6. \A u, q : <<u, q>> # <<t, o>> => RefsOf(u, q)' = RefsOf(u, q) BY <1>1, <1>3 DEF RefsOf
<1>7. RefsOf(t, o)' = RefsOf(t, o) + 1 BY <1>1, <1>3, <1>4 DEF RefsOf
<1>8. SumFunction(Row(t)) = 0
  <2>1. Row(t) \in [Owner -> Nat] BY RowTyped DEF TreesIInv
  <2>2. \A q \in Owner : Row(t)[q] = 0 BY <1>4 DEF Row, RefsOf
  <2> QED BY <2>1, <2>2, SumOfNaturals, ArborAssumption
<1>9. CountIsSumOfOwners' BY <1>1, <1>2, <1>5, <1>6, <1>7, <1>8, CountFollows
<1>10. ActiveIsCounted' BY <1>1, <1>2 DEF ActiveIsCounted, TreesIInv
<1> QED BY <1>5, <1>9, <1>10 DEF TreesIInv

LEMMA TreeClaimTrees ==
  ASSUME TreesIInv, NEW t \in ArborTree, NEW o \in Owner, NEW k \in Amount, TreeClaim(t, o, k)
  PROVE  TreesIInv'
<1>0. k \in Nat \ {0} BY ArborAssumption
<1>1. t \in DOMAIN trees /\ DOMAIN trees' = DOMAIN trees /\ DOMAIN refs' = DOMAIN refs \cup {<<t, o>>}
  BY DEF TreeClaim, Put, TreesIInv, RowsOfTrees
<1>2. /\ trees'[t] = [count |-> trees[t].count + k, state |-> "active", due |-> FALSE]
      /\ \A u \in DOMAIN trees \ {t} : trees'[u] = trees[u]
  BY DEF TreeClaim, TreesIInv, RowsOfTrees
<1>3. /\ refs'[<<t, o>>] = RefsOf(t, o) + k
      /\ \A x \in DOMAIN refs \ {<<t, o>>} : refs'[x] = refs[x]
  BY DEF TreeClaim, Put
<1>4. RefsOf(t, o) \in Nat /\ trees[t].count \in Nat BY <1>1 DEF RefsOf, TreeRow, TreesIInv, RowsOfTrees
<1>5. RowsOfTrees'
  <2>1. trees' = [u \in DOMAIN trees' |-> trees'[u]] /\ refs' = [x \in DOMAIN refs' |-> refs'[x]]
    BY DEF TreeClaim, Put, TreesIInv, RowsOfTrees
  <2>2. \A u \in DOMAIN trees' : trees'[u] \in TreeRow
    <3>1. trees'[t] \in TreeRow BY <1>0, <1>2, <1>4 DEF TreeRow
    <3> QED BY <1>1, <1>2, <3>1 DEF TreesIInv, RowsOfTrees
  <2>3. \A x \in DOMAIN refs' : refs'[x] \in Nat \ {0}
    <3>1. refs'[<<t, o>>] \in Nat \ {0} BY <1>0, <1>3, <1>4
    <3> QED BY <1>1, <1>3, <3>1 DEF TreesIInv, RowsOfTrees
  <2>4. DOMAIN refs' \subseteq (DOMAIN trees') \X Owner BY <1>1 DEF TreesIInv, RowsOfTrees
  <2> QED BY <2>1, <2>2, <2>3, <2>4 DEF RowsOfTrees
<1>6. \A u, q : <<u, q>> # <<t, o>> => RefsOf(u, q)' = RefsOf(u, q) BY <1>1, <1>3 DEF RefsOf
<1>7. RefsOf(t, o)' = RefsOf(t, o) + k BY <1>1, <1>3 DEF RefsOf
<1>8. trees'[t].count = SumFunction(Row(t)) + k
  BY <1>1, <1>2 DEF TreesIInv, CountIsSumOfOwners, Row
<1>9. CountIsSumOfOwners'
  <2>1. k \in Nat /\ DOMAIN trees' = DOMAIN trees \cup {t} BY <1>0, <1>1
  <2>2. \A u \in DOMAIN trees \ {t} : trees'[u] = trees[u] BY <1>2
  <2> QED BY <2>1, <2>2, <1>5, <1>6, <1>7, <1>8, CountFollows
<1>10. ActiveIsCounted' BY <1>0, <1>1, <1>2, <1>4 DEF ActiveIsCounted, TreesIInv
<1> QED BY <1>5, <1>9, <1>10 DEF TreesIInv

\* A release is the reverse of a claim: before it the owner holds k more.
LEMMA TreeReleaseTrees ==
  ASSUME TreesIInv, NEW t \in ArborTree, NEW o \in Owner, NEW k \in Amount, TreeRelease(t, o, k)
  PROVE  TreesIInv'
<1>0. k \in Nat \ {0} BY ArborAssumption
<1>1. /\ <<t, o>> \in DOMAIN refs /\ t \in DOMAIN trees /\ DOMAIN trees' = DOMAIN trees
      /\ DOMAIN refs' = Kept(t, o, k) /\ refs[<<t, o>>] \in Nat /\ refs[<<t, o>>] >= k
      /\ trees[t].count \in Nat
  BY DEF TreeRelease, TreeRow, TreesIInv, RowsOfTrees
<1>2. /\ trees'[t] = Released(t, o, k)
      /\ \A u \in DOMAIN trees \ {t} : trees'[u] = trees[u]
  BY <1>1 DEF TreeRelease, TreesIInv, RowsOfTrees
<1>3. \A x \in Kept(t, o, k) : refs'[x] = IF x = <<t, o>> THEN refs[x] - k ELSE refs[x]
  BY DEF TreeRelease
<1>4. \A u, q : <<u, q>> # <<t, o>> => RefsOf(u, q)' = RefsOf(u, q)
  BY <1>1, <1>3 DEF RefsOf, Kept
<1>5. RefsOf(t, o)' \in Nat /\ RefsOf(t, o) = RefsOf(t, o)' + k
  BY <1>0, <1>1, <1>3 DEF RefsOf, Kept
<1>6. trees[t].count = SumFunction(Row(t)) BY <1>1 DEF TreesIInv, CountIsSumOfOwners, Row
<1>7. \A u, p : p \in Owner => RefsOf(u, p)' \in Nat
  <2>1. SUFFICES ASSUME NEW u, NEW p \in Owner PROVE RefsOf(u, p)' \in Nat OBVIOUS
  <2>2. RefsOf(u, p) \in Nat BY DEF RefsOf, TreesIInv, RowsOfTrees
  <2>3. CASE <<u, p>> = <<t, o>> BY <2>3, <1>5
  <2>4. CASE <<u, p>> # <<t, o>> BY <2>2, <2>4, <1>4
  <2> QED BY <2>3, <2>4
<1>8. /\ SumFunction(Row(t)) = SumFunction(Row(t))' + k
      /\ SumFunction(Row(t))' \in Nat
      /\ \A u : u # t => SumFunction(Row(u))' = SumFunction(Row(u))
  <2>1. PICK f \in [Owner -> Nat] : f = Row(t) BY RowTyped DEF TreesIInv
  <2>2. PICK h \in [Owner -> Nat] : h = Row(t)' BY <1>7 DEF Row
  <2>3. f[o] = h[o] + k BY <2>1, <2>2, <1>5 DEF Row
  <2>4. \A p \in Owner \ {o} : f[p] = h[p] BY <2>1, <2>2, <1>4 DEF Row
  <2>5. SumFunction(f) = SumFunction(h) + k BY <1>0, <2>3, <2>4, SumAtOnePoint, ArborAssumption
  <2>6. SumFunction(h) \in Nat BY SumOfNaturals, ArborAssumption
  <2>7. SumFunction(Row(t))' = SumFunction(h) BY <2>2
  <2>8. ASSUME NEW u, u # t PROVE Row(u)' = Row(u)
    <3>1. \A p \in Owner : RefsOf(u, p)' = RefsOf(u, p) BY <2>8, <1>4
    <3> QED BY <3>1 DEF Row
  <2> QED BY <2>1, <2>5, <2>6, <2>7, <2>8
<1>9. trees[t].count - k \in Nat BY <1>0, <1>1, <1>6, <1>8
<1>10. trees'[t].count = trees[t].count - k
  <2>1. trees[t] \in TreeRow
    BY <1>1 DEF TreesIInv, RowsOfTrees
  <2> QED BY <1>2, <1>9, <2>1 DEF Released, TreeRow
<1>11. RowsOfTrees'
  <2>1. trees' = [u \in DOMAIN trees' |-> trees'[u]] /\ refs' = [x \in DOMAIN refs' |-> refs'[x]]
    BY DEF TreeRelease, TreesIInv, RowsOfTrees
  <2>2. trees'[t] \in TreeRow
    BY <1>1, <1>2, <1>9, SMTT(30) DEF Released, TreeRow, TreesIInv, RowsOfTrees
  <2>3. \A u \in DOMAIN trees' : trees'[u] \in TreeRow
    BY <1>1, <1>2, <2>2 DEF TreesIInv, RowsOfTrees
  <2>4. \A x \in DOMAIN refs' : refs'[x] \in Nat \ {0}
    BY <1>0, <1>1, <1>3 DEF Kept, TreesIInv, RowsOfTrees
  <2>5. DOMAIN refs' \subseteq (DOMAIN trees') \X Owner BY <1>1 DEF Kept, TreesIInv, RowsOfTrees
  <2> QED BY <2>1, <2>3, <2>4, <2>5 DEF RowsOfTrees
<1>12. CountIsSumOfOwners'
  <2>1. ASSUME NEW u \in DOMAIN trees' PROVE trees'[u].count = SumFunction(Row(u))'
    <3>1. CASE u = t BY <3>1, <1>0, <1>6, <1>8, <1>10
    <3>2. CASE u # t BY <3>2, <1>1, <1>2, <1>8 DEF TreesIInv, CountIsSumOfOwners, Row
    <3> QED BY <3>1, <3>2
  <2> QED BY <2>1 DEF CountIsSumOfOwners, Row
<1>13. ActiveIsCounted'
  <2>1. trees'[t].state = "active" <=> trees'[t].count # 0
    <3>1. trees[t].state = "active" BY <1>0, <1>1, <1>9 DEF TreesIInv, ActiveIsCounted
    <3>2. trees[t] \in TreeRow
      BY <1>1 DEF TreesIInv, RowsOfTrees
    <3> QED BY <1>2, <1>9, <3>1, <3>2 DEF Released, TreeRow
  <2> QED BY <1>1, <1>2, <2>1 DEF TreesIInv, ActiveIsCounted
<1> QED BY <1>11, <1>12, <1>13 DEF TreesIInv

\* A step that changes neither the counts nor which trees are active.
LEMMA TreesMove ==
  ASSUME TreesIInv, refs' = refs, DOMAIN trees' = DOMAIN trees,
         trees' = [t \in DOMAIN trees' |-> trees'[t]],
         \A t \in DOMAIN trees : /\ trees'[t] \in TreeRow /\ trees'[t].count = trees[t].count
                                 /\ trees'[t].state = "active" <=> trees[t].state = "active"
  PROVE  TreesIInv'
<1>1. RowsOfTrees' BY DEF TreesIInv, RowsOfTrees
<1>2. CountIsSumOfOwners' BY DEF TreesIInv, CountIsSumOfOwners, RefsOf
<1>3. ActiveIsCounted' BY DEF TreesIInv, ActiveIsCounted
<1> QED BY <1>1, <1>2, <1>3 DEF TreesIInv

LEMMA TreeComesDueTrees ==
  ASSUME TreesIInv, NEW t \in ArborTree, TreeComesDue(t)
  PROVE  TreesIInv'
<1>1. t \in DOMAIN trees /\ DOMAIN trees' = DOMAIN trees /\ refs' = refs
      /\ trees' = [trees EXCEPT ![t].due = TRUE]
  BY DEF TreeComesDue, TreesIInv, RowsOfTrees
<1>2. trees'[t] = [trees[t] EXCEPT !.due = TRUE] /\ \A u \in DOMAIN trees \ {t} : trees'[u] = trees[u]
  BY <1>1 DEF TreesIInv, RowsOfTrees
<1>3. \A u \in DOMAIN trees : trees[u] \in TreeRow BY DEF TreesIInv, RowsOfTrees
<1>4. trees'[t] \in TreeRow /\ trees'[t].count = trees[t].count /\ trees'[t].state = trees[t].state
  BY <1>1, <1>2, <1>3 DEF TreeRow
<1>5. \A u \in DOMAIN trees : /\ trees'[u] \in TreeRow /\ trees'[u].count = trees[u].count
                              /\ trees'[u].state = "active" <=> trees[u].state = "active"
  BY <1>2, <1>3, <1>4
<1>6. trees' = [u \in DOMAIN trees' |-> trees'[u]] BY <1>1 DEF TreesIInv, RowsOfTrees
<1> QED BY <1>1, <1>5, <1>6, TreesMove

LEMMA CleanupTrees ==
  ASSUME TreesIInv, CleanupScheduledTrees
  PROVE  TreesIInv'
<1>1. DOMAIN trees' = DOMAIN trees /\ refs' = refs
      /\ trees' = [t \in DOMAIN trees |->
                    IF Expired(t) THEN [trees[t] EXCEPT !.state = "archived"] ELSE trees[t]]
  BY DEF CleanupScheduledTrees
<1>2. ASSUME NEW u \in DOMAIN trees
      PROVE  /\ trees'[u] \in TreeRow /\ trees'[u].count = trees[u].count
             /\ trees'[u].state = "active" <=> trees[u].state = "active"
  <2>1. trees[u] \in TreeRow BY DEF TreesIInv, RowsOfTrees
  <2>2. CASE Expired(u)
    <3>1. trees'[u] = [trees[u] EXCEPT !.state = "archived"] BY <1>1, <2>2
    <3>2. trees[u].state = "scheduled_delete" BY <2>2 DEF Expired
    <3> QED BY <2>1, <3>1, <3>2 DEF TreeRow
  <2>3. CASE ~Expired(u) BY <1>1, <2>1, <2>3
  <2> QED BY <2>2, <2>3
<1>3. trees' = [u \in DOMAIN trees' |-> trees'[u]] BY <1>1
<1> QED BY <1>1, <1>2, <1>3, TreesMove

(***************************************************************************)
(* Positions of children.                                                  *)
(***************************************************************************)
\* The next position is a number behind every sibling that is listed.
LEMMA NextIsBehind ==
  ASSUME RowsOfNodes, NEW p
  PROVE  NextPosition(p) \in Nat /\ \A m \in Siblings(p) : listed[m].position < NextPosition(p)
<1> DEFINE P == {listed[m].position : m \in Siblings(p)}
<1>1. CASE Siblings(p) = {} BY <1>1 DEF NextPosition
<1>2. CASE Siblings(p) # {}
  <2>1. P \in SUBSET Nat /\ P # {} BY <1>2 DEF Siblings, RowsOfNodes
  <2>2. IsFiniteSet(Siblings(p)) BY FS_Subset DEF Siblings, RowsOfNodes
  <2>3. IsFiniteSet(P)
    <3> DEFINE f == [m \in Siblings(p) |-> listed[m].position]
    <3>1. f \in Surjection(Siblings(p), P) BY DEF Surjection
    <3> QED BY <2>2, <3>1, FS_Surjection
  <2>4. Max(P) \in P /\ \A x \in P : x <= Max(P) BY <2>1, <2>3, MaxIsLargest
  <2>5. NextPosition(p) = 1 + Max(P) BY <1>2 DEF NextPosition
  <2>6. \A m \in Siblings(p) : listed[m].position \in P OBVIOUS
  <2> HIDE DEF P
  <2> QED BY <2>1, <2>4, <2>5, <2>6
<1> QED BY <1>1, <1>2

LEMMA TreeCreateNodes ==
  ASSUME NodesIInv, NEW t \in ArborTree, NEW o, TreeCreate(t, o)
  PROVE  NodesIInv'
<1>1. UNCHANGED <<listed, adding, elder>> BY DEF TreeCreate
<1>2. DOMAIN nodes' = DOMAIN nodes \cup {t} /\ \A n \in DOMAIN nodes : n # t => nodes'[n] = nodes[n]
  BY DEF TreeCreate, Add
<1>3. t \notin ArborNode BY ArborAssumption
<1>4. RowsOfNodes' BY <1>1, <1>2, <1>3 DEF NodesIInv, RowsOfNodes
<1>5. EldersFirst' BY <1>1, <1>2, <1>3 DEF NodesIInv, EldersFirst
<1> QED BY <1>4, <1>5 DEF NodesIInv

LEMMA NodeCreateNodes ==
  ASSUME NodesIInv, NEW n \in ArborNode, NEW t, NEW p, NEW k, NodeCreate(n, t, p, k)
  PROVE  NodesIInv'
<1>1. /\ n \notin DOMAIN nodes /\ listed' = listed
      /\ DOMAIN nodes' = DOMAIN nodes \cup {n} /\ nodes'[n].parent = p
      /\ \A m \in DOMAIN nodes : nodes'[m] = nodes[m]
  BY DEF NodeCreate, Add
<1>2. DOMAIN elder' = ArborNode /\ elder'[n] = Siblings(p) /\ \A m \in ArborNode \ {n} : elder'[m] = elder[m]
  BY DEF NodeCreate, NodesIInv, RowsOfNodes
<1>3. /\ DOMAIN adding' \subseteq DOMAIN adding \cup {n}
      /\ n \in DOMAIN adding' => adding'[n] = {}
      /\ \A m \in DOMAIN adding' : m # n => m \in DOMAIN adding /\ adding'[m] = adding[m]
  BY <1>1 DEF NodeCreate, Put, NodesIInv, RowsOfNodes
<1>4. RowsOfNodes'
  <2>1. \A m \in DOMAIN listed : m \in DOMAIN nodes BY DEF NodesIInv, RowsOfNodes
  <2> QED BY <1>1, <1>2, <1>3, <2>1 DEF NodesIInv, RowsOfNodes
<1>5. EldersFirst'
  <2>1. SUFFICES ASSUME NEW q \in ArborNode \cap DOMAIN nodes', NEW m \in elder'[q]
                 PROVE  /\ m \in DOMAIN listed /\ listed[m].parent = nodes'[q].parent
                        /\ q \in DOMAIN adding' => \A i \in adding'[q] : listed[m].position < i
                        /\ q \in DOMAIN listed => listed[m].position < listed[q].position
    BY <1>1 DEF EldersFirst
  <2>2. CASE q = n BY <1>1, <1>2, <1>3, <2>1, <2>2 DEF Siblings, NodesIInv, RowsOfNodes
  <2>3. CASE q # n BY <1>1, <1>2, <1>3, <2>1, <2>3 DEF NodesIInv, EldersFirst
  <2> QED BY <2>2, <2>3
<1> QED BY <1>4, <1>5 DEF NodesIInv

LEMMA ReadPositionNodes ==
  ASSUME NodesIInv, NEW n, ReadPosition(n)
  PROVE  NodesIInv'
<1> DEFINE i == NextPosition(nodes[n].parent)
<1>1. n \in DOMAIN adding /\ UNCHANGED <<nodes, listed, elder>> /\ DOMAIN adding' = DOMAIN adding
  BY DEF ReadPosition
<1>2. adding'[n] = {i} /\ \A m \in DOMAIN adding \ {n} : adding'[m] = adding[m]
  BY DEF ReadPosition
<1>3. i \in Nat /\ \A m \in Siblings(nodes[n].parent) : listed[m].position < i
  BY NextIsBehind DEF NodesIInv
<1> HIDE DEF i
<1>4. RowsOfNodes' BY <1>1, <1>2, <1>3 DEF NodesIInv, RowsOfNodes
<1>5. EldersFirst' BY <1>1, <1>2, <1>3 DEF NodesIInv, EldersFirst, Siblings
<1> QED BY <1>4, <1>5 DEF NodesIInv

LEMMA AddChildNodes ==
  ASSUME NodesIInv, NEW n, AddChild(n)
  PROVE  NodesIInv'
<1>1. /\ n \in DOMAIN adding /\ UNCHANGED <<nodes, elder>>
      /\ DOMAIN adding' = DOMAIN adding \ {n} /\ \A m \in DOMAIN adding' : adding'[m] = adding[m]
  BY DEF AddChild, Without
<1>2. PICK i \in adding[n] :
         listed' = IF nodes[n].parent \in DOMAIN nodes
                   THEN Put(listed, n, [parent |-> nodes[n].parent, position |-> i]) ELSE listed
  BY DEF AddChild
<1>3. n \in ArborNode \cap DOMAIN nodes /\ n \notin DOMAIN listed /\ i \in Nat
  BY <1>1, <1>2 DEF NodesIInv, RowsOfNodes
<1>4. CASE nodes[n].parent \in DOMAIN nodes
  <2>1. /\ DOMAIN listed' = DOMAIN listed \cup {n}
        /\ listed'[n] = [parent |-> nodes[n].parent, position |-> i]
        /\ \A m \in DOMAIN listed : listed'[m] = listed[m]
    BY <1>2, <1>3, <1>4 DEF Put
  <2>2. IsFiniteSet(DOMAIN listed') BY <2>1, FS_AddElement DEF NodesIInv, RowsOfNodes
  <2>3. RowsOfNodes' BY <1>1, <1>3, <2>1, <2>2 DEF NodesIInv, RowsOfNodes
  <2>4. EldersFirst' BY <1>1, <1>2, <1>3, <2>1 DEF NodesIInv, EldersFirst
  <2> QED BY <2>3, <2>4 DEF NodesIInv
<1>5. CASE nodes[n].parent \notin DOMAIN nodes
  <2>1. listed' = listed BY <1>2, <1>5
  <2>2. RowsOfNodes' BY <1>1, <2>1 DEF NodesIInv, RowsOfNodes
  <2>3. EldersFirst' BY <1>1, <2>1 DEF NodesIInv, EldersFirst
  <2> QED BY <2>2, <2>3 DEF NodesIInv
<1> QED BY <1>4, <1>5

LEMMA CrashNodes == ASSUME NodesIInv, ArborCrash PROVE NodesIInv'
<1>1. UNCHANGED <<nodes, listed, elder>> /\ DOMAIN adding' = {} BY DEF ArborCrash
<1> QED BY <1>1 DEF NodesIInv, RowsOfNodes, EldersFirst

LEMMA ArborInvariant == ArborSpec => []ArborIInv
<1>1. ArborInit => ArborIInv
  <2>1. SUFFICES ASSUME ArborInit PROVE ArborIInv OBVIOUS
  <2>2. DOMAIN trees = {} /\ DOMAIN refs = {} /\ DOMAIN nodes = {} /\ DOMAIN listed = {}
        /\ DOMAIN adding = {} /\ DOMAIN elder = ArborNode
    <3>1. DOMAIN <<>> = {} OBVIOUS
    <3> QED BY <2>1, <3>1 DEF ArborInit
  <2>3. trees \in [{} -> TreeRow] /\ refs \in [{} -> Nat \ {0}]
    <3>1. \A S : <<>> \in [{} -> S] OBVIOUS
    <3> QED BY <2>1, <3>1 DEF ArborInit
  <2>4. TreesIInv BY <2>2, <2>3 DEF TreesIInv, RowsOfTrees, CountIsSumOfOwners, ActiveIsCounted
  <2>5. NodesIInv BY <2>2, FS_EmptySet DEF NodesIInv, RowsOfNodes, EldersFirst
  <2> QED BY <2>4, <2>5 DEF ArborIInv
<1>2. ASSUME ArborIInv, [ArborNext]_arborVars PROVE ArborIInv'
  <2>1. TreesIInv /\ NodesIInv BY <1>2 DEF ArborIInv
  <2>2. ASSUME UNCHANGED treeVars PROVE TreesIInv'
    BY <2>1, <2>2 DEF treeVars, TreesIInv, RowsOfTrees, CountIsSumOfOwners, ActiveIsCounted, RefsOf
  <2>3. ASSUME UNCHANGED nodeVars PROVE NodesIInv'
    BY <2>1, <2>3 DEF nodeVars, NodesIInv, RowsOfNodes, EldersFirst
  <2>4. CASE UNCHANGED arborVars BY <2>2, <2>3, <2>4 DEF arborVars, treeVars, nodeVars, ArborIInv
  <2>5. ASSUME NEW t \in ArborTree, NEW o \in Owner, TreeCreate(t, o) PROVE ArborIInv'
    BY <2>1, <2>5, TreeCreateTrees, TreeCreateNodes DEF ArborIInv
  <2>6. ASSUME NEW t \in ArborTree, NEW o \in Owner, NEW k \in Amount, TreeClaim(t, o, k)
        PROVE ArborIInv'
    BY <2>1, <2>3, <2>6, TreeClaimTrees DEF ArborIInv, TreeClaim
  <2>7. ASSUME NEW t \in ArborTree, NEW o \in Owner, NEW k \in Amount, TreeRelease(t, o, k)
        PROVE ArborIInv'
    BY <2>1, <2>3, <2>7, TreeReleaseTrees DEF ArborIInv, TreeRelease
  <2>8. ASSUME NEW t \in ArborTree, TreeComesDue(t) PROVE ArborIInv'
    BY <2>1, <2>3, <2>8, TreeComesDueTrees DEF ArborIInv, TreeComesDue, nodeVars
  <2>9. CASE CleanupScheduledTrees
    BY <2>1, <2>3, <2>9, CleanupTrees DEF ArborIInv, CleanupScheduledTrees, nodeVars
  <2>10. ASSUME NEW n \in ArborNode, NEW t, NEW p, NEW k, NodeCreate(n, t, p, k) PROVE ArborIInv'
    BY <2>1, <2>2, <2>10, NodeCreateNodes DEF ArborIInv, NodeCreate, treeVars
  <2>11. ASSUME NEW n \in ArborNode, ReadPosition(n) PROVE ArborIInv'
    BY <2>1, <2>2, <2>11, ReadPositionNodes DEF ArborIInv, ReadPosition, treeVars
  <2>12. ASSUME NEW n \in ArborNode, AddChild(n) PROVE ArborIInv'
    BY <2>1, <2>2, <2>12, AddChildNodes DEF ArborIInv, AddChild, treeVars
  <2>13. CASE ArborCrash BY <2>1, <2>2, <2>13, CrashNodes DEF ArborIInv, ArborCrash, treeVars
  <2> QED BY <1>2, <2>4, <2>5, <2>6, <2>7, <2>8, <2>9, <2>10, <2>11, <2>12, <2>13 DEF ArborNext
<1> QED BY <1>1, <1>2, PTL DEF ArborSpec

\* tree_claim and tree_release: for any number of owners and trees, the count of a
\* tree is the sum of what its owners hold.
THEOREM CountsAddUp == ArborSpec => []CountIsSumOfOwners
<1>1. ArborIInv => CountIsSumOfOwners BY DEF ArborIInv, TreesIInv
<1> QED BY <1>1, ArborInvariant, PTL

\* For any number of owners and trees, a tree that somebody holds is active, and one
\* that nobody holds is scheduled or archived: cleanup_scheduled_trees archives no
\* tree in use.
THEOREM TreesInUseStay == ArborSpec => []ActiveIsHeld
<1>1. ArborIInv => ActiveIsHeld BY HeldIsActive DEF ArborIInv
<1> QED BY <1>1, ArborInvariant, PTL

\* add_child_to_parent, in its two statements: for any number of nodes and calls, a
\* node is listed behind every sibling that was listed before its own row was
\* inserted.
THEOREM SiblingsKeepOrder == ArborSpec => []ChildrenInCallOrder
<1>1. ArborIInv => ChildrenInCallOrder
  BY DEF ArborIInv, NodesIInv, RowsOfNodes, EldersFirst, ChildrenInCallOrder
<1> QED BY <1>1, ArborInvariant, PTL
-----------------------------------------------------------------------------
(***************************************************************************)
(* Trees: paths are defined by recursion on the parent. A forest has a     *)
(* rank that grows from parent to child, and what holds of a node when it  *)
(* holds of its parent holds of every node.                                *)
(***************************************************************************)
Ranked(ns) ==
    \E b \in Nat : \E r \in [DOMAIN ns -> 0 .. b] : \A n \in DOMAIN ns :
        ns[n].parent \in DOMAIN ns => r[ns[n].parent] < r[n]

\* The function that Path is defined by, on the nodes D.
Walk(ns, D, f) ==
    f = [m \in D |-> IF ns[m].parent \in DOMAIN ns THEN Append(f[ns[m].parent], m) ELSE <<m>>]

\* In a forest there is such a function: one rank after the other.
LEMMA WalkExists ==
  ASSUME NEW ns, Ranked(ns)
  PROVE  \E f : Walk(ns, DOMAIN ns, f)
<1>0. PICK b \in Nat : \E r \in [DOMAIN ns -> 0 .. b] :
         \A n \in DOMAIN ns : ns[n].parent \in DOMAIN ns => r[ns[n].parent] < r[n]
  BY DEF Ranked
<1>1. PICK r \in [DOMAIN ns -> 0 .. b] :
         \A n \in DOMAIN ns : ns[n].parent \in DOMAIN ns => r[ns[n].parent] < r[n]
  BY <1>0
<1> DEFINE Low(k) == {m \in DOMAIN ns : r[m] < k}
           T == {k \in Nat : \E f : Walk(ns, Low(k), f)}
<1>2. \A m \in DOMAIN ns : r[m] \in Nat /\ r[m] < b + 1 OBVIOUS
<1>3. 0 \in T
  <2>1. Low(0) = {} BY <1>2
  <2>2. Walk(ns, {}, [m \in {} |-> <<>>]) BY DEF Walk
  <2> QED BY <2>1, <2>2
<1>4. ASSUME NEW k \in T PROVE k + 1 \in T
  <2>1. k \in Nat /\ k + 1 \in Nat OBVIOUS
  <2>2. PICK f : Walk(ns, Low(k), f) OBVIOUS
  <2> DEFINE h == [m \in Low(k + 1) |->
                     IF ns[m].parent \in DOMAIN ns THEN Append(f[ns[m].parent], m) ELSE <<m>>]
  <2>3. \A m \in Low(k) : m \in Low(k + 1) /\ h[m] = f[m]
    <3>1. \A m \in Low(k) : m \in Low(k + 1) BY <1>2, <2>1
    <3> QED BY <3>1, <2>2 DEF Walk
  <2>4. \A m \in Low(k + 1) : ns[m].parent \in DOMAIN ns => ns[m].parent \in Low(k)
    BY <1>1, <1>2, <2>1
  <2>5. Walk(ns, Low(k + 1), h)
    <3> DEFINE g == [m \in Low(k + 1) |->
                     IF ns[m].parent \in DOMAIN ns THEN Append(h[ns[m].parent], m) ELSE <<m>>]
    <3>1. \A m \in Low(k + 1) : h[m] = g[m] BY <2>3, <2>4
    <3>2. h = g BY <3>1
    <3> QED BY <3>2 DEF Walk
  <2> QED BY <2>1, <2>5
<1>5. T = Nat
  <2> HIDE DEF T
  <2>1. T \in SUBSET Nat BY DEF T
  <2> QED BY <2>1, <1>3, <1>4, InductionOnNat
<1>6. Low(b + 1) = DOMAIN ns BY <1>2
<1>7. b + 1 \in T
  <2> HIDE DEF T
  <2> QED BY <1>5
<1> QED BY <1>6, <1>7

\* The path of a node is the path of its parent and the node.
LEMMA PathUnfolds ==
  ASSUME NEW ns, Ranked(ns), NEW n \in DOMAIN ns
  PROVE  Path(ns, n) = IF ns[n].parent \in DOMAIN ns THEN Append(Path(ns, ns[n].parent), n) ELSE <<n>>
<1> DEFINE f == CHOOSE h : Walk(ns, DOMAIN ns, h)
<1>1. Walk(ns, DOMAIN ns, f) BY WalkExists
<1>2. \A m : Path(ns, m) = f[m] BY DEF Path, Walk
<1>3. f[n] = IF ns[n].parent \in DOMAIN ns THEN Append(f[ns[n].parent], n) ELSE <<n>>
  <2> HIDE DEF f
  <2> QED BY <1>1 DEF Walk
<1> QED BY <1>2, <1>3

\* What holds of a node when it holds of its parent holds of every node.
LEMMA TreeInduction ==
  ASSUME NEW ns, Ranked(ns), NEW F \in SUBSET DOMAIN ns,
         \A m \in DOMAIN ns : (ns[m].parent \in DOMAIN ns => ns[m].parent \in F) => m \in F
  PROVE  F = DOMAIN ns
<1>0. PICK b \in Nat : \E r \in [DOMAIN ns -> 0 .. b] :
         \A n \in DOMAIN ns : ns[n].parent \in DOMAIN ns => r[ns[n].parent] < r[n]
  BY DEF Ranked
<1>1. PICK r \in [DOMAIN ns -> 0 .. b] :
         \A n \in DOMAIN ns : ns[n].parent \in DOMAIN ns => r[ns[n].parent] < r[n]
  BY <1>0
<1> DEFINE R == {r[m] : m \in DOMAIN ns \ F}
<1>2. CASE DOMAIN ns \ F # {}
  <2>1. R \in SUBSET Nat /\ R # {} BY <1>2
  <2>2. PICK k \in R : \A l \in R : k <= l BY <2>1, NatLeast
  <2>3. PICK m \in DOMAIN ns \ F : k = r[m] BY <2>2
  <2>4. ns[m].parent \in DOMAIN ns \ F BY <2>3
  <2>5. r[ns[m].parent] \in R BY <2>4
  <2>6. r[ns[m].parent] < r[m] /\ r[m] \in Nat /\ r[ns[m].parent] \in Nat BY <2>3, <2>4, <1>1
  <2> HIDE DEF R
  <2> QED BY <2>2, <2>3, <2>5, <2>6
<1> QED BY <1>2

\* A forest in which every parent is a node or none.
Forest(ns) == Ranked(ns) /\ NoNode \notin DOMAIN ns
              /\ \A n \in DOMAIN ns : ns[n].parent \in DOMAIN ns \cup {NoNode}

LEMMA AddIs ==
  ASSUME NEW ns, NEW n, NEW t, NEW p, NEW k
  PROVE  /\ DOMAIN Add(ns, n, t, p, k) = DOMAIN ns \cup {n}
         /\ Add(ns, n, t, p, k)[n] = [tree |-> t, parent |-> p, kind |-> k]
         /\ \A m \in DOMAIN ns \ {n} : Add(ns, n, t, p, k)[m] = ns[m]
  BY DEF Add

\* A new node below one that is there, or a new root: it is a leaf, and what was
\* there keeps its path.
LEMMA AddGrows ==
  ASSUME NEW ns, Forest(ns), NEW n, n \notin DOMAIN ns, n # NoNode, NEW t,
         NEW p \in DOMAIN ns \cup {NoNode}, NEW k
  PROVE  /\ Forest(Add(ns, n, t, p, k))
         /\ \A m \in DOMAIN ns : Path(Add(ns, n, t, p, k), m) = Path(ns, m)
         /\ Path(Add(ns, n, t, p, k), n) = IF p = NoNode THEN <<n>> ELSE Append(Path(ns, p), n)
<1>1. PICK ms : ms = Add(ns, n, t, p, k) OBVIOUS
<1>2. /\ DOMAIN ms = DOMAIN ns \cup {n} /\ ms[n].parent = p
      /\ \A m \in DOMAIN ns : ms[m] = ns[m]
  BY <1>1 DEF Add
<1>3. \A m \in DOMAIN ns : m # n /\ ns[m].parent \in DOMAIN ns \cup {NoNode} /\ ns[m].parent # n
  BY DEF Forest
<1>4. Ranked(ms)
  <2>0. PICK b \in Nat : \E r \in [DOMAIN ns -> 0 .. b] :
           \A m \in DOMAIN ns : ns[m].parent \in DOMAIN ns => r[ns[m].parent] < r[m]
    BY DEF Forest, Ranked
  <2>1. PICK r \in [DOMAIN ns -> 0 .. b] :
           \A m \in DOMAIN ns : ns[m].parent \in DOMAIN ns => r[ns[m].parent] < r[m]
    BY <2>0
  <2> DEFINE q == [m \in DOMAIN ms |-> IF m = n THEN b + 1 ELSE r[m]]
  <2>2. \A m \in DOMAIN ns : q[m] = r[m] /\ r[m] \in 0 .. b BY <1>2
  <2>3. q[n] = b + 1 BY <1>2
  <2>4. q \in [DOMAIN ms -> 0 .. (b + 1)] BY <1>2
  <2>5. ASSUME NEW m \in DOMAIN ms, ms[m].parent \in DOMAIN ms PROVE q[ms[m].parent] < q[m]
    <3> HIDE DEF q
    <3>1. CASE m = n
      <4>1. p \in DOMAIN ns BY <1>2, <2>5, <3>1 DEF Forest
      <4> QED BY <4>1, <2>2, <2>3, <3>1, <1>2
    <3>2. CASE m # n
      <4>1. m \in DOMAIN ns /\ ms[m].parent = ns[m].parent /\ ns[m].parent \in DOMAIN ns
        BY <1>2, <1>3, <2>5, <3>2
      <4> QED BY <4>1, <2>1, <2>2
    <3> QED BY <3>1, <3>2
  <2>6. b + 1 \in Nat OBVIOUS
  <2> HIDE DEF q
  <2> QED BY <2>4, <2>5, <2>6 DEF Ranked
<1>5. Forest(ms) BY <1>2, <1>3, <1>4 DEF Forest
<1>6. \A m \in DOMAIN ns : Path(ms, m) = Path(ns, m)
  <2> DEFINE F == {m \in DOMAIN ns : Path(ms, m) = Path(ns, m)}
  <2>1. ASSUME NEW m \in DOMAIN ns, ns[m].parent \in DOMAIN ns => ns[m].parent \in F
        PROVE  m \in F
    <3>1. Path(ns, m) = IF ns[m].parent \in DOMAIN ns THEN Append(Path(ns, ns[m].parent), m) ELSE <<m>>
      BY PathUnfolds DEF Forest
    <3>2. Path(ms, m) = IF ms[m].parent \in DOMAIN ms THEN Append(Path(ms, ms[m].parent), m) ELSE <<m>>
      BY PathUnfolds, <1>2, <1>4
    <3>3. ms[m].parent = ns[m].parent /\ (ns[m].parent \in DOMAIN ms <=> ns[m].parent \in DOMAIN ns)
      BY <1>2, <1>3
    <3> QED BY <2>1, <3>1, <3>2, <3>3
  <2>2. F = DOMAIN ns
    <3> HIDE DEF F
    <3>1. F \in SUBSET DOMAIN ns BY DEF F
    <3> QED BY <2>1, <3>1, TreeInduction DEF Forest
  <2> QED BY <2>2
<1>7. Path(ms, n) = IF p = NoNode THEN <<n>> ELSE Append(Path(ns, p), n)
  <2>1. Path(ms, n) = IF p \in DOMAIN ms THEN Append(Path(ms, p), n) ELSE <<n>>
    BY PathUnfolds, <1>2, <1>4
  <2>2. CASE p = NoNode BY <2>1, <2>2, <1>2 DEF Forest
  <2>3. CASE p # NoNode BY <2>1, <2>3, <1>2, <1>6
  <2> QED BY <2>2, <2>3
<1> QED BY <1>1, <1>5, <1>6, <1>7

\* A path is made of nodes and is not empty.
LEMMA PathTyped ==
  ASSUME NEW ns, Ranked(ns), NEW n \in DOMAIN ns
  PROVE  Path(ns, n) \in Seq(DOMAIN ns) /\ Path(ns, n) # <<>>
<1> DEFINE F == {m \in DOMAIN ns : Path(ns, m) \in Seq(DOMAIN ns) /\ Path(ns, m) # <<>>}
<1>1. ASSUME NEW m \in DOMAIN ns, ns[m].parent \in DOMAIN ns => ns[m].parent \in F PROVE m \in F
  <2>1. Path(ns, m) = IF ns[m].parent \in DOMAIN ns THEN Append(Path(ns, ns[m].parent), m) ELSE <<m>>
    BY PathUnfolds
  <2>2. CASE ns[m].parent \in DOMAIN ns
    <3>1. PICK s \in Seq(DOMAIN ns) : s = Path(ns, ns[m].parent) BY <2>2, <1>1
    <3>2. Append(s, m) \in Seq(DOMAIN ns) /\ Append(s, m) # <<>> OBVIOUS
    <3> QED BY <2>1, <2>2, <3>1, <3>2
  <2>3. CASE ns[m].parent \notin DOMAIN ns
    <3>1. <<m>> \in Seq(DOMAIN ns) /\ <<m>> # <<>> OBVIOUS
    <3> QED BY <2>1, <2>3, <3>1
  <2> QED BY <2>2, <2>3
<1>2. F = DOMAIN ns
  <2> HIDE DEF F
  <2>1. F \in SUBSET DOMAIN ns BY DEF F
  <2> QED BY <1>1, <2>1, TreeInduction
<1> QED BY <1>2

LEMMA AddForest ==
  ASSUME NEW ns, NEW n, NEW t, NEW p, NEW k, Forest(ns), n \notin DOMAIN ns, n # NoNode,
         p \in DOMAIN ns \cup {NoNode}
  PROVE  Forest(Add(ns, n, t, p, k))
  BY AddGrows

LEMMA AddKeepsPaths ==
  ASSUME NEW ns, NEW n, NEW t, NEW p, NEW k, Forest(ns), n \notin DOMAIN ns, n # NoNode,
         p \in DOMAIN ns \cup {NoNode}, NEW m \in DOMAIN ns
  PROVE  Path(Add(ns, n, t, p, k), m) = Path(ns, m)
  BY AddGrows

LEMMA AddPath ==
  ASSUME NEW ns, NEW n, NEW t, NEW p, NEW k, Forest(ns), n \notin DOMAIN ns, n # NoNode, p \in DOMAIN ns
  PROVE  Path(Add(ns, n, t, p, k), n) = Append(Path(ns, p), n)
<1>1. p # NoNode BY DEF Forest
<1> QED BY <1>1, AddGrows
-----------------------------------------------------------------------------
(***************************************************************************)
(* Cone: what a model is sent.                                             *)
(***************************************************************************)
\* The function that Spoken is defined by.
Said(path, D, f) ==
    f = [i \in D |-> IF i = 0 THEN <<>>
                     ELSE IF Len(path[i]) = 2 THEN Append(f[i - 1], path[i]) ELSE f[i - 1]]

\* It exists, for a path of any length.
LEMMA SaidExists ==
  ASSUME NEW path, NEW N \in Nat
  PROVE  \E f : Said(path, 0 .. N, f)
<1> DEFINE T == {k \in Nat : \E f : Said(path, 0 .. k, f)}
<1>1. 0 \in T
  <2>1. Said(path, 0 .. 0, [i \in 0 .. 0 |-> <<>>]) BY DEF Said
  <2> QED BY <2>1
<1>2. ASSUME NEW k \in T PROVE k + 1 \in T
  <2>1. k \in Nat /\ k + 1 \in Nat OBVIOUS
  <2>2. PICK f : Said(path, 0 .. k, f) OBVIOUS
  <2> DEFINE h == [i \in 0 .. (k + 1) |->
                     IF i = 0 THEN <<>>
                     ELSE IF Len(path[i]) = 2 THEN Append(f[i - 1], path[i]) ELSE f[i - 1]]
  <2>3. \A i \in 0 .. k : i \in 0 .. (k + 1) /\ h[i] = f[i]
    <3>1. \A i \in 0 .. k : i \in 0 .. (k + 1) BY <2>1
    <3> QED BY <3>1, <2>2 DEF Said
  <2>4. \A i \in 0 .. (k + 1) : i # 0 => i - 1 \in 0 .. k BY <2>1
  <2>5. Said(path, 0 .. (k + 1), h)
    <3> DEFINE g == [i \in 0 .. (k + 1) |->
                     IF i = 0 THEN <<>>
                     ELSE IF Len(path[i]) = 2 THEN Append(h[i - 1], path[i]) ELSE h[i - 1]]
    <3>1. \A i \in 0 .. (k + 1) : h[i] = g[i] BY <2>3, <2>4
    <3>2. h = g BY <3>1
    <3> QED BY <3>2 DEF Said
  <2> QED BY <2>1, <2>5
<1>3. T = Nat
  <2> HIDE DEF T
  <2>1. T \in SUBSET Nat BY DEF T
  <2> QED BY <2>1, <1>1, <1>2, InductionOnNat
<1>4. N \in T
  <2> HIDE DEF T
  <2> QED BY <1>3
<1> QED BY <1>4

\* Spoken is the last value of it.
LEMMA SpokenUnfolds ==
  ASSUME NEW S, NEW path \in Seq(S)
  PROVE  \E f : Said(path, 0 .. Len(path), f) /\ Spoken(path) = f[Len(path)]
<1> DEFINE f == CHOOSE h : Said(path, 0 .. Len(path), h)
<1>1. Said(path, 0 .. Len(path), f) BY SaidExists
<1>2. Spoken(path) = f[Len(path)] BY DEF Spoken, Said
<1> QED BY <1>1, <1>2

\* A node at the end of the branch is a message more, unless it is a root.
LEMMA SpokenGrows ==
  ASSUME NEW S, NEW path \in Seq(S), NEW n \in S
  PROVE  Spoken(Append(path, n)) = IF Len(n) = 2 THEN Append(Spoken(path), n) ELSE Spoken(path)
<1>1. PICK long : long = Append(path, n) OBVIOUS
<1>2. PICK N \in Nat : N = Len(path) OBVIOUS
<1>3. /\ long \in Seq(S) /\ Len(long) = N + 1 /\ long[N + 1] = n
      /\ \A i \in 1 .. N : long[i] = path[i]
  BY <1>1, <1>2
<1>4. PICK f : Said(path, 0 .. N, f) /\ Spoken(path) = f[N] BY <1>2, SpokenUnfolds
<1>5. PICK g : Said(long, 0 .. (N + 1), g) /\ Spoken(long) = g[N + 1] BY <1>3, SpokenUnfolds
<1> DEFINE T == {k \in Nat : k <= N => g[k] = f[k]}
<1>6. 0 \in T BY <1>4, <1>5 DEF Said
<1>7. ASSUME NEW k \in T PROVE k + 1 \in T
  <2>1. SUFFICES ASSUME k + 1 <= N PROVE g[k + 1] = f[k + 1] OBVIOUS
  <2>2. k \in Nat /\ k + 1 \in 0 .. N /\ k + 1 \in 0 .. (N + 1) /\ k + 1 # 0 /\ (k + 1) - 1 = k
        /\ k + 1 \in 1 .. N
    BY <2>1
  <2>3. g[k] = f[k] BY <2>1
  <2>4. f[k + 1] = IF Len(path[k + 1]) = 2 THEN Append(f[k], path[k + 1]) ELSE f[k]
    BY <1>4, <2>2 DEF Said
  <2>5. g[k + 1] = IF Len(long[k + 1]) = 2 THEN Append(g[k], long[k + 1]) ELSE g[k]
    BY <1>5, <2>2 DEF Said
  <2> QED BY <1>3, <2>2, <2>3, <2>4, <2>5
<1>8. T = Nat
  <2> HIDE DEF T
  <2>1. T \in SUBSET Nat BY DEF T
  <2> QED BY <2>1, <1>6, <1>7, InductionOnNat
<1>9. g[N] = f[N] BY <1>8
<1>10. g[N + 1] = IF Len(n) = 2 THEN Append(g[N], n) ELSE g[N]
  <2>1. N + 1 \in 0 .. (N + 1) /\ N + 1 # 0 /\ (N + 1) - 1 = N OBVIOUS
  <2> QED BY <2>1, <1>3, <1>5 DEF Said
<1> QED BY <1>1, <1>4, <1>5, <1>9, <1>10

LEMMA SpokenNothing == Spoken(<<>>) = <<>>
<1>1. <<>> \in Seq({}) /\ Len(<<>>) = 0 OBVIOUS
<1>2. PICK f : Said(<<>>, 0 .. 0, f) /\ Spoken(<<>>) = f[0] BY <1>1, SpokenUnfolds
<1> QED BY <1>2 DEF Said

\* The inductive invariant: the nodes are a forest, and every turn is on its track.
ConeIInv == Forest(coneNodes) /\ TurnsOnTrack

\* A node that is not its question or its answer does not disturb a turn.
LEMMA StaysOnTrack ==
  ASSUME NEW ns, NEW ms, NEW t, NEW u, NEW n, OnTrack(ns, t, u),
         DOMAIN ms = DOMAIN ns \cup {n}, n \notin {Question(t), Reply(t)},
         \A m \in DOMAIN ns : Path(ms, m) = Path(ns, m)
  PROVE  OnTrack(ms, t, u)
  BY DEF OnTrack

\* Roots, questions and answers have ids of their own.
LEMMA NodeIds ==
  /\ \A s \in ConeId : Trunk(s) \in ConeNode /\ Len(Trunk(s)) = 1
  /\ \A t \in Turn : /\ Question(t) \in ConeNode /\ Len(Question(t)) = 2
                     /\ Reply(t) \in ConeNode /\ Len(Reply(t)) = 2
  /\ \A s, t : Trunk(s) # Question(t) /\ Trunk(s) # Reply(t)
  /\ \A t, v : Question(t) # Reply(v) /\ (t # v => Question(t) # Question(v) /\ Reply(t) # Reply(v))
  /\ NoNode \notin ConeNode
<1>1. NoNode \notin ConeNode BY ConeAssumption DEF ConeNode, Trunk
<1>2. \A s \in ConeId : Trunk(s) \in ConeNode /\ Len(Trunk(s)) = 1 BY DEF ConeNode, Trunk
<1>3. \A t \in Turn : /\ Question(t) \in ConeNode /\ Len(Question(t)) = 2
                      /\ Reply(t) \in ConeNode /\ Len(Reply(t)) = 2
  BY DEF ConeNode, Question, Reply
<1>4. \A s, t : Trunk(s) # Question(t) /\ Trunk(s) # Reply(t)
  <2>1. SUFFICES ASSUME NEW s, NEW t PROVE Trunk(s) # Question(t) /\ Trunk(s) # Reply(t) OBVIOUS
  <2>2. Len(<<s>>) = 1 /\ Len(<<t, 0>>) = 2 /\ Len(<<t, 1>>) = 2 OBVIOUS
  <2> QED BY <2>2 DEF Trunk, Question, Reply
<1>5. \A t, v : Question(t) # Reply(v) /\ (t # v => Question(t) # Question(v) /\ Reply(t) # Reply(v))
  BY DEF Question, Reply
<1> QED BY <1>1, <1>2, <1>3, <1>4, <1>5

\* A step that adds no node and takes one turn from u to v.
LEMMA TurnMoves ==
  ASSUME ConeIInv, NEW t \in Turn, NEW v, coneNodes' = coneNodes,
         turns' = [turns EXCEPT ![t] = v], OnTrack(coneNodes, t, v)
  PROVE  ConeIInv'
  BY DEF ConeIInv, TurnsOnTrack

\* The same with one node added, which is the turn's own.
LEMMA TurnGrows ==
  ASSUME ConeIInv, NEW t \in Turn, NEW v, NEW n,
         n \in {Question(t), Reply(t)}, n \notin DOMAIN coneNodes,
         \E e, k : \E p \in DOMAIN coneNodes : coneNodes' = Add(coneNodes, n, e, p, k),
         turns' = [turns EXCEPT ![t] = v], OnTrack(coneNodes', t, v)
  PROVE  ConeIInv'
<1>1. n \in ConeNode /\ n # NoNode BY NodeIds
<1>2. /\ Forest(coneNodes') /\ \A m \in DOMAIN coneNodes : Path(coneNodes', m) = Path(coneNodes, m)
      /\ DOMAIN coneNodes' = DOMAIN coneNodes \cup {n}
  <2>1. PICK e, k, p : p \in DOMAIN coneNodes /\ coneNodes' = Add(coneNodes, n, e, p, k) OBVIOUS
  <2>2. Forest(Add(coneNodes, n, e, p, k)) BY <1>1, <2>1, AddForest DEF ConeIInv
  <2>3. \A m \in DOMAIN coneNodes : Path(Add(coneNodes, n, e, p, k), m) = Path(coneNodes, m)
    BY <1>1, <2>1, AddKeepsPaths DEF ConeIInv
  <2> QED BY <2>1, <2>2, <2>3 DEF Add
<1>4. ASSUME NEW w \in Turn PROVE OnTrack(coneNodes', w, turns'[w])
  <2>1. CASE w = t BY <2>1 DEF ConeIInv, TurnsOnTrack
  <2>2. CASE w # t
    <3>1. turns'[w] = turns[w] /\ OnTrack(coneNodes, w, turns[w]) BY <2>2 DEF ConeIInv, TurnsOnTrack
    <3>2. n \notin {Question(w), Reply(w)} BY <2>2, NodeIds
    <3> QED BY <1>2, <3>1, <3>2, StaysOnTrack
  <2> QED BY <2>1, <2>2
<1> QED BY <1>1, <1>2, <1>4 DEF ConeIInv, TurnsOnTrack

LEMMA ConeCreateKeeps ==
  ASSUME ConeIInv, NEW s \in ConeId, NEW n, ConeCreate(s, n)
  PROVE  ConeIInv'
<1>1. Trunk(s) \notin DOMAIN coneNodes /\ turns' = turns
      /\ coneNodes' = Add(coneNodes, Trunk(s), s, NoNode, "root")
  BY DEF ConeCreate
<1>2. Trunk(s) \in ConeNode /\ Trunk(s) # NoNode BY NodeIds
<1>3. Forest(coneNodes') /\ \A m \in DOMAIN coneNodes : Path(coneNodes', m) = Path(coneNodes, m)
  <2>1. PICK x, p, k : x = Trunk(s) /\ p = NoNode /\ k = "root" OBVIOUS
  <2>2. x \notin DOMAIN coneNodes /\ x # NoNode /\ p \in DOMAIN coneNodes \cup {NoNode} BY <1>1, <1>2, <2>1
  <2>3. Forest(Add(coneNodes, x, s, p, k)) BY <2>2, AddForest DEF ConeIInv
  <2>4. \A m \in DOMAIN coneNodes : Path(Add(coneNodes, x, s, p, k), m) = Path(coneNodes, m)
    BY <2>2, AddKeepsPaths DEF ConeIInv
  <2> QED BY <1>1, <2>1, <2>3, <2>4
<1>4. DOMAIN coneNodes' = DOMAIN coneNodes \cup {Trunk(s)} BY <1>1 DEF Add
<1>5. \A w \in Turn : OnTrack(coneNodes', w, turns[w])
  BY <1>3, <1>4, NodeIds, StaysOnTrack DEF ConeIInv, TurnsOnTrack
<1> QED BY <1>1, <1>2, <1>3, <1>4, <1>5 DEF ConeIInv, TurnsOnTrack

\* Steps of a turn that write no node: what they make of its variables.
LEMMA PcMoves ==
  ASSUME NEW ns, NEW t, NEW u, OnTrack(ns, t, u), u.pc # "off",
         NEW pc \in {"failed", "gone", "done"}
  PROVE  OnTrack(ns, t, [u EXCEPT !.pc = pc])
<1>1. u = [pc |-> u.pc, quick |-> u.quick, cone |-> u.cone, tree |-> u.tree, head |-> u.head, sent |-> u.sent]
  BY DEF OnTrack, Complete
<1>2. [u EXCEPT !.pc = pc] = [pc |-> pc, quick |-> u.quick, cone |-> u.cone, tree |-> u.tree,
                              head |-> u.head, sent |-> u.sent]
  BY <1>1
<1> QED BY <1>2 DEF OnTrack, Complete

LEMMA BeginKeeps ==
  ASSUME ConeIInv, NEW t \in Turn, NEW s, NEW quick, Begin(t, s, quick)
  PROVE  ConeIInv'
<1> DEFINE v == [pc |-> "read", quick |-> quick, cone |-> s, tree |-> 0, head |-> NoNode, sent |-> <<>>]
<1>1. coneNodes' = coneNodes /\ turns' = [turns EXCEPT ![t] = v] /\ turns[t].pc = "off"
  BY DEF Begin, At
<1>2. OnTrack(coneNodes, t, turns[t]) BY DEF ConeIInv, TurnsOnTrack
<1>3. OnTrack(coneNodes, t, v) BY <1>1, <1>2 DEF OnTrack, Complete
<1> HIDE DEF v
<1> QED BY <1>1, <1>3, TurnMoves

\* Any step that only changes the control point of a turn.
LEMMA GotoKeeps ==
  ASSUME ConeIInv, NEW t \in Turn, NEW pc, turns[t].pc # "off", coneNodes' = coneNodes,
         turns' = [turns EXCEPT ![t].pc = pc],
         \/ pc \in {"failed", "gone", "done"}
         \/ turns[t].pc = "ask" /\ pc = "question"
         \/ turns[t].pc = "answer" /\ pc = "reply"
  PROVE  ConeIInv'
<1>1. PICK u : u = turns[t] OBVIOUS
<1>2. OnTrack(coneNodes, t, u) BY <1>1 DEF ConeIInv, TurnsOnTrack
<1>3. u = [pc |-> u.pc, quick |-> u.quick, cone |-> u.cone, tree |-> u.tree, head |-> u.head, sent |-> u.sent]
  BY <1>1, <1>2 DEF OnTrack, Complete
<1> DEFINE v == [pc |-> pc, quick |-> u.quick, cone |-> u.cone, tree |-> u.tree,
                 head |-> u.head, sent |-> u.sent]
<1>4. [u EXCEPT !.pc = pc] = v BY <1>3
<1>5. turns' = [turns EXCEPT ![t] = v] BY <1>1, <1>4
<1>6. OnTrack(coneNodes, t, v) BY <1>1, <1>2 DEF OnTrack, Complete
<1> HIDE DEF v
<1> QED BY <1>5, <1>6, TurnMoves

LEMMA ReadConeKeeps ==
  ASSUME ConeIInv, NEW t \in Turn, ReadCone(t)
  PROVE  ConeIInv'
<1>1. PICK u : u = turns[t] OBVIOUS
<1>2. OnTrack(coneNodes, t, u) /\ u.pc = "read" /\ coneNodes' = coneNodes
  BY <1>1 DEF ConeIInv, TurnsOnTrack, ReadCone, At
<1>3. u = [pc |-> u.pc, quick |-> u.quick, cone |-> u.cone, tree |-> u.tree, head |-> u.head, sent |-> u.sent]
  BY <1>2 DEF OnTrack, Complete
<1>4. CASE u.cone \notin DOMAIN cones
  <2>1. turns' = [turns EXCEPT ![t].pc = "failed"] BY <1>1, <1>4 DEF ReadCone
  <2> QED BY <1>1, <1>2, <2>1, GotoKeeps
<1>5. CASE u.cone \in DOMAIN cones
  <2>1. PICK c : c = cones[u.cone] OBVIOUS
  <2>2. turns' = [turns EXCEPT ![t].pc = "context", ![t].tree = c.tree, ![t].head = c.head]
    BY <1>1, <1>5, <2>1 DEF ReadCone
  <2> DEFINE v == [pc |-> "context", quick |-> u.quick, cone |-> u.cone, tree |-> c.tree,
                   head |-> c.head, sent |-> u.sent]
  <2>3. [u EXCEPT !.pc = "context", !.tree = c.tree, !.head = c.head] = v
    <3>1. PICK w : w = [pc |-> "context", quick |-> u.quick, cone |-> u.cone, tree |-> u.tree,
                        head |-> u.head, sent |-> u.sent]
      OBVIOUS
    <3>2. PICK x : x = [pc |-> "context", quick |-> u.quick, cone |-> u.cone, tree |-> c.tree,
                        head |-> u.head, sent |-> u.sent]
      OBVIOUS
    <3>3. [u EXCEPT !.pc = "context"] = w BY <1>3, <3>1
    <3>4. [w EXCEPT !.tree = c.tree] = x BY <3>1, <3>2
    <3>5. [x EXCEPT !.head = c.head] = v BY <3>2
    <3>6. [u EXCEPT !.pc = "context", !.tree = c.tree, !.head = c.head]
            = [[[u EXCEPT !.pc = "context"] EXCEPT !.tree = c.tree] EXCEPT !.head = c.head]
      OBVIOUS
    <3> QED BY <3>3, <3>4, <3>5, <3>6
  <2>4. turns' = [turns EXCEPT ![t] = v]
    <3>1. turns' = [turns EXCEPT ![t] = [u EXCEPT !.pc = "context", !.tree = c.tree, !.head = c.head]]
      BY <1>1, <2>2 DEF ConeIInv, TurnsOnTrack
    <3> QED BY <2>3, <3>1
  <2>5. OnTrack(coneNodes, t, v) BY <1>2 DEF OnTrack, Complete
  <2> HIDE DEF v
  <2> QED BY <1>2, <2>4, <2>5, TurnMoves
<1> QED BY <1>4, <1>5

LEMMA ReadContextKeeps ==
  ASSUME ConeIInv, NEW t \in Turn, ReadContext(t)
  PROVE  ConeIInv'
<1>1. PICK u : u = turns[t] OBVIOUS
<1>2. OnTrack(coneNodes, t, u) /\ u.pc = "context" /\ coneNodes' = coneNodes
  BY <1>1 DEF ConeIInv, TurnsOnTrack, ReadContext, At
<1>3. u = [pc |-> u.pc, quick |-> u.quick, cone |-> u.cone, tree |-> u.tree, head |-> u.head, sent |-> u.sent]
  BY <1>2 DEF OnTrack, Complete
<1>4. \/ turns' = [turns EXCEPT ![t].pc = "failed"]
      \/ /\ u.head \in DOMAIN coneNodes
         /\ turns' = [turns EXCEPT ![t].pc = "ask", ![t].sent = Messages(t)]
  BY <1>1 DEF ReadContext, Readable
<1>5. CASE turns' = [turns EXCEPT ![t].pc = "failed"] BY <1>1, <1>2, <1>5, GotoKeeps
<1>6. CASE /\ u.head \in DOMAIN coneNodes
           /\ turns' = [turns EXCEPT ![t].pc = "ask", ![t].sent = Messages(t)]
  <2>1. PICK m : m = Messages(t) OBVIOUS
  <2>2. m = Spoken(Path(coneNodes, u.head)) BY <1>1, <2>1 DEF Messages
  <2> DEFINE v == [pc |-> "ask", quick |-> u.quick, cone |-> u.cone, tree |-> u.tree,
                   head |-> u.head, sent |-> m]
  <2>3. [u EXCEPT !.pc = "ask", !.sent = m] = v
    <3>1. PICK w : w = [pc |-> "ask", quick |-> u.quick, cone |-> u.cone, tree |-> u.tree,
                        head |-> u.head, sent |-> u.sent]
      OBVIOUS
    <3>2. [u EXCEPT !.pc = "ask"] = w BY <1>3, <3>1
    <3>3. [w EXCEPT !.sent = m] = v BY <3>1
    <3>4. [u EXCEPT !.pc = "ask", !.sent = m] = [[u EXCEPT !.pc = "ask"] EXCEPT !.sent = m] OBVIOUS
    <3> QED BY <3>2, <3>3, <3>4
  <2>4. turns' = [turns EXCEPT ![t] = v]
    <3>1. turns' = [turns EXCEPT ![t] = [u EXCEPT !.pc = "ask", !.sent = m]]
      BY <1>1, <1>6, <2>1 DEF ConeIInv, TurnsOnTrack
    <3> QED BY <2>3, <3>1
  <2>5. OnTrack(coneNodes, t, v) BY <1>2, <1>6, <2>2 DEF OnTrack, Complete
  <2> HIDE DEF v
  <2> QED BY <1>2, <2>4, <2>5, TurnMoves
<1> QED BY <1>4, <1>5, <1>6

LEMMA AddQuestionKeeps ==
  ASSUME ConeIInv, NEW t \in Turn, AddQuestion(t)
  PROVE  ConeIInv'
<1>1. PICK u : u = turns[t] OBVIOUS
<1>2. PICK k : k = Lasting(t, "user") OBVIOUS
<1>3. OnTrack(coneNodes, t, u) /\ u.pc = "question" BY <1>1 DEF ConeIInv, TurnsOnTrack, AddQuestion, At
<1>4. /\ u = [pc |-> u.pc, quick |-> u.quick, cone |-> u.cone, tree |-> u.tree,
              head |-> u.head, sent |-> u.sent]
      /\ u.head \in DOMAIN coneNodes /\ Spoken(Path(coneNodes, u.head)) = u.sent
      /\ Question(t) \notin DOMAIN coneNodes /\ Reply(t) \notin DOMAIN coneNodes
  BY <1>3 DEF OnTrack, Complete
<1> DEFINE v == [pc |-> "answer", quick |-> u.quick, cone |-> u.cone, tree |-> u.tree,
                 head |-> u.head, sent |-> u.sent]
<1>5. turns' = [turns EXCEPT ![t] = v]
  <2>1. [u EXCEPT !.pc = "answer"] = v BY <1>4
  <2>2. turns' = [turns EXCEPT ![t] = [u EXCEPT !.pc = "answer"]] BY <1>1 DEF AddQuestion, Step
  <2> QED BY <2>1, <2>2
<1>6. coneNodes' = Add(coneNodes, Question(t), u.tree, u.head, k) BY <1>1, <1>2 DEF AddQuestion
<1>7. /\ Path(coneNodes', Question(t)) = Append(Path(coneNodes, u.head), Question(t))
      /\ DOMAIN coneNodes' = DOMAIN coneNodes \cup {Question(t)}
  <2>1. Question(t) # NoNode /\ u.head # NoNode BY <1>4, NodeIds DEF ConeIInv, Forest
  <2>2. u.head \in DOMAIN coneNodes \cup {NoNode} BY <1>4
  <2>3. PICK n, e, p : n = Question(t) /\ e = u.tree /\ p = u.head OBVIOUS
  <2>4. Path(Add(coneNodes, n, e, p, k), n) = Append(Path(coneNodes, p), n)
    <3>1. n \notin DOMAIN coneNodes /\ n # NoNode /\ p \in DOMAIN coneNodes BY <1>4, <2>1, <2>3
    <3> QED BY <3>1, AddPath DEF ConeIInv
  <2> QED BY <1>6, <2>1, <2>3, <2>4 DEF Add
<1>8. Spoken(Path(coneNodes', Question(t))) = Append(u.sent, Question(t))
  <2>1. Path(coneNodes, u.head) \in Seq(DOMAIN coneNodes) BY <1>4, PathTyped DEF ConeIInv, Forest
  <2>2. Path(coneNodes, u.head) \in Seq(ConeNode)
    BY <2>1 DEF ConeIInv, TurnsOnTrack
  <2>3. Question(t) \in ConeNode /\ Len(Question(t)) = 2 BY NodeIds
  <2> QED BY <1>4, <1>7, <2>2, <2>3, SpokenGrows
<1>9. OnTrack(coneNodes', t, v)
  <2>1. Reply(t) \notin DOMAIN coneNodes' BY <1>4, <1>7, NodeIds
  <2> QED BY <1>7, <1>8, <2>1 DEF OnTrack, Complete
<1>10. PICK n, e, p : n = Question(t) /\ e = u.tree /\ p = u.head OBVIOUS
<1>11. n \in {Question(t), Reply(t)} /\ n \notin DOMAIN coneNodes /\ p \in DOMAIN coneNodes BY <1>4, <1>10
<1>12. \E f, l : \E q \in DOMAIN coneNodes : coneNodes' = Add(coneNodes, n, f, q, l) BY <1>6, <1>10, <1>11
<1> HIDE DEF v
<1> QED BY <1>5, <1>9, <1>11, <1>12, TurnGrows

LEMMA AddReplyKeeps ==
  ASSUME ConeIInv, NEW t \in Turn, AddReply(t)
  PROVE  ConeIInv'
<1>1. PICK u : u = turns[t] OBVIOUS
<1>2. PICK k : k = Lasting(t, "assistant") OBVIOUS
<1>3. OnTrack(coneNodes, t, u) /\ u.pc = "reply" BY <1>1 DEF ConeIInv, TurnsOnTrack, AddReply, At
<1>4. /\ u = [pc |-> u.pc, quick |-> u.quick, cone |-> u.cone, tree |-> u.tree,
              head |-> u.head, sent |-> u.sent]
      /\ Question(t) \in DOMAIN coneNodes /\ Reply(t) \notin DOMAIN coneNodes
      /\ Spoken(Path(coneNodes, Question(t))) = Append(u.sent, Question(t))
  BY <1>3 DEF OnTrack, Complete
<1> DEFINE v == [pc |-> "advance", quick |-> u.quick, cone |-> u.cone, tree |-> u.tree,
                 head |-> u.head, sent |-> u.sent]
<1>5. turns' = [turns EXCEPT ![t] = v]
  <2>1. [u EXCEPT !.pc = "advance"] = v BY <1>4
  <2>2. turns' = [turns EXCEPT ![t] = [u EXCEPT !.pc = "advance"]] BY <1>1 DEF AddReply, Step
  <2> QED BY <2>1, <2>2
<1>6. coneNodes' = Add(coneNodes, Reply(t), u.tree, Question(t), k) BY <1>1, <1>2 DEF AddReply
<1>7. /\ Path(coneNodes', Question(t)) = Path(coneNodes, Question(t))
      /\ DOMAIN coneNodes' = DOMAIN coneNodes \cup {Reply(t)}
  <2>1. Reply(t) # NoNode BY NodeIds
  <2>2. Question(t) \in DOMAIN coneNodes \cup {NoNode} BY <1>4
  <2>3. PICK n, e, p : n = Reply(t) /\ e = u.tree /\ p = Question(t) OBVIOUS
  <2>4. \A m \in DOMAIN coneNodes : Path(Add(coneNodes, n, e, p, k), m) = Path(coneNodes, m)
    <3>1. n \notin DOMAIN coneNodes /\ n # NoNode /\ p \in DOMAIN coneNodes \cup {NoNode}
      BY <1>4, <2>1, <2>2, <2>3
    <3> QED BY <3>1, AddGrows DEF ConeIInv
  <2> QED BY <1>4, <1>6, <2>3, <2>4 DEF Add
<1>9. OnTrack(coneNodes', t, v)  BY <1>4, <1>7 DEF OnTrack, Complete
<1>10. PICK n, e, p : n = Reply(t) /\ e = u.tree /\ p = Question(t) OBVIOUS
<1>11. n \in {Question(t), Reply(t)} /\ n \notin DOMAIN coneNodes /\ p \in DOMAIN coneNodes BY <1>4, <1>10
<1>12. \E f, l : \E q \in DOMAIN coneNodes : coneNodes' = Add(coneNodes, n, f, q, l) BY <1>6, <1>10, <1>11
<1> HIDE DEF v
<1> QED BY <1>5, <1>9, <1>11, <1>12, TurnGrows

LEMMA ConeInvariant == ConeSpec => []ConeIInv
<1>1. ConeInit => ConeIInv
  <2>1. SUFFICES ASSUME ConeInit PROVE ConeIInv OBVIOUS
  <2>2. DOMAIN coneNodes = {} /\ DOMAIN turns = Turn /\ \A t \in Turn : turns[t].pc = "off"
    <3>1. DOMAIN <<>> = {} OBVIOUS
    <3> QED BY <2>1, <3>1 DEF ConeInit
  <2>3. Ranked(coneNodes)
    <3>1. [n \in {} |-> 0] \in [{} -> 0 .. 0] OBVIOUS
    <3> QED BY <2>2, <3>1 DEF Ranked
  <2> QED BY <2>2, <2>3 DEF ConeIInv, Forest, TurnsOnTrack, OnTrack
<1>2. ASSUME ConeIInv, [ConeNext]_coneVars PROVE ConeIInv'
  <2>1. ASSUME coneNodes' = coneNodes, turns' = turns PROVE ConeIInv'
    BY <1>2, <2>1 DEF ConeIInv, TurnsOnTrack
  <2>2. ASSUME NEW s \in ConeId, NEW n, ConeCreate(s, n) PROVE ConeIInv'
    BY <1>2, <2>2, ConeCreateKeeps
  <2>3. ASSUME NEW s, NEW n, ConeDelete(s) \/ SetHead(s, n) PROVE ConeIInv'
    BY <2>1, <2>3 DEF ConeDelete, SetHead
  <2>4. ASSUME NEW t \in Turn, NEW s, NEW q, BeginById(t, s, q) \/ BeginByName(t, s, q) PROVE ConeIInv'
    <3>1. \E r : Begin(t, r, q) BY <2>4 DEF BeginById, BeginByName
    <3> QED BY <1>2, <3>1, BeginKeeps
  <2>5. ASSUME NEW t \in Turn, TurnStep(t) \/ Drop(t) PROVE ConeIInv'
    <3>1. CASE ReadCone(t) BY <1>2, <3>1, ReadConeKeeps
    <3>2. CASE ReadContext(t) BY <1>2, <3>2, ReadContextKeeps
    <3>3. CASE AskCone(t)
      <4>1. /\ turns[t].pc = "ask" /\ coneNodes' = coneNodes
            /\ \E pc \in {"failed", "question"} : turns' = [turns EXCEPT ![t].pc = pc]
        BY <3>3 DEF AskCone, Keep, At, Step
      <4> QED BY <1>2, <4>1, GotoKeeps
    <3>4. CASE AddQuestion(t) BY <1>2, <3>4, AddQuestionKeeps
    <3>5. CASE ModelFails(t)
      <4>1. turns[t].pc = "answer" /\ coneNodes' = coneNodes /\ turns' = [turns EXCEPT ![t].pc = "failed"]
        BY <3>5 DEF ModelFails, At, Step
      <4> QED BY <1>2, <4>1, GotoKeeps
    <3>6. CASE KeepAnswer(t)
      <4>1. /\ turns[t].pc = "answer" /\ coneNodes' = coneNodes
            /\ \E pc \in {"failed", "reply"} : turns' = [turns EXCEPT ![t].pc = pc]
        BY <3>6 DEF KeepAnswer, Keep, At, Step
      <4> QED BY <1>2, <4>1, GotoKeeps
    <3>7. CASE AddReply(t) BY <1>2, <3>7, AddReplyKeeps
    <3>8. CASE AdvanceHead(t)
      <4>1. /\ turns[t].pc = "advance" /\ coneNodes' = coneNodes
            /\ \E pc \in {"failed", "done"} : turns' = [turns EXCEPT ![t].pc = pc]
        BY <3>8 DEF AdvanceHead, At, Step
      <4> QED BY <1>2, <4>1, GotoKeeps
    <3>9. CASE Drop(t)
      <4>1. turns[t].pc # "off" /\ coneNodes' = coneNodes /\ turns' = [turns EXCEPT ![t].pc = "gone"]
        BY <3>9 DEF Drop, Finished, Step
      <4> QED BY <1>2, <4>1, GotoKeeps
    <3> QED BY <2>5, <3>1, <3>2, <3>3, <3>4, <3>5, <3>6, <3>7, <3>8, <3>9 DEF TurnStep
  <2>6. CASE UNCHANGED coneVars BY <2>1, <2>6 DEF coneVars
  <2> QED BY <1>2, <2>2, <2>3, <2>4, <2>5, <2>6 DEF ConeNext
<1> QED BY <1>1, <1>2, PTL DEF ConeSpec

\* send_prompt between its reads and its writes: for any number of cones and turns,
\* and whatever other turns, set_head and deletions do, what the model was sent is
\* the branch that the question is on.
THEOREM AnswersFitTheirContext == ConeSpec => []ContextMatchesBranch
<1>1. ConeIInv => ContextMatchesBranch BY DEF ConeIInv, TurnsOnTrack, OnTrack, ContextMatchesBranch
<1> QED BY <1>1, ConeInvariant, PTL
-----------------------------------------------------------------------------
(***************************************************************************)
(* ClaudeCode: tables.                                                     *)
(***************************************************************************)
LEMMA PutRow ==
  ASSUME NEW f, NEW x, NEW v, NEW R, f \in [DOMAIN f -> R], v \in R
  PROVE  Put(f, x, v) \in [DOMAIN Put(f, x, v) -> R] /\ DOMAIN Put(f, x, v) = DOMAIN f \cup {x}
  BY DEF Put

LEMMA WithoutRows ==
  ASSUME NEW f, NEW S, NEW R, f \in [DOMAIN f -> R]
  PROVE  Without(f, S) \in [DOMAIN Without(f, S) -> R] /\ DOMAIN Without(f, S) = DOMAIN f \ S
  BY DEF Without

\* A step of one chat, as a whole.
LEMMA OneChat ==
  ASSUME CCChats, NEW c \in Chat, NEW v \in ChatRow, v.pc \in Streaming => v.parent \in Own(c),
         chat' = [chat EXCEPT ![c] = v]
  PROVE  CCChats'
  BY DEF CCChats

\* A step of a chat that has begun and only moves its control point.
LEMMA OnePc ==
  ASSUME CCChats, NEW c \in Chat, chat[c].pc # "off",
         NEW pc \in {"open", "save", "head", "closing", "ending", "done", "failed", "gone"},
         pc = "save" => chat[c].pc \in Streaming,
         chat' = [chat EXCEPT ![c].pc = pc]
  PROVE  CCChats' /\ chat' = [chat EXCEPT ![c] = [chat[c] EXCEPT !.pc = pc]] /\ chat[c] \in ChatRow
<1>1. chat[c] \in ChatRow BY DEF CCChats, Idle
<1>2. PICK u \in ChatRow : u = chat[c] BY <1>1
<1>3. PICK v : v = [u EXCEPT !.pc = pc] OBVIOUS
<1>4. v \in ChatRow /\ v.pc = pc /\ v.parent = u.parent BY <1>3 DEF ChatRow
<1>5. chat' = [chat EXCEPT ![c] = v] BY <1>2, <1>3
<1>6. v.pc \in Streaming => v.parent \in Own(c) BY <1>2, <1>4 DEF CCChats, Streaming
<1> QED BY <1>1, <1>2, <1>3, <1>4, <1>5, <1>6, OneChat

LEMMA FailTyped ==
  ASSUME CCChats, NEW c \in Chat, chat[c].pc # "off", Fail(c)
  PROVE  CCChats'
<1>1. chat[c] \in ChatRow BY DEF CCChats, Idle
<1>2. PICK u \in ChatRow : u = chat[c] BY <1>1
<1>3. PICK v : v = [u EXCEPT !.pc = "closing", !.ok = FALSE] OBVIOUS
<1>4. v \in ChatRow /\ v.pc = "closing" BY <1>3 DEF ChatRow
<1>5. chat' = [chat EXCEPT ![c] = v] BY <1>2, <1>3 DEF Fail, CCChats
<1> QED BY <1>4, <1>5, OneChat DEF Streaming

LEMMA CCTypedFrame ==
  /\ CCRows /\ UNCHANGED <<sessions, making>> => CCRows'
  /\ CCChats /\ UNCHANGED chat => CCChats'
  /\ CCBuffers /\ UNCHANGED <<streams, seen>> => CCBuffers'
  BY DEF CCRows, CCChats, CCBuffers

\* Which ids there are, and whose.
LEMMA CCIds ==
  /\ \A s \in Session : Root(s) \in CCNode
  /\ \A c \in Chat, i \in Nat : <<c, i>> \in CCNode /\ <<c, i>> \in Own(c)
  /\ \A c \in Chat : Answer(c) \in CCNode /\ Answer(c) \in Own(c)
  /\ \A c \in Chat : c \in AgentId
  /\ NoNode \in AgentId /\ NoNode \notin CCNode
  BY ClaudeCodeAssumption DEF CCNode, Root, Answer, Own, AgentId

(***************************************************************************)
(* Buffers.                                                                *)
(***************************************************************************)
\* A buffer that an event is pushed to.
LEMMA PushedIs ==
  ASSUME NEW str, str \in [DOMAIN str -> BufferRow], NEW c, NEW e \in ChatEvent
  PROVE  /\ Pushed(str, c, e) \in [DOMAIN str -> BufferRow]
         /\ \A d \in DOMAIN str : d # c => Pushed(str, c, e)[d] = str[d]
         /\ c \in DOMAIN str => /\ Pushed(str, c, e)[c].events = Append(str[c].events, e)
                                /\ Pushed(str, c, e)[c].status = str[c].status
                                /\ Pushed(str, c, e)[c].read = str[c].read
<1>1. CASE c \in DOMAIN str
  <2>1. PICK b \in BufferRow : b = str[c] BY <1>1
  <2>2. Append(b.events, e) \in Seq(ChatEvent)
    <3>1. b.events \in Seq(ChatEvent) BY DEF BufferRow
    <3> QED BY <3>1
  <2>3. PICK v : v = [b EXCEPT !.events = Append(b.events, e)] OBVIOUS
  <2>4. v \in BufferRow /\ v.events = Append(b.events, e) /\ v.status = b.status /\ v.read = b.read
    BY <2>2, <2>3 DEF BufferRow
  <2>5. Pushed(str, c, e) = [str EXCEPT ![c] = v] BY <1>1, <2>1, <2>3 DEF Pushed
  <2> QED BY <1>1, <2>1, <2>4, <2>5
<1>2. CASE c \notin DOMAIN str BY <1>2 DEF Pushed
<1> QED BY <1>1, <1>2

\* A buffer that is marked.
LEMMA MarkedIs ==
  ASSUME NEW str, str \in [DOMAIN str -> BufferRow], NEW c,
         NEW st \in {"running", "awaiting_permission", "complete", "failed"}
  PROVE  /\ Marked(str, c, st) \in [DOMAIN str -> BufferRow]
         /\ \A d \in DOMAIN str : d # c => Marked(str, c, st)[d] = str[d]
         /\ c \in DOMAIN str => /\ Marked(str, c, st)[c].events = str[c].events
                                /\ Marked(str, c, st)[c].status = st
                                /\ Marked(str, c, st)[c].read = str[c].read
<1>1. CASE c \in DOMAIN str
  <2>1. PICK b \in BufferRow : b = str[c] BY <1>1
  <2>3. PICK v : v = [b EXCEPT !.status = st] OBVIOUS
  <2>4. v \in BufferRow /\ v.events = b.events /\ v.status = st /\ v.read = b.read
    BY <2>3 DEF BufferRow
  <2>5. Marked(str, c, st) = [str EXCEPT ![c] = v] BY <1>1, <2>1, <2>3 DEF Marked
  <2> QED BY <1>1, <2>1, <2>4, <2>5
<1>2. CASE c \notin DOMAIN str BY <1>2 DEF Marked
<1> QED BY <1>1, <1>2

\* A prefix and what follows it.
LEMMA PrefixGrows ==
  ASSUME NEW S, NEW ev \in Seq(S), NEW r \in Nat, NEW n \in Nat, r <= n, n <= Len(ev)
  PROVE  SubSeq(ev, 1, r) \o SubSeq(ev, r + 1, n) = SubSeq(ev, 1, n)
<1>1. \A i \in 1 .. n : ev[i] \in S OBVIOUS
<1>2. PICK x : x = SubSeq(ev, 1, r) OBVIOUS
<1>3. PICK y : y = SubSeq(ev, r + 1, n) OBVIOUS
<1>4. PICK z : z = SubSeq(ev, 1, n) OBVIOUS
<1>5. x \in Seq(S) /\ Len(x) = r /\ \A i \in 1 .. r : x[i] = ev[i]
  <2>1. \A i \in 1 .. r : ev[i] \in S BY <1>1
  <2> QED BY <1>2, <2>1, SubSeqProperties
<1>6. y \in Seq(S) /\ Len(y) = n - r /\ \A i \in 1 .. (n - r) : y[i] = ev[r + i]
  <2>1. \A i \in (r + 1) .. n : ev[i] \in S BY <1>1
  <2>2. /\ SubSeq(ev, r + 1, n) \in Seq(S)
        /\ Len(SubSeq(ev, r + 1, n)) = IF r + 1 <= n THEN n - (r + 1) + 1 ELSE 0
        /\ \A i \in 1 .. n - (r + 1) + 1 : SubSeq(ev, r + 1, n)[i] = ev[(r + 1) + i - 1]
    BY <2>1, SubSeqProperties
  <2> QED BY <1>3, <2>2
<1>7. z \in Seq(S) /\ Len(z) = n /\ \A i \in 1 .. n : z[i] = ev[i] BY <1>1, <1>4, SubSeqProperties
<1>8. /\ x \o y \in Seq(S) /\ Len(x \o y) = n
      /\ \A i \in 1 .. n : (x \o y)[i] = IF i <= r THEN x[i] ELSE y[i - r]
  <2>1. r + (n - r) = n OBVIOUS
  <2> QED BY <1>5, <1>6, <2>1, ConcatProperties
<1>9. ASSUME NEW i \in 1 .. n PROVE (x \o y)[i] = z[i]
  <2>1. CASE i <= r BY <1>5, <1>7, <1>8, <2>1
  <2>2. CASE ~(i <= r)
    <3>1. i - r \in 1 .. (n - r) /\ r + (i - r) = i BY <2>2
    <3> QED BY <1>6, <1>7, <1>8, <2>2, <3>1
  <2> QED BY <2>1, <2>2
<1>10. x \o y = z BY <1>7, <1>8, <1>9, SeqEqual
<1> QED BY <1>2, <1>3, <1>4, <1>10

\* What stream_poll returns takes the reader from its position to the next.
LEMMA BatchIs ==
  ASSUME NEW b \in BufferRow, b.read <= Len(b.events), NEW k \in Nat
  PROVE  /\ Advance(b, k) \in Nat /\ b.read <= Advance(b, k) /\ Advance(b, k) <= Len(b.events)
         /\ Batch(b, k) \in Seq(ChatEvent)
         /\ SubSeq(b.events, 1, b.read) \o Batch(b, k) = SubSeq(b.events, 1, Advance(b, k))
<1>1. PICK ev \in Seq(ChatEvent) : ev = b.events BY DEF BufferRow
<1>2. PICK r \in Nat : r = b.read BY DEF BufferRow
<1>3. PICK n \in Nat : n = IF r + k < Len(ev) THEN r + k ELSE Len(ev) OBVIOUS
<1>4. r <= n /\ n <= Len(ev) BY <1>1, <1>2, <1>3
<1>5. Batch(b, k) = SubSeq(ev, r + 1, n) BY <1>1, <1>2, <1>3 DEF Batch
<1>6. Len(SubSeq(ev, r + 1, n)) = n - r /\ SubSeq(ev, r + 1, n) \in Seq(ChatEvent)
  BY <1>4
<1>7. Advance(b, k) = n BY <1>2, <1>4, <1>5, <1>6 DEF Advance
<1>8. SubSeq(ev, 1, r) \o SubSeq(ev, r + 1, n) = SubSeq(ev, 1, n) BY <1>4, PrefixGrows
<1> QED BY <1>1, <1>2, <1>4, <1>5, <1>6, <1>7, <1>8

(***************************************************************************)
(* What a poller has been given, when the buffer grows or is marked.       *)
(***************************************************************************)
LEMMA HeardPushed ==
  ASSUME NEW b \in BufferRow, NEW d \in BufferRow, NEW e \in ChatEvent, NEW given, NEW pc, NEW next,
         Heard(b, given, pc), pc \notin {"ending", "done", "failed"},
         d.events = Append(b.events, e), d.status = b.status, d.read = b.read,
         next \notin {"off", "done", "failed"}, next = "ending" => e \in {"complete", "err"}
  PROVE  Heard(d, given, next)
<1>1. PICK ev \in Seq(ChatEvent) : ev = b.events BY DEF BufferRow
<1>2. PICK r \in Nat : r = b.read BY DEF BufferRow
<1>3. PICK ew : ew = Append(ev, e) OBVIOUS
<1>4. /\ ew \in Seq(ChatEvent) /\ Len(ew) = Len(ev) + 1 /\ ew[Len(ev) + 1] = e
      /\ \A i \in 1 .. Len(ev) : ew[i] = ev[i]
  BY <1>3
<1>5. r <= Len(ev) /\ given.events = SubSeq(ev, 1, r) BY <1>1, <1>2 DEF Heard
<1>6. SubSeq(ew, 1, r) = SubSeq(ev, 1, r)
  <2>1. \A i \in 1 .. r : ev[i] \in ChatEvent /\ ew[i] \in ChatEvent /\ ew[i] = ev[i] BY <1>4, <1>5
  <2>2. PICK x : x = SubSeq(ev, 1, r) OBVIOUS
  <2>3. PICK y : y = SubSeq(ew, 1, r) OBVIOUS
  <2>4. x \in Seq(ChatEvent) /\ Len(x) = r /\ \A i \in 1 .. r : x[i] = ev[i]
    BY <2>1, <2>2, SubSeqProperties
  <2>5. y \in Seq(ChatEvent) /\ Len(y) = r /\ \A i \in 1 .. r : y[i] = ew[i]
    BY <2>1, <2>3, SubSeqProperties
  <2> QED BY <2>1, <2>2, <2>3, <2>4, <2>5, SeqEqual
<1>7. next = "ending" => LastPushed(d)
  <2>1. Len(ev) + 1 \in DOMAIN ew BY <1>4
  <2> QED BY <1>1, <1>3, <1>4, <2>1 DEF LastPushed
<1>8. ~given.over /\ b.status \notin {"complete", "failed"} BY DEF Heard
<1> QED BY <1>1, <1>2, <1>3, <1>4, <1>5, <1>6, <1>7, <1>8 DEF Heard

LEMMA HeardMarked ==
  ASSUME NEW b, NEW d, NEW given, NEW pc, NEW next,
         Heard(b, given, pc), pc \notin {"done", "failed"},
         d.events = b.events, d.read = b.read,
         d.status \in {"complete", "failed"} => next \in {"done", "failed"},
         next # "off", next \in {"ending", "done", "failed"} => pc = "ending"
  PROVE  Heard(d, given, next)
  BY DEF Heard, LastPushed

\* A step of one chat, which may write to its own buffer.
LEMMA ChatMoves ==
  ASSUME CCTyped, StreamsTold, NEW c \in Chat, NEW v \in ChatRow,
         v.pc \in Streaming => v.parent \in Own(c),
         chat' = [chat EXCEPT ![c] = v], CCRows', seen' = seen,
         streams' \in [DOMAIN streams -> BufferRow],
         \A d \in DOMAIN streams : d # c => streams'[d] = streams[d],
         c \in DOMAIN streams => Heard(streams'[c], seen[c], v.pc)
  PROVE  CCTyped' /\ StreamsTold'
<1>1. CCChats' BY OneChat DEF CCTyped
<1>2. CCBuffers' BY DEF CCTyped, CCBuffers
<1>3. \A d \in Async : Told(d)'
  <2>1. SUFFICES ASSUME NEW d \in Async PROVE Told(d)' OBVIOUS
  <2>2. Told(d) /\ d \in Chat BY ClaudeCodeAssumption DEF StreamsTold
  <2>3. DOMAIN streams' = DOMAIN streams OBVIOUS
  <2>4. d # c => chat'[d] = chat[d] BY DEF CCTyped, CCChats
  <2>5. chat'[c] = v BY DEF CCTyped, CCChats
  <2>6. CASE d = c BY <2>2, <2>3, <2>5, <2>6 DEF Told
  <2>7. CASE d # c BY <2>2, <2>3, <2>4, <2>7 DEF Told
  <2> QED BY <2>6, <2>7
<1> QED BY <1>1, <1>2, <1>3 DEF CCTyped, StreamsTold

\* One that leaves the buffers alone.
LEMMA QuietMove ==
  ASSUME CCTyped, StreamsTold, NEW c \in Chat, NEW v \in ChatRow,
         v.pc \in Streaming => v.parent \in Own(c),
         chat' = [chat EXCEPT ![c] = v], CCRows', UNCHANGED <<streams, seen>>,
         chat[c].pc \notin {"done", "failed"}, v.pc \notin {"ending", "done", "failed"}
  PROVE  CCTyped' /\ StreamsTold'
<1>1. streams' \in [DOMAIN streams -> BufferRow] BY DEF CCTyped, CCBuffers
<1>2. c \in DOMAIN streams => Heard(streams[c], seen[c], v.pc)
  <2>1. SUFFICES ASSUME c \in DOMAIN streams PROVE Heard(streams[c], seen[c], v.pc) OBVIOUS
  <2>2. Heard(streams[c], seen[c], chat[c].pc) BY <2>1 DEF CCTyped, CCBuffers, StreamsTold, Told
  <2>3. v.pc # "off" BY DEF ChatRow
  <2> QED BY <2>2, <2>3, HeardMarked DEF Heard
<1> QED BY <1>1, <1>2, ChatMoves

(***************************************************************************)
(* The steps of calls and polls.                                           *)
(***************************************************************************)
CCIInv == CCTyped /\ StreamsTold

\* A step that is not of a chat or of a buffer.
LEMMA CallKeeps ==
  ASSUME CCIInv, CCRows', UNCHANGED <<chat, streams, seen>>
  PROVE  CCIInv'
  BY DEF CCIInv, CCTyped, CCChats, CCBuffers, StreamsTold, Told

LEMMA SessionCreateKeeps ==
  ASSUME CCIInv, NEW s \in Session, NEW n \in Name, NEW h \in CCNode \cup {NoNode}, SessionCreate(s, n, h)
  PROVE  CCIInv'
<1>1. PICK m : m = [name |-> n, head |-> h, inserted |-> FALSE] OBVIOUS
<1>2. m \in MakingRow BY <1>1 DEF MakingRow
<1>3. making' = Put(making, s, m) BY <1>1 DEF SessionCreate
<1>4. CCRows'
  <2>1. sessions' = sessions BY DEF SessionCreate
  <2>2. making' \in [DOMAIN making' -> MakingRow] /\ DOMAIN making' = DOMAIN making \cup {s}
    BY <1>2, <1>3, PutRow DEF CCIInv, CCTyped, CCRows
  <2>3. \A u \in DOMAIN making' : making'[u] = IF u = s THEN m ELSE making[u] BY <1>3, <2>2 DEF Put
  <2>4. \A u \in DOMAIN making' : making'[u].inserted => making'[u].head # NoNode
    BY <1>1, <2>2, <2>3 DEF CCIInv, CCTyped, CCRows
  <2> QED BY <2>1, <2>2, <2>4 DEF CCIInv, CCTyped, CCRows
<1> QED BY <1>4, CallKeeps DEF SessionCreate

LEMMA InsertSessionKeeps ==
  ASSUME CCIInv, NEW s \in Session, InsertSession(s)
  PROVE  CCIInv'
<1>1. making[s] \in MakingRow BY DEF InsertSession, CCIInv, CCTyped, CCRows
<1>2. PICK n \in Name : n = making[s].name BY <1>1 DEF MakingRow
<1>3. PICK row : row = [name |-> IF Exact(n) = {} THEN <<n>> ELSE <<n, s>>,
                        tree |-> s, head |-> Root(s), sid |-> NoNode]
  OBVIOUS
<1>4. row \in SessionRow
  <2>1. (IF Exact(n) = {} THEN <<n>> ELSE <<n, s>>) \in {<<m>> : m \in Name} \cup Name \X Session OBVIOUS
  <2> QED BY <1>3, <2>1, CCIds DEF SessionRow
<1>5. sessions' = Put(sessions, s, row) BY <1>2, <1>3 DEF InsertSession
<1>6. Put(sessions, s, row) \in [DOMAIN Put(sessions, s, row) -> SessionRow]
      /\ DOMAIN Put(sessions, s, row) = DOMAIN sessions \cup {s}
  BY <1>4, PutRow DEF CCIInv, CCTyped, CCRows
<1>7. making' \in [DOMAIN making' -> MakingRow] /\ DOMAIN making' \subseteq Session
      /\ \A u \in DOMAIN making' : making'[u].inserted => making'[u].head # NoNode
  <2>1. CASE making[s].head = NoNode
    <3>1. making' = Without(making, {s}) BY <2>1 DEF InsertSession
    <3>2. making' \in [DOMAIN making' -> MakingRow] /\ DOMAIN making' = DOMAIN making \ {s}
      BY <3>1, WithoutRows DEF CCIInv, CCTyped, CCRows
    <3>3. \A u \in DOMAIN making' : making'[u] = making[u] BY <3>1, <3>2 DEF Without
    <3> QED BY <3>2, <3>3 DEF CCIInv, CCTyped, CCRows
  <2>2. CASE making[s].head # NoNode
    <3>1. PICK m \in MakingRow : m = making[s] BY <1>1
    <3>2. PICK d : d = [m EXCEPT !.inserted = TRUE] OBVIOUS
    <3>3. d \in MakingRow /\ d.head = m.head BY <3>2 DEF MakingRow
    <3>4. making' = [making EXCEPT ![s] = d] BY <2>2, <3>1, <3>2 DEF InsertSession
    <3> QED BY <2>2, <3>1, <3>3, <3>4 DEF CCIInv, CCTyped, CCRows
  <2> QED BY <2>1, <2>2
<1>8. CCRows' BY <1>5, <1>6, <1>7 DEF CCIInv, CCTyped, CCRows
<1> QED BY <1>8, CallKeeps DEF InsertSession

LEMMA HeadedTyped ==
  ASSUME CCRows, NEW s \in DOMAIN sessions, NEW n \in CCNode, NEW sid \in AgentId
  PROVE  /\ Headed(s, n, sid) \in [DOMAIN sessions -> SessionRow]
         /\ Headed(s, n, sid)[s].head = n /\ Headed(s, n, sid)[s].tree = sessions[s].tree
         /\ \A u \in DOMAIN sessions : u # s => Headed(s, n, sid)[u] = sessions[u]
<1>1. PICK r \in SessionRow : r = sessions[s] BY DEF CCRows
<1>2. PICK i \in AgentId : i = IF sid = NoNode THEN r.sid ELSE sid BY DEF SessionRow
<1>3. PICK q : q = [r EXCEPT !.head = n, !.sid = i] OBVIOUS
<1>4. q \in SessionRow /\ q.head = n /\ q.tree = r.tree BY <1>3 DEF SessionRow
<1>5. Headed(s, n, sid) = [sessions EXCEPT ![s] = q] BY <1>1, <1>2, <1>3 DEF Headed
<1> QED BY <1>1, <1>4, <1>5 DEF CCRows

LEMMA ForkHeadKeeps ==
  ASSUME CCIInv, NEW s \in Session, ForkHead(s)
  PROVE  CCIInv'
<1>1. making[s] \in MakingRow BY DEF ForkHead, CCIInv, CCTyped, CCRows
<1>2. PICK h \in CCNode : h = making[s].head BY <1>1 DEF MakingRow, ForkHead, CCIInv, CCTyped, CCRows
<1>3. sessions' \in [DOMAIN sessions -> SessionRow]
  <2>1. CASE s \in DOMAIN sessions
    <3>1. sessions' = Headed(s, h, NoNode) BY <1>2, <2>1 DEF ForkHead
    <3> QED BY <3>1, <2>1, HeadedTyped, CCIds DEF CCIInv, CCTyped
  <2>2. CASE s \notin DOMAIN sessions BY <2>2 DEF ForkHead, CCIInv, CCTyped, CCRows
  <2> QED BY <2>1, <2>2
<1>4. making' = Without(making, {s}) BY DEF ForkHead
<1>5. making' \in [DOMAIN making' -> MakingRow] /\ DOMAIN making' = DOMAIN making \ {s}
      /\ \A u \in DOMAIN making' : making'[u] = making[u]
  BY <1>4, WithoutRows DEF CCIInv, CCTyped, CCRows, Without
<1>6. CCRows' BY <1>3, <1>5 DEF CCIInv, CCTyped, CCRows
<1> QED BY <1>6, CallKeeps DEF ForkHead

LEMMA DeleteKeeps ==
  ASSUME CCIInv, NEW s, Delete(s)
  PROVE  CCIInv'
<1>1. CCRows' BY WithoutRows, ZenonT(40) DEF Delete, CCIInv, CCTyped, CCRows
<1> QED BY <1>1, CallKeeps DEF Delete

LEMMA PollKeeps ==
  ASSUME CCIInv, NEW c \in Chat, NEW k \in Nat, Poll(c, k)
  PROVE  CCIInv'
<1>1. c \in DOMAIN streams /\ c \in Async BY DEF Poll, CCIInv, CCTyped, CCBuffers
<1>2. PICK b \in BufferRow : b = streams[c] BY <1>1 DEF CCIInv, CCTyped, CCBuffers
<1>3. PICK g \in [events : Seq(ChatEvent), over : BOOLEAN] : g = seen[c]
  BY <1>1 DEF CCIInv, CCTyped, CCBuffers
<1>4. Heard(b, g, chat[c].pc) BY <1>1, <1>2, <1>3 DEF CCIInv, StreamsTold, Told
<1>5. PICK n \in Nat : n = Advance(b, k) BY <1>4, BatchIs DEF Heard
<1>6. n <= Len(b.events) /\ g.events \o Batch(b, k) = SubSeq(b.events, 1, n) /\ Batch(b, k) \in Seq(ChatEvent)
  BY <1>4, <1>5, BatchIs DEF Heard
<1>7. PICK d : d = [b EXCEPT !.read = n] OBVIOUS
<1>8. d \in BufferRow /\ d.read = n /\ d.events = b.events /\ d.status = b.status BY <1>7 DEF BufferRow
<1>9. PICK o \in BOOLEAN : o = (n = Len(b.events) /\ b.status \in {"complete", "failed"}) OBVIOUS
<1>10. PICK h : h = [events |-> g.events \o Batch(b, k), over |-> o] OBVIOUS
<1>11. h \in [events : Seq(ChatEvent), over : BOOLEAN]
  <2>1. g.events \in Seq(ChatEvent) OBVIOUS
  <2>2. g.events \o Batch(b, k) \in Seq(ChatEvent) BY <1>6, <2>1, ConcatProperties
  <2> QED BY <1>10, <2>2
<1>12. streams' = [streams EXCEPT ![c] = d] BY <1>2, <1>5, <1>7 DEF Poll
<1>13. seen' = [seen EXCEPT ![c] = h]
  <2>1. seen' = [seen EXCEPT ![c] = [events |-> seen[c].events \o Batch(b, k),
                                     over |-> n = Len(b.events) /\ b.status \in {"complete", "failed"}]]
    BY <1>2, <1>5 DEF Poll
  <2> QED BY <1>3, <1>9, <1>10, <2>1
<1>14. Heard(d, h, chat[c].pc) BY <1>4, <1>6, <1>8, <1>9, <1>10 DEF Heard, LastPushed
<1>15. CCTyped'
  <2>1. CCBuffers' BY <1>8, <1>11, <1>12, <1>13 DEF CCIInv, CCTyped, CCBuffers
  <2>2. UNCHANGED <<sessions, making, chat>> BY DEF Poll
  <2> QED BY <2>1, <2>2 DEF CCIInv, CCTyped, CCRows, CCChats
<1>16. StreamsTold'
  <2>1. SUFFICES ASSUME NEW a \in Async PROVE Told(a)' BY DEF StreamsTold
  <2>2. Told(a) /\ chat' = chat BY DEF CCIInv, StreamsTold, Poll
  <2>3. CASE a = c
    <3>1. streams'[a] = d /\ seen'[a] = h /\ a \in DOMAIN streams'
      BY <1>1, <1>12, <1>13, <2>3 DEF CCIInv, CCTyped, CCBuffers
    <3> QED BY <1>14, <2>2, <2>3, <3>1 DEF Told
  <2>4. CASE a # c
    <3>1. (a \in DOMAIN streams' <=> a \in DOMAIN streams) /\ seen'[a] = seen[a]
          /\ (a \in DOMAIN streams => streams'[a] = streams[a])
      BY <1>12, <1>13, <2>4 DEF CCIInv, CCTyped, CCBuffers
    <3> QED BY <2>2, <3>1 DEF Told
  <2> QED BY <2>3, <2>4
<1> QED BY <1>15, <1>16 DEF CCIInv

(***************************************************************************)
(* The steps of chats.                                                     *)
(***************************************************************************)
LEMMA Begun == ASSUME CCIInv, NEW c \in Chat, chat[c].pc # "off" PROVE chat[c] \in ChatRow
  BY DEF CCIInv, CCTyped, CCChats, Idle

LEMMA RowsStay == CCIInv /\ UNCHANGED <<sessions, making>> => CCRows'
  BY DEF CCIInv, CCTyped, CCRows

LEMMA StepOn ==
  ASSUME CCIInv, NEW c \in Chat, chat[c].pc \notin {"off", "done", "failed"},
         NEW pc \in {"open", "save", "close", "head", "closing", "gone"},
         pc \in Streaming => chat[c].pc \in Streaming,
         Goto(c, pc), CCRows', UNCHANGED <<streams, seen>>
  PROVE  CCIInv'
<1>1. PICK u \in ChatRow : u = chat[c] BY Begun
<1>2. PICK v : v = [u EXCEPT !.pc = pc] OBVIOUS
<1>3. v \in ChatRow /\ v.pc = pc /\ v.parent = u.parent BY <1>2 DEF ChatRow
<1>4. chat' = [chat EXCEPT ![c] = v] BY <1>1, <1>2 DEF Goto
<1>5. v.pc \in Streaming => v.parent \in Own(c) BY <1>1, <1>3 DEF CCIInv, CCTyped, CCChats
<1> QED BY <1>3, <1>4, <1>5, QuietMove DEF CCIInv

LEMMA StepFails ==
  ASSUME CCIInv, NEW c \in Chat, chat[c].pc \notin {"off", "done", "failed"},
         Fail(c), CCRows', UNCHANGED <<streams, seen>>
  PROVE  CCIInv'
<1>1. PICK u \in ChatRow : u = chat[c] BY Begun
<1>2. PICK v : v = [u EXCEPT !.pc = "closing", !.ok = FALSE] OBVIOUS
<1>3. v \in ChatRow /\ v.pc = "closing" BY <1>2 DEF ChatRow
<1>4. chat' = [chat EXCEPT ![c] = v] BY <1>1, <1>2 DEF Fail, CCIInv, CCTyped, CCChats
<1> QED BY <1>3, <1>4, QuietMove DEF CCIInv, Streaming

LEMMA StartChatKeeps ==
  ASSUME CCIInv, NEW c \in Chat, NEW s \in DOMAIN sessions, NEW eph \in BOOLEAN, StartChat(c, s, eph)
  PROVE  CCIInv'
<1>1. PICK r \in SessionRow : r = sessions[s] BY DEF CCIInv, CCTyped, CCRows
<1>2. PICK v : v = [pc |-> "ask", eph |-> eph, session |-> s, tree |-> r.tree, head |-> r.head,
                    oldSid |-> r.sid, sid |-> r.sid, parent |-> r.head,
                    text |-> FALSE, todo |-> <<>>, ok |-> TRUE]
  OBVIOUS
<1>3. v \in ChatRow /\ v.pc = "ask"
  <2>1. s \in Session BY DEF CCIInv, CCTyped, CCRows
  <2>2. <<>> \in Seq(RawClaudeEvent) OBVIOUS
  <2>3. r.tree \in Session /\ r.head \in CCNode /\ r.sid \in AgentId BY DEF SessionRow
  <2> QED BY <1>2, <2>1, <2>2, <2>3 DEF ChatRow
<1>4. chat' = [chat EXCEPT ![c] = v] /\ chat[c].pc = "off" BY <1>1, <1>2 DEF StartChat
<1>5. CCRows' /\ seen' = seen BY RowsStay DEF StartChat
<1>6. CASE c \in Async
  <2>1. c \notin DOMAIN streams /\ seen[c] = [events |-> <<>>, over |-> FALSE]
    BY <1>4, <1>6 DEF CCIInv, StreamsTold, Told, Heard
  <2>2. Buffer \in BufferRow
    <3>1. <<>> \in Seq(ChatEvent) OBVIOUS
    <3> QED BY <3>1 DEF Buffer, BufferRow
  <2>3. streams' = Put(streams, c, Buffer) BY <1>6 DEF StartChat
  <2>4. streams' \in [DOMAIN streams' -> BufferRow] /\ DOMAIN streams' = DOMAIN streams \cup {c}
    BY <2>2, <2>3, PutRow DEF CCIInv, CCTyped, CCBuffers
  <2>5. \A d \in DOMAIN streams' : streams'[d] = IF d = c THEN Buffer ELSE streams[d] BY <2>3, <2>4 DEF Put
  <2>6. CCTyped'
    <3>1. CCChats' BY <1>3, <1>4, OneChat DEF CCIInv, CCTyped, Streaming
    <3>2. CCBuffers' BY <1>5, <1>6, <2>4 DEF CCIInv, CCTyped, CCBuffers
    <3> QED BY <1>5, <3>1, <3>2 DEF CCTyped
  <2>7. Heard(Buffer, seen[c], "ask")
    <3>1. Buffer.read = 0 /\ Buffer.events = <<>> /\ Buffer.status = "running" BY DEF Buffer
    <3>2. SubSeq(<<>>, 1, 0) = <<>> BY SubSeqEmpty
    <3>3. Len(<<>>) = 0 OBVIOUS
    <3> QED BY <2>1, <3>1, <3>2, <3>3 DEF Heard
  <2>8. StreamsTold'
    <3>1. SUFFICES ASSUME NEW d \in Async PROVE Told(d)' BY DEF StreamsTold
    <3>2. Told(d) /\ d \in Chat BY ClaudeCodeAssumption DEF CCIInv, StreamsTold
    <3>3. CASE d = c
      <4>1. chat'[d].pc = "ask" /\ streams'[d] = Buffer /\ d \in DOMAIN streams' /\ seen'[d] = seen[c]
        BY <1>3, <1>4, <1>5, <2>4, <2>5, <3>3 DEF CCIInv, CCTyped, CCChats
      <4> QED BY <2>7, <4>1 DEF Told
    <3>4. CASE d # c
      <4>1. /\ chat'[d] = chat[d] /\ (d \in DOMAIN streams' <=> d \in DOMAIN streams)
            /\ d \in DOMAIN streams => streams'[d] = streams[d]
        BY <1>4, <2>4, <2>5, <3>2, <3>4 DEF CCIInv, CCTyped, CCChats
      <4> QED BY <1>5, <3>2, <4>1 DEF Told
    <3> QED BY <3>3, <3>4
  <2> QED BY <2>6, <2>8 DEF CCIInv
<1>7. CASE c \notin Async
  <2>1. UNCHANGED <<streams, seen>> BY <1>7 DEF StartChat
  <2> QED BY <1>3, <1>4, <1>5, <2>1, QuietMove DEF CCIInv, Streaming
<1> QED BY <1>6, <1>7

\* message_create.
LEMMA StoreKeeps ==
  ASSUME CCIInv, NEW c \in Chat, NEW role, NEW pc \in {"open", "close"}, Store(c, role, pc),
         chat[c].pc = IF pc = "open" THEN "ask" ELSE "save",
         UNCHANGED <<sessions, making, streams, seen>>
  PROVE  CCIInv'
<1>1. CASE Goto(c, pc) BY <1>1, RowsStay, StepOn DEF Streaming
<1>2. CASE Fail(c) BY <1>2, RowsStay, StepFails
<1> QED BY <1>1, <1>2 DEF Store

\* A chat that streams pushes an event, after it has marked its buffer or not.
LEMMA Streams ==
  ASSUME CCIInv, NEW c \in Chat, NEW v \in ChatRow, NEW str, NEW e \in ChatEvent,
         chat' = [chat EXCEPT ![c] = v], v.pc \in Streaming => v.parent \in Own(c),
         chat[c].pc \notin {"ending", "done", "failed"}, v.pc \notin {"ending", "done", "failed"},
         str = streams \/ \E st \in {"running", "awaiting_permission"} : str = Marked(streams, c, st),
         streams' = str \/ streams' = Pushed(str, c, e), UNCHANGED <<sessions, making, seen>>
  PROVE  CCIInv'
<1>1. v.pc # "off" BY DEF ChatRow
<1>2. streams \in [DOMAIN streams -> BufferRow] BY DEF CCIInv, CCTyped, CCBuffers
<1>3. c \in DOMAIN streams => Heard(streams[c], seen[c], chat[c].pc)
  BY DEF CCIInv, CCTyped, CCBuffers, StreamsTold, Told
<1>4. /\ str \in [DOMAIN streams -> BufferRow]
      /\ \A d \in DOMAIN streams : d # c => str[d] = streams[d]
      /\ c \in DOMAIN streams => Heard(str[c], seen[c], v.pc)
  <2>1. CASE str = streams BY <1>1, <1>2, <1>3, <2>1, HeardMarked DEF Heard
  <2>2. ASSUME NEW st \in {"running", "awaiting_permission"}, str = Marked(streams, c, st)
        PROVE  /\ str \in [DOMAIN streams -> BufferRow]
               /\ \A d \in DOMAIN streams : d # c => str[d] = streams[d]
               /\ c \in DOMAIN streams => Heard(str[c], seen[c], v.pc)
    <3>1. /\ str \in [DOMAIN streams -> BufferRow]
          /\ \A d \in DOMAIN streams : d # c => str[d] = streams[d]
          /\ c \in DOMAIN streams => /\ str[c].events = streams[c].events
                                     /\ str[c].status = st
                                     /\ str[c].read = streams[c].read
      BY <1>2, <2>2, MarkedIs
    <3>2. c \in DOMAIN streams => Heard(str[c], seen[c], v.pc) BY <1>1, <1>3, <3>1, HeardMarked
    <3> QED BY <3>1, <3>2
  <2> QED BY <2>1, <2>2
<1>5. /\ streams' \in [DOMAIN streams -> BufferRow]
      /\ \A d \in DOMAIN streams : d # c => streams'[d] = streams[d]
      /\ c \in DOMAIN streams => Heard(streams'[c], seen[c], v.pc)
  <2>1. CASE streams' = str BY <1>4, <2>1
  <2>2. CASE streams' = Pushed(str, c, e)
    <3>1. DOMAIN str = DOMAIN streams BY <1>4
    <3>2. /\ Pushed(str, c, e) \in [DOMAIN str -> BufferRow]
          /\ \A d \in DOMAIN str : d # c => Pushed(str, c, e)[d] = str[d]
          /\ c \in DOMAIN str => /\ Pushed(str, c, e)[c].events = Append(str[c].events, e)
                                 /\ Pushed(str, c, e)[c].status = str[c].status
                                 /\ Pushed(str, c, e)[c].read = str[c].read
      BY <1>4, <3>1, PushedIs
    <3>3. c \in DOMAIN streams => Heard(streams'[c], seen[c], v.pc)
      <4>1. SUFFICES ASSUME c \in DOMAIN streams PROVE Heard(streams'[c], seen[c], v.pc) OBVIOUS
      <4>2. str[c] \in BufferRow /\ streams'[c] \in BufferRow BY <1>4, <2>2, <3>1, <3>2, <4>1
      <4> QED BY <1>1, <1>4, <2>2, <3>1, <3>2, <4>1, <4>2, HeardPushed
    <3> QED BY <1>4, <2>2, <3>1, <3>2, <3>3
  <2> QED BY <2>1, <2>2
<1>6. CCRows' BY RowsStay
<1> QED BY <1>5, <1>6, ChatMoves DEF CCIInv

LEMMA OpenTurnKeeps ==
  ASSUME CCIInv, NEW c \in Chat, OpenTurn(c)
  PROVE  CCIInv'
<1>1. PICK u \in ChatRow : u = chat[c] BY Begun DEF OpenTurn
<1>2. PICK script \in Script[c] :
        chat' = [chat EXCEPT ![c].pc = "stream", ![c].parent = <<c, 3>>, ![c].todo = script]
  BY DEF OpenTurn
<1>3. PICK p : p = <<c, 3>> OBVIOUS
<1>4. p \in Own(c) /\ p \in CCNode BY <1>3, CCIds
<1>5. script \in Seq(RawClaudeEvent) BY ClaudeCodeAssumption
<1>6. PICK v : v = [u EXCEPT !.pc = "stream", !.parent = p, !.todo = script] OBVIOUS
<1>7. v \in ChatRow /\ v.pc = "stream" /\ v.parent = p BY <1>4, <1>5, <1>6 DEF ChatRow
<1>8. chat' = [chat EXCEPT ![c] = v] BY <1>1, <1>2, <1>3, <1>6 DEF CCIInv, CCTyped, CCChats
<1>9. /\ u.pc = "open" /\ streams' = Pushed(streams, c, "start") /\ "start" \in ChatEvent
      /\ UNCHANGED <<sessions, making, seen>>
  BY <1>1 DEF OpenTurn, ChatEvent
<1> QED BY <1>1, <1>4, <1>7, <1>8, <1>9, Streams

LEMMA RawEventKeeps ==
  ASSUME CCIInv, NEW c \in Chat, RawEvent(c)
  PROVE  CCIInv'
<1>1. PICK u \in ChatRow : u = chat[c] BY Begun DEF RawEvent
<1>2. u.pc = "stream" /\ u.todo # <<>> /\ u.parent \in Own(c)
  BY <1>1 DEF RawEvent, CCIInv, CCTyped, CCChats, Streaming
<1>3. PICK e : e = Head(u.todo) OBVIOUS
<1>4. PICK rest : rest = Tail(u.todo) OBVIOUS
<1>5. e \in RawClaudeEvent /\ rest \in Seq(RawClaudeEvent)
  <2>1. u.todo \in Seq(RawClaudeEvent) BY DEF ChatRow
  <2> QED BY <1>2, <1>3, <1>4, <2>1
<1>6. PICK n : n = Below(c) OBVIOUS
<1>7. n \in Own(c) /\ n \in CCNode
  <2>1. u.parent[2] + 1 \in Nat BY <1>2 DEF Own
  <2> QED BY <1>1, <1>6, <2>1, CCIds DEF Below
<1>8. PICK p : p = IF Noded(c, e) THEN n ELSE u.parent OBVIOUS
<1>9. PICK i : i = IF e = "sid" THEN c ELSE u.sid OBVIOUS
<1>10. PICK b \in BOOLEAN : b = (u.text \/ e \in {"text", "block"}) OBVIOUS
<1>11. p \in Own(c) /\ p \in CCNode /\ i \in AgentId BY <1>2, <1>7, <1>8, <1>9, CCIds DEF ChatRow
<1>12. PICK next : next = [u EXCEPT !.todo = rest, !.text = b, !.sid = i, !.parent = p] OBVIOUS
<1>13. next \in ChatRow /\ next.pc = "stream" /\ next.parent = p
  BY <1>2, <1>5, <1>11, <1>12 DEF ChatRow
<1>14. PICK v : v = IF e = "error" THEN [u EXCEPT !.pc = "closing", !.ok = FALSE] ELSE next OBVIOUS
<1>15. v \in ChatRow /\ v.pc \notin {"ending", "done", "failed"} /\ (v.pc \in Streaming => v.parent \in Own(c))
  <2>1. CASE e = "error" BY <1>14, <2>1 DEF ChatRow, Streaming
  <2>2. CASE e # "error" BY <1>11, <1>13, <1>14, <2>2
  <2> QED BY <2>1, <2>2
<1>16. chat' = [chat EXCEPT ![c] = v]
  <2>1. CASE e = "error"
    <3>1. Fail(c) BY <1>1, <1>3, <2>1 DEF RawEvent
    <3> QED BY <1>1, <1>14, <2>1, <3>1 DEF Fail, CCIInv, CCTyped, CCChats
  <2>2. CASE e # "error"
    <3>1. chat' = [chat EXCEPT ![c] =
              [chat[c] EXCEPT !.todo = Tail(@), !.text = @ \/ e \in {"text", "block"},
                              !.sid = IF e = "sid" THEN c ELSE @,
                              !.parent = IF Noded(c, e) THEN Below(c) ELSE @]]
      BY <1>1, <1>3, <2>2 DEF RawEvent
    <3> QED BY <1>1, <1>4, <1>6, <1>8, <1>9, <1>10, <1>12, <1>14, <2>2, <3>1
  <2> QED BY <2>1, <2>2
<1>17. PICK str : str = IF e \in {"permit", "result"} THEN Marked(streams, c, Awaits(e)) ELSE streams OBVIOUS
<1>18. str = streams \/ \E st \in {"running", "awaiting_permission"} : str = Marked(streams, c, st)
  BY <1>17 DEF Awaits
<1>19. streams' = str \/ streams' = Pushed(str, c, e) BY <1>1, <1>3, <1>17 DEF RawEvent
<1>20. e \in ChatEvent /\ UNCHANGED <<sessions, making, seen>> BY <1>5 DEF ChatEvent, RawEvent
<1> QED BY <1>1, <1>2, <1>15, <1>16, <1>18, <1>19, <1>20, Streams

LEMMA AgentEndsKeeps ==
  ASSUME CCIInv, NEW c \in Chat, AgentEnds(c)
  PROVE  CCIInv'
<1>1. PICK u \in ChatRow : u = chat[c] BY Begun DEF AgentEnds
<1>2. u.pc = "stream" /\ making' = making /\ UNCHANGED <<streams, seen>> BY <1>1 DEF AgentEnds
<1>3. CCRows'
  <2>1. CASE sessions' = sessions BY <1>2, <2>1, RowsStay
  <2>2. ASSUME NEW s \in DOMAIN sessions, sessions' = [sessions EXCEPT ![s].sid = u.sid] PROVE CCRows'
    <3>1. PICK r \in SessionRow : r = sessions[s] BY DEF CCIInv, CCTyped, CCRows
    <3>2. PICK q : q = [r EXCEPT !.sid = u.sid] OBVIOUS
    <3>3. q \in SessionRow BY <3>2 DEF SessionRow, ChatRow
    <3>4. sessions' = [sessions EXCEPT ![s] = q] BY <2>2, <3>1, <3>2
    <3> QED BY <1>2, <3>3, <3>4 DEF CCIInv, CCTyped, CCRows
  <2> QED BY <1>1, <2>1, <2>2 DEF AgentEnds
<1>4. Fail(c) \/ Goto(c, "save") BY DEF AgentEnds
<1>5. CASE Fail(c) BY <1>1, <1>2, <1>3, <1>5, StepFails
<1>6. CASE Goto(c, "save") BY <1>1, <1>2, <1>3, <1>6, StepOn DEF Streaming
<1> QED BY <1>4, <1>5, <1>6

LEMMA MoveHeadKeeps ==
  ASSUME CCIInv, NEW c \in Chat, MoveHead(c)
  PROVE  CCIInv'
<1>1. PICK u \in ChatRow : u = chat[c] BY Begun DEF MoveHead
<1>2. u.pc = "head" /\ making' = making /\ UNCHANGED <<streams, seen>> BY <1>1 DEF MoveHead
<1>3. CCRows'
  <2>1. CASE sessions' = sessions BY <1>2, <2>1, RowsStay
  <2>2. ASSUME NEW s \in DOMAIN sessions, sessions' = Headed(s, Answer(c), u.sid) PROVE CCRows'
    <3>1. u.sid \in AgentId /\ Answer(c) \in CCNode BY CCIds DEF ChatRow
    <3>2. Headed(s, Answer(c), u.sid) \in [DOMAIN sessions -> SessionRow]
      BY <3>1, HeadedTyped DEF CCIInv, CCTyped
    <3> QED BY <1>2, <2>2, <3>2 DEF CCIInv, CCTyped, CCRows
  <2> QED BY <1>1, <2>1, <2>2 DEF MoveHead
<1>4. Fail(c) \/ Goto(c, "closing") BY DEF MoveHead
<1>5. CASE Fail(c) BY <1>1, <1>2, <1>3, <1>5, StepFails
<1>6. CASE Goto(c, "closing") BY <1>1, <1>2, <1>3, <1>6, StepOn DEF Streaming
<1> QED BY <1>4, <1>5, <1>6

LEMMA LastEventKeeps ==
  ASSUME CCIInv, NEW c \in Chat, LastEvent(c)
  PROVE  CCIInv'
<1>1. PICK u \in ChatRow : u = chat[c] BY Begun DEF LastEvent
<1>2. PICK e \in {"complete", "err"} : e = IF u.ok THEN "complete" ELSE "err" OBVIOUS
<1>3. PICK v : v = [u EXCEPT !.pc = "ending"] OBVIOUS
<1>4. v \in ChatRow /\ v.pc = "ending" BY <1>3 DEF ChatRow
<1>5. /\ u.pc = "closing" /\ chat' = [chat EXCEPT ![c] = v] /\ streams' = Pushed(streams, c, e)
      /\ seen' = seen /\ e \in ChatEvent
  BY <1>1, <1>2, <1>3 DEF LastEvent, Goto, ChatEvent
<1>6. CCRows' BY RowsStay DEF LastEvent
<1>7. /\ Pushed(streams, c, e) \in [DOMAIN streams -> BufferRow]
      /\ \A d \in DOMAIN streams : d # c => Pushed(streams, c, e)[d] = streams[d]
      /\ c \in DOMAIN streams => /\ Pushed(streams, c, e)[c].events = Append(streams[c].events, e)
                                 /\ Pushed(streams, c, e)[c].status = streams[c].status
                                 /\ Pushed(streams, c, e)[c].read = streams[c].read
  BY <1>5, PushedIs DEF CCIInv, CCTyped, CCBuffers
<1>8. c \in DOMAIN streams => Heard(streams'[c], seen[c], v.pc)
  <2>1. SUFFICES ASSUME c \in DOMAIN streams PROVE Heard(streams'[c], seen[c], v.pc) OBVIOUS
  <2>2. streams[c] \in BufferRow /\ streams'[c] \in BufferRow
    BY <1>5, <1>7, <2>1 DEF CCIInv, CCTyped, CCBuffers
  <2>3. Heard(streams[c], seen[c], u.pc) BY <1>1, <2>1 DEF CCIInv, CCTyped, CCBuffers, StreamsTold, Told
  <2> QED BY <1>2, <1>4, <1>5, <1>7, <2>1, <2>2, <2>3, HeardPushed
<1> QED BY <1>4, <1>5, <1>6, <1>7, <1>8, ChatMoves DEF CCIInv, Streaming

LEMMA LastStatusKeeps ==
  ASSUME CCIInv, NEW c \in Chat, LastStatus(c)
  PROVE  CCIInv'
<1>1. PICK u \in ChatRow : u = chat[c] BY Begun DEF LastStatus
<1>2. PICK st \in {"complete", "failed"} : st = IF u.ok THEN "complete" ELSE "failed" OBVIOUS
<1>3. PICK pc \in {"done", "failed"} : pc = IF u.ok THEN "done" ELSE "failed" OBVIOUS
<1>4. PICK v : v = [u EXCEPT !.pc = pc] OBVIOUS
<1>5. v \in ChatRow /\ v.pc = pc BY <1>4 DEF ChatRow
<1>6. /\ u.pc = "ending" /\ chat' = [chat EXCEPT ![c] = v] /\ streams' = Marked(streams, c, st) /\ seen' = seen
  BY <1>1, <1>2, <1>3, <1>4 DEF LastStatus, Goto
<1>7. CCRows' BY RowsStay DEF LastStatus
<1>8. /\ Marked(streams, c, st) \in [DOMAIN streams -> BufferRow]
      /\ \A d \in DOMAIN streams : d # c => Marked(streams, c, st)[d] = streams[d]
      /\ c \in DOMAIN streams => /\ Marked(streams, c, st)[c].events = streams[c].events
                                 /\ Marked(streams, c, st)[c].status = st
                                 /\ Marked(streams, c, st)[c].read = streams[c].read
  BY MarkedIs DEF CCIInv, CCTyped, CCBuffers
<1>9. c \in DOMAIN streams => Heard(streams'[c], seen[c], v.pc)
  <2>1. SUFFICES ASSUME c \in DOMAIN streams PROVE Heard(streams'[c], seen[c], v.pc) OBVIOUS
  <2>2. Heard(streams[c], seen[c], u.pc) BY <1>1, <2>1 DEF CCIInv, CCTyped, CCBuffers, StreamsTold, Told
  <2> QED BY <1>5, <1>6, <1>8, <2>1, <2>2, HeardMarked
<1> QED BY <1>5, <1>6, <1>7, <1>8, <1>9, ChatMoves DEF CCIInv, Streaming

LEMMA CCCrashKeeps ==
  ASSUME CCIInv, CCCrash
  PROVE  CCIInv'
<1>1. /\ streams' = <<>> /\ DOMAIN streams' = {} /\ making' = <<>> /\ DOMAIN making' = {}
      /\ sessions' = sessions /\ seen' = Unseen
  BY DEF CCCrash
<1>2. CCRows' BY <1>1 DEF CCIInv, CCTyped, CCRows
<1>3. CCBuffers'
  <2>1. <<>> \in Seq(ChatEvent) OBVIOUS
  <2> QED BY <1>1, <2>1 DEF CCBuffers, Unseen
<1>4. CCChats'
  <2>1. chat' = [c \in Chat |-> IF chat[c].pc \in Over THEN chat[c] ELSE [chat[c] EXCEPT !.pc = "gone"]]
    BY DEF CCCrash
  <2>2. SUFFICES ASSUME NEW c \in Chat
                 PROVE  /\ chat'[c] = Idle \/ chat'[c] \in ChatRow
                        /\ chat'[c].pc \in Streaming => chat'[c].parent \in Own(c)
    BY <2>1 DEF CCChats
  <2>3. CASE chat[c].pc \in Over BY <2>1, <2>3 DEF CCIInv, CCTyped, CCChats
  <2>4. CASE chat[c].pc \notin Over
    <3>1. PICK u \in ChatRow : u = chat[c] BY <2>4, Begun DEF Over
    <3>2. [u EXCEPT !.pc = "gone"] \in ChatRow /\ [u EXCEPT !.pc = "gone"].pc = "gone" BY DEF ChatRow
    <3>3. chat'[c] = [u EXCEPT !.pc = "gone"] BY <2>1, <2>4, <3>1
    <3> QED BY <3>2, <3>3 DEF Streaming
  <2> QED BY <2>3, <2>4
<1>5. StreamsTold' BY <1>1 DEF StreamsTold, Told, Unseen
<1> QED BY <1>2, <1>3, <1>4, <1>5 DEF CCIInv, CCTyped

LEMMA ResolvedAreThere == ASSUME NEW n PROVE Resolved(n) \subseteq DOMAIN sessions
  BY DEF Resolved, Exact, Matching

LEMMA ChatStepKeeps ==
  ASSUME CCIInv, NEW c \in Chat, ChatStep(c) \/ Disconnect(c)
  PROVE  CCIInv'
<1>1. CASE AskMessage(c) BY <1>1, StoreKeeps DEF AskMessage
<1>2. CASE OpenTurn(c) BY <1>2, OpenTurnKeeps
<1>3. CASE RawEvent(c) BY <1>3, RawEventKeeps
<1>4. CASE AgentEnds(c) BY <1>4, AgentEndsKeeps
<1>5. CASE SaveAnswer(c) BY <1>5, StoreKeeps DEF SaveAnswer
<1>6. CASE CloseTurn(c) BY <1>6, RowsStay, StepOn DEF CloseTurn, Streaming
<1>7. CASE MoveHead(c) BY <1>7, MoveHeadKeeps
<1>8. CASE LastEvent(c) BY <1>8, LastEventKeeps
<1>9. CASE LastStatus(c) BY <1>9, LastStatusKeeps
<1>10. CASE Disconnect(c) BY <1>10, RowsStay, StepOn DEF Disconnect, Over, Streaming
<1> QED BY <1>1, <1>2, <1>3, <1>4, <1>5, <1>6, <1>7, <1>8, <1>9, <1>10 DEF ChatStep

LEMMA CCInvariant == CCSpec => []CCIInv
<1>1. CCInit => CCIInv
  <2>1. SUFFICES ASSUME CCInit PROVE CCIInv OBVIOUS
  <2>2. /\ DOMAIN sessions = {} /\ DOMAIN making = {} /\ DOMAIN streams = {} /\ <<>> \in Seq(ChatEvent)
    <3>1. DOMAIN <<>> = {} OBVIOUS
    <3> QED BY <2>1, <3>1 DEF CCInit
  <2>3. \A c \in Chat : chat[c] = Idle /\ chat[c].pc = "off" BY <2>1 DEF CCInit, Idle
  <2>4. CCRows /\ CCChats /\ CCBuffers
    BY <2>1, <2>2, <2>3 DEF CCInit, CCRows, CCChats, CCBuffers, Unseen, Streaming
  <2> QED BY <2>1, <2>2, <2>4 DEF CCInit, CCIInv, CCTyped, StreamsTold, Told, Unseen
<1>2. ASSUME CCIInv, [CCNext]_ccVars PROVE CCIInv'
  <2>1. ASSUME NEW s \in Session, NEW n \in Name, Create(s, n) PROVE CCIInv'
    BY <1>2, <2>1, SessionCreateKeeps DEF Create
  <2>2. ASSUME NEW s \in Session, NEW n \in Name, NEW m \in Name, Fork(s, n, m) PROVE CCIInv'
    <3>1. PICK p \in DOMAIN sessions : SessionCreate(s, n, sessions[p].head) BY <2>2, ResolvedAreThere DEF Fork
    <3>2. sessions[p].head \in CCNode BY <1>2 DEF CCIInv, CCTyped, CCRows, SessionRow
    <3> QED BY <1>2, <3>1, <3>2, SessionCreateKeeps
  <2>3. ASSUME NEW s \in Session, InsertSession(s) \/ ForkHead(s) \/ Delete(s) PROVE CCIInv'
    BY <1>2, <2>3, InsertSessionKeeps, ForkHeadKeeps, DeleteKeeps
  <2>4. ASSUME NEW c \in Chat, NEW eph \in BOOLEAN, NEW x, ChatByName(c, x, eph) \/ ChatById(c, x, eph)
        PROVE  CCIInv'
    <3>1. \E s \in DOMAIN sessions : StartChat(c, s, eph) BY <2>4, ResolvedAreThere DEF ChatByName, ChatById
    <3> QED BY <1>2, <3>1, StartChatKeeps
  <2>5. ASSUME NEW c \in Chat, ChatStep(c) \/ Disconnect(c) PROVE CCIInv' BY <1>2, <2>5, ChatStepKeeps
  <2>6. ASSUME NEW c \in Chat, NEW k \in Limit, Poll(c, k) PROVE CCIInv'
    BY <1>2, <2>6, PollKeeps, ClaudeCodeAssumption
  <2>7. CASE CCCrash BY <1>2, <2>7, CCCrashKeeps
  <2>8. CASE UNCHANGED ccVars
    BY <1>2, <2>8 DEF ccVars, CCIInv, CCTyped, CCRows, CCChats, CCBuffers, StreamsTold, Told
  <2> QED BY <1>2, <2>1, <2>2, <2>3, <2>4, <2>5, <2>6, <2>7, <2>8 DEF CCNext
<1> QED BY <1>1, <1>2, PTL DEF CCSpec

\* For any number of sessions and chats: what the rows, the local variables of chats
\* and the buffers hold.
THEOREM ChatsKeepTheirTypes == CCSpec => []CCTyped
<1>1. CCIInv => CCTyped BY DEF CCIInv
<1> QED BY <1>1, CCInvariant, PTL

\* stream_push_event, stream_set_status and stream_poll: for any number of chats,
\* pollers and limits, a client that is told that a stream is over has been given all
\* of it, and the last event is among it.
THEOREM NothingComesAfterTheEnd == CCSpec => []NothingAfterTheEnd
<1>1. CCIInv => NothingAfterTheEnd
  <2>1. SUFFICES ASSUME CCIInv, NEW c \in Async, seen[c].over
                 PROVE  /\ seen[c].events = streams[c].events
                        /\ \E i \in DOMAIN seen[c].events : seen[c].events[i] \in {"complete", "err"}
    BY DEF NothingAfterTheEnd
  <2>2. Told(c) BY <2>1 DEF CCIInv, StreamsTold
  <2>3. c \in DOMAIN streams BY <2>1, <2>2 DEF Told
  <2>4. streams[c].events \in Seq(ChatEvent) BY <2>1, <2>3 DEF CCIInv, CCTyped, CCBuffers, BufferRow
  <2>5. Heard(streams[c], seen[c], chat[c].pc) BY <2>2, <2>3 DEF Told
  <2>6. seen[c].events = streams[c].events BY <2>1, <2>4, <2>5, SubSeqFull DEF Heard
  <2> QED BY <2>1, <2>5, <2>6 DEF Heard, LastPushed
<1> QED BY <1>1, CCInvariant, PTL
-----------------------------------------------------------------------------
(***************************************************************************)
(* ClaudeCode: what is on the way to a head. A chat appends a chain of its *)
(* own nodes below the head it read, and moves the head only when the      *)
(* chain has its answer.                                                   *)
(***************************************************************************)
\* The nodes on the path of a node: itself and those on the path of its parent.
LEMMA OnPathUnfolds ==
  ASSUME NEW ns, Ranked(ns), NEW n \in DOMAIN ns
  PROVE  /\ OnPath(ns, n) = IF ns[n].parent \in DOMAIN ns THEN OnPath(ns, ns[n].parent) \cup {n} ELSE {n}
         /\ n \in OnPath(ns, n) /\ OnPath(ns, n) \subseteq DOMAIN ns
<1>1. PICK path \in Seq(DOMAIN ns) : path = Path(ns, n) BY PathTyped
<1>2. OnPath(ns, n) = {path[i] : i \in 1 .. Len(path)}
  <2>1. DOMAIN path = 1 .. Len(path) OBVIOUS
  <2> QED BY <1>1, <2>1 DEF OnPath
<1>3. OnPath(ns, n) \subseteq DOMAIN ns
  <2>1. \A i \in 1 .. Len(path) : path[i] \in DOMAIN ns OBVIOUS
  <2> QED BY <1>2, <2>1
<1>4. CASE ns[n].parent \in DOMAIN ns
  <2>1. PICK p : p = ns[n].parent OBVIOUS
  <2>2. PICK up \in Seq(DOMAIN ns) : up = Path(ns, p) BY <1>4, <2>1, PathTyped
  <2>3. path = Append(up, n) BY <1>1, <1>4, <2>1, <2>2, PathUnfolds
  <2>4. OnPath(ns, p) = {up[i] : i \in 1 .. Len(up)}
    <3>1. DOMAIN up = 1 .. Len(up) OBVIOUS
    <3> QED BY <2>2, <3>1 DEF OnPath
  <2>5. Len(path) = Len(up) + 1 /\ path[Len(up) + 1] = n /\ \A i \in 1 .. Len(up) : path[i] = up[i]
    BY <2>3
  <2>6. 1 .. Len(path) = (1 .. Len(up)) \cup {Len(up) + 1} BY <2>5
  <2>7. OnPath(ns, n) = OnPath(ns, p) \cup {n} BY <1>2, <2>4, <2>5, <2>6
  <2> QED BY <1>3, <1>4, <2>1, <2>7
<1>5. CASE ns[n].parent \notin DOMAIN ns
  <2>1. path = <<n>> BY <1>1, <1>5, PathUnfolds
  <2>2. Len(path) = 1 /\ path[1] = n BY <2>1
  <2>3. OnPath(ns, n) = {n} BY <1>2, <2>2
  <2> QED BY <1>3, <1>5, <2>3
<1> QED BY <1>4, <1>5

\* The rows ms are the rows ns with some leaves more.
Extends(ns, ms) ==
    /\ Forest(ms) /\ DOMAIN ns \subseteq DOMAIN ms
    /\ \A m \in DOMAIN ns : ms[m] = ns[m] /\ Path(ms, m) = Path(ns, m)

\* No node more, or one after the other.
LEMMA ExtendsItself == ASSUME NEW ns, Forest(ns) PROVE Extends(ns, ns) BY DEF Extends

LEMMA ExtendsOn ==
  ASSUME NEW ns, NEW ms, NEW ls, Extends(ns, ms), Extends(ms, ls)
  PROVE  Extends(ns, ls)
  BY DEF Extends

\* A node below one that is there, or a root.
LEMMA AddExtends ==
  ASSUME NEW ns, NEW n, NEW t, NEW p, NEW k, Forest(ns), n \notin DOMAIN ns, n # NoNode,
         p \in DOMAIN ns \cup {NoNode}
  PROVE  Extends(ns, Add(ns, n, t, p, k))
<1>1. PICK ms : ms = Add(ns, n, t, p, k) OBVIOUS
<1>2. Forest(ms) BY <1>1, AddForest
<1>3. \A m \in DOMAIN ns : Path(ms, m) = Path(ns, m) BY <1>1, AddKeepsPaths
<1>4. DOMAIN ns \subseteq DOMAIN ms /\ \A m \in DOMAIN ns : ms[m] = ns[m] BY <1>1 DEF Add
<1> QED BY <1>1, <1>2, <1>3, <1>4 DEF Extends

\* A leaf below p: what is on its path.
LEMMA AddOnPath ==
  ASSUME NEW ns, NEW n, NEW t, NEW p, NEW k, Forest(ns), n \notin DOMAIN ns, n # NoNode, p \in DOMAIN ns
  PROVE  OnPath(Add(ns, n, t, p, k), n) = OnPath(ns, p) \cup {n}
<1>1. PICK ms : ms = Add(ns, n, t, p, k) OBVIOUS
<1>2. Extends(ns, ms) BY <1>1, AddExtends
<1>3. n \in DOMAIN ms /\ ms[n].parent = p /\ p \in DOMAIN ms
  BY <1>1 DEF Add
<1>5. OnPath(ms, p) = OnPath(ns, p) BY <1>2 DEF Extends, OnPath
<1>4. Ranked(ms) BY <1>2 DEF Extends, Forest
<1> QED BY <1>1, <1>3, <1>4, <1>5, OnPathUnfolds

\* What was whole, or between, stays so when the forest grows.
LEMMA ExtendsKeeps ==
  ASSUME NEW ns, NEW ms, Ranked(ns), Extends(ns, ms), NEW h
  PROVE  /\ h \in DOMAIN ns => OnPath(ms, h) = OnPath(ns, h)
         /\ Whole(ns, h) => Whole(ms, h)
         /\ \A c, n : Whole(ns, h) /\ Between(ns, c, h, n) => Between(ms, c, h, n)
<1>1. \A m \in DOMAIN ns : OnPath(ms, m) = OnPath(ns, m) /\ OnPath(ns, m) \subseteq DOMAIN ns
  BY OnPathUnfolds DEF OnPath, Extends
<1>2. ASSUME Whole(ns, h) PROVE Whole(ms, h) BY <1>1, <1>2 DEF Whole, Extends
<1>3. ASSUME NEW c, NEW n, Whole(ns, h), Between(ns, c, h, n) PROVE Between(ms, c, h, n)
  BY <1>1, <1>3 DEF Whole, Between, Extends
<1> QED BY <1>1, <1>2, <1>3

\* So does what a chat has added, when others add their nodes.
LEMMA GrownStays ==
  ASSUME NEW ns, NEW ms, Ranked(ns), Extends(ns, ms), NEW c, NEW u, Grown(ns, c, u),
         DOMAIN ms \cap Own(c) = DOMAIN ns \cap Own(c)
  PROVE  Grown(ms, c, u)
<1>1. u.pc # "off" => Whole(ms, u.head) /\ Root(u.session) \in DOMAIN ms
  BY ExtendsKeeps DEF Grown, Extends
<1>2. u.pc \in Streaming => Between(ms, c, u.head, u.parent) BY ExtendsKeeps DEF Grown, Streaming
<1>3. u.pc = "head" => Between(ms, c, u.head, Answer(c)) BY ExtendsKeeps DEF Grown
<1>4. \A n \in DOMAIN ms \cap Own(c) : n \in DOMAIN ns /\ ms[n] = ns[n] BY DEF Extends
<1> QED BY <1>1, <1>2, <1>3, <1>4 DEF Grown

\* The answer of a chat that began at a whole head is whole.
LEMMA AnswerWhole ==
  ASSUME NEW ns, NEW c \in Chat, NEW h, Ranked(ns), Whole(ns, h), Between(ns, c, h, Answer(c)),
         \A n \in DOMAIN ns \cap Own(c) : ns[n].kind # "ephemeral"
  PROVE  Whole(ns, Answer(c))
<1>1. Answer(c) \in DOMAIN ns /\ Answer(c) \in OnPath(ns, Answer(c)) /\ OnPath(ns, Answer(c)) \subseteq DOMAIN ns
  BY OnPathUnfolds DEF Between
<1>2. \A n \in Own(c) : n[1] = c BY DEF Own
<1> QED BY <1>1, <1>2 DEF Whole, Between

\* The inductive invariant of the history.
HistIInv == CCIInv /\ Forest(ccNodes) /\ HeadsWhole /\ TurnsGrow

\* The nodes of two chats, and of chats and sessions, are apart.
LEMMA OwnApart ==
  /\ \A c, d : c # d => Own(c) \cap Own(d) = {}
  /\ \A s, c : Root(s) \notin Own(c)
<1>1. \A c, d : c # d => Own(c) \cap Own(d) = {} BY DEF Own
<1>2. ASSUME NEW s, NEW c PROVE Root(s) \notin Own(c)
  <2>1. \A i : Len(<<s>>) = 1 /\ Len(<<c, i>>) = 2 OBVIOUS
  <2>2. \A i : <<s>> # <<c, i>> BY <2>1
  <2> QED BY <2>2 DEF Own, Root
<1> QED BY <1>1, <1>2

\* The heads after a step: the same, or whole.
LEMMA HeadsGo ==
  ASSUME HistIInv, Extends(ccNodes, ccNodes'),
         \A s \in DOMAIN sessions' :
            \/ s \in DOMAIN sessions /\ sessions'[s].head = sessions[s].head
            \/ Whole(ccNodes', sessions'[s].head) /\ Whole(ccNodes', Root(s)),
         \A s \in DOMAIN making' :
            \/ s \in DOMAIN making /\ making'[s].head = making[s].head
            \/ /\ Whole(ccNodes', Root(s))
               /\ making'[s].head # NoNode => Whole(ccNodes', making'[s].head)
  PROVE  HeadsWhole'
<1>1. \A h : Whole(ccNodes, h) => Whole(ccNodes', h) BY ExtendsKeeps DEF HistIInv, Forest
<1> QED BY <1>1 DEF HistIInv, HeadsWhole

\* No head and no call changes.
LEMMA HeadsRest ==
  ASSUME HistIInv, Extends(ccNodes, ccNodes'), UNCHANGED <<sessions, making>>
  PROVE  HeadsWhole'
  BY HeadsGo

\* The chats after a step of one of them, which adds nodes of its own or none.
LEMMA OneTurn ==
  ASSUME HistIInv, Extends(ccNodes, ccNodes'), NEW c \in Chat, NEW v,
         chat' = [chat EXCEPT ![c] = v], DOMAIN ccNodes' \subseteq DOMAIN ccNodes \cup Own(c),
         Grown(ccNodes', c, v)
  PROVE  TurnsGrow'
<1>1. DOMAIN ccNodes' \subseteq CCNode BY CCIds DEF HistIInv, TurnsGrow, CCNode, Own
<1>2. ASSUME NEW d \in Chat PROVE Grown(ccNodes', d, chat'[d])
  <2>1. CASE d = c BY <2>1 DEF HistIInv, CCIInv, CCTyped, CCChats
  <2>2. CASE d # c
    <3>1. chat'[d] = chat[d] BY <2>2 DEF HistIInv, CCIInv, CCTyped, CCChats
    <3>2. DOMAIN ccNodes' \cap Own(d) = DOMAIN ccNodes \cap Own(d) BY <2>2, OwnApart DEF Extends
    <3> QED BY <3>1, <3>2, GrownStays DEF HistIInv, TurnsGrow, Forest
  <2> QED BY <2>1, <2>2
<1> QED BY <1>1, <1>2 DEF TurnsGrow

\* And after one of a call.
LEMMA NoTurn ==
  ASSUME HistIInv, Extends(ccNodes, ccNodes'), chat' = chat,
         ccNodes' = ccNodes \/ \E s \in Session : DOMAIN ccNodes' = DOMAIN ccNodes \cup {Root(s)}
  PROVE  TurnsGrow'
<1>0. DOMAIN ccNodes' \subseteq DOMAIN ccNodes \cup {Root(s) : s \in Session} OBVIOUS
<1>1. DOMAIN ccNodes' \subseteq CCNode BY <1>0 DEF HistIInv, TurnsGrow, CCNode
<1>2. ASSUME NEW d \in Chat PROVE Grown(ccNodes', d, chat[d])
  <2>1. DOMAIN ccNodes' \cap Own(d) = DOMAIN ccNodes \cap Own(d)
    <3>1. {Root(s) : s \in Session} \cap Own(d) = {} BY OwnApart
    <3> QED BY <1>0, <3>1 DEF Extends
  <2> QED BY <2>1, GrownStays DEF HistIInv, TurnsGrow, Forest
<1> QED BY <1>1, <1>2 DEF TurnsGrow

\* From the local variables u to v, when no node is added.
Slides(u, v) ==
    /\ u.pc # "off" /\ v.pc \notin {"off", "ask", "head"}
    /\ v.eph = u.eph /\ v.session = u.session /\ v.head = u.head /\ v.parent = u.parent
    /\ v.pc = "open" => u.pc = "ask"
    /\ v.pc \in Streaming => u.pc \in Streaming

\* Such a step adds nothing and loses nothing.
LEMMA SlideGrown ==
  ASSUME NEW ns, NEW c, NEW u, NEW v, Grown(ns, c, u), Slides(u, v)
  PROVE  Grown(ns, c, v)
  BY DEF Grown, Slides

\* And so with all chats.
LEMMA SlideKeeps ==
  ASSUME HistIInv, NEW c \in Chat, NEW v, chat' = [chat EXCEPT ![c] = v], ccNodes' = ccNodes,
         Slides(chat[c], v)
  PROVE  TurnsGrow' /\ Extends(ccNodes, ccNodes')
<1>1. Extends(ccNodes, ccNodes') BY ExtendsItself DEF HistIInv
<1>2. Grown(ccNodes', c, v) BY SlideGrown DEF HistIInv, TurnsGrow
<1> QED BY <1>1, <1>2, OneTurn

\* The invariant without its types, after a step.
HistStep == Extends(ccNodes, ccNodes') /\ HeadsWhole' /\ TurnsGrow'

\* One lemma per action.
LEMMA SessionCreateHist ==
  ASSUME HistIInv, NEW s \in Session, NEW n, NEW h, SessionCreate(s, n, h),
         h = NoNode \/ Whole(ccNodes, h)
  PROVE  HistStep
<1>1. PICK x : x = Root(s) OBVIOUS
<1>2. x \in CCNode /\ x # NoNode /\ x \notin DOMAIN ccNodes BY <1>1, CCIds DEF SessionCreate
<1>3. PICK k, p : k = "root" /\ p = NoNode OBVIOUS
<1>4. ccNodes' = Add(ccNodes, x, s, p, k) BY <1>1, <1>3 DEF SessionCreate
<1>5. Extends(ccNodes, ccNodes') BY <1>2, <1>3, <1>4, AddExtends DEF HistIInv
<1>6. DOMAIN ccNodes' = DOMAIN ccNodes \cup {x} /\ ccNodes'[x].parent = NoNode /\ ccNodes'[x].kind = "root"
  BY <1>3, <1>4 DEF Add
<1>7. Whole(ccNodes', x)
  <2>1. NoNode \notin DOMAIN ccNodes' BY <1>5 DEF Extends, Forest
  <2>2. OnPath(ccNodes', x) = {x} BY <1>5, <1>6, <2>1, OnPathUnfolds DEF Extends, Forest
  <2> QED BY <1>6, <2>2 DEF Whole
<1>8. h # NoNode => Whole(ccNodes', h) BY <1>5, ExtendsKeeps DEF HistIInv, Forest
<1>9. TurnsGrow' BY <1>1, <1>5, <1>6, NoTurn DEF SessionCreate
<1>10. HeadsWhole'
  <2>1. sessions' = sessions BY DEF SessionCreate
  <2>2. \A u \in DOMAIN making' : /\ u # s => u \in DOMAIN making /\ making'[u].head = making[u].head
                                  /\ u = s => making'[u].head = h
    BY DEF SessionCreate, Put
  <2> QED BY <1>1, <1>5, <1>7, <1>8, <2>1, <2>2, HeadsGo
<1> QED BY <1>5, <1>9, <1>10 DEF HistStep

\* A step of a call that adds no node.
LEMMA NothingAdded ==
  ASSUME HistIInv, ccNodes' = ccNodes, chat' = chat
  PROVE  Extends(ccNodes, ccNodes') /\ TurnsGrow'
  BY NoTurn, ExtendsItself DEF HistIInv

LEMMA InsertSessionHist ==
  ASSUME HistIInv, NEW s \in Session, InsertSession(s)
  PROVE  HistStep
<1>1. ccNodes' = ccNodes /\ chat' = chat BY DEF InsertSession
<1>2. Whole(ccNodes, Root(s)) BY DEF InsertSession, HistIInv, HeadsWhole
<1>3. \A u \in DOMAIN sessions' : /\ u # s => u \in DOMAIN sessions /\ sessions'[u].head = sessions[u].head
                                  /\ u = s => sessions'[u].head = Root(s)
  BY DEF InsertSession, Put
<1>4. \A u \in DOMAIN making' : u \in DOMAIN making /\ making'[u].head = making[u].head
  <2>1. CASE making' = Without(making, {s}) BY <2>1 DEF Without
  <2>2. CASE making' = [making EXCEPT ![s].inserted = TRUE]
    <3>1. PICK m \in MakingRow : m = making[s] BY DEF InsertSession, HistIInv, CCIInv, CCTyped, CCRows
    <3>2. PICK d : d = [m EXCEPT !.inserted = TRUE] OBVIOUS
    <3>3. d.head = m.head BY <3>2 DEF MakingRow
    <3>4. making' = [making EXCEPT ![s] = d] BY <2>2, <3>1, <3>2
    <3> QED BY <3>1, <3>3, <3>4 DEF HistIInv, CCIInv, CCTyped, CCRows
  <2> QED BY <2>1, <2>2 DEF InsertSession
<1>5. HeadsWhole' BY <1>1, <1>2, <1>3, <1>4, NothingAdded, HeadsGo
<1> QED BY <1>1, <1>5, NothingAdded, ExtendsItself DEF HistStep, HistIInv

LEMMA ForkHeadHist ==
  ASSUME HistIInv, NEW s \in Session, ForkHead(s)
  PROVE  HistStep
<1>1. ccNodes' = ccNodes /\ chat' = chat BY DEF ForkHead
<1>2. PICK h : h = making[s].head OBVIOUS
<1>3. Whole(ccNodes, h) /\ h \in CCNode
  BY <1>2 DEF ForkHead, HistIInv, HeadsWhole, CCIInv, CCTyped, CCRows, MakingRow
<1>4. \A u \in DOMAIN sessions' :
         \/ u \in DOMAIN sessions /\ sessions'[u].head = sessions[u].head
         \/ u \in DOMAIN sessions /\ sessions'[u].head = h
  <2>1. CASE s \in DOMAIN sessions
    <3>1. sessions' = Headed(s, h, NoNode) BY <1>2, <2>1 DEF ForkHead
    <3>2. /\ Headed(s, h, NoNode) \in [DOMAIN sessions -> SessionRow]
          /\ Headed(s, h, NoNode)[s].head = h
          /\ \A u \in DOMAIN sessions : u # s => Headed(s, h, NoNode)[u] = sessions[u]
      BY <1>3, <2>1, HeadedTyped, CCIds DEF HistIInv, CCIInv, CCTyped
    <3> QED BY <3>1, <3>2
  <2>2. CASE s \notin DOMAIN sessions BY <2>2 DEF ForkHead
  <2> QED BY <2>1, <2>2
<1>5. \A u \in DOMAIN making' : u \in DOMAIN making /\ making'[u].head = making[u].head
  BY DEF ForkHead, Without
<1>6. HeadsWhole'
  <2>1. Whole(ccNodes', h) /\ \A u \in DOMAIN sessions : Whole(ccNodes', Root(u))
    BY <1>1, <1>3 DEF HistIInv, HeadsWhole
  <2> QED BY <1>1, <1>4, <1>5, <2>1, NothingAdded, HeadsGo
<1> QED BY <1>1, <1>6, NothingAdded, ExtendsItself DEF HistStep, HistIInv

LEMMA DeleteHist ==
  ASSUME HistIInv, NEW s, Delete(s)
  PROVE  HistStep
<1>1. ccNodes' = ccNodes /\ chat' = chat /\ making' = making BY DEF Delete
<1>2. \A u \in DOMAIN sessions' : u \in DOMAIN sessions /\ sessions'[u].head = sessions[u].head
  BY DEF Delete, Without
<1>3. HeadsWhole' BY <1>1, <1>2, NothingAdded, HeadsGo
<1> QED BY <1>1, <1>3, NothingAdded, ExtendsItself DEF HistStep, HistIInv

LEMMA StartChatHist ==
  ASSUME HistIInv, NEW c \in Chat, NEW s \in DOMAIN sessions, NEW eph \in BOOLEAN, StartChat(c, s, eph)
  PROVE  HistStep
<1>1. PICK r : r = sessions[s] OBVIOUS
<1>2. PICK v : v = [pc |-> "ask", eph |-> eph, session |-> s, tree |-> r.tree, head |-> r.head,
                    oldSid |-> r.sid, sid |-> r.sid, parent |-> r.head,
                    text |-> FALSE, todo |-> <<>>, ok |-> TRUE]
  OBVIOUS
<1>3. /\ chat' = [chat EXCEPT ![c] = v] /\ chat[c].pc = "off" /\ ccNodes' = ccNodes
      /\ UNCHANGED <<sessions, making>>
  BY <1>1, <1>2 DEF StartChat
<1>4. v.pc = "ask" /\ v.head = r.head /\ v.session = s BY <1>2
<1>5. Whole(ccNodes, r.head) /\ Whole(ccNodes, Root(s)) BY <1>1 DEF HistIInv, HeadsWhole
<1>6. DOMAIN ccNodes \cap Own(c) = {} BY <1>3 DEF HistIInv, TurnsGrow, Grown
<1>7. Grown(ccNodes, c, v) BY <1>4, <1>5, <1>6 DEF Grown, Whole, Streaming
<1>8. Extends(ccNodes, ccNodes') BY <1>3, ExtendsItself DEF HistIInv
<1> QED BY <1>3, <1>7, <1>8, OneTurn, HeadsRest, ExtendsItself DEF HistStep, HistIInv

\* A step of a chat that only moves its control point.
LEMMA StepOnHist ==
  ASSUME HistIInv, NEW c \in Chat, chat[c].pc # "off", ccNodes' = ccNodes,
         NEW pc \in {"open", "save", "close", "closing", "ending", "done", "failed", "gone"},
         pc \in Streaming => chat[c].pc \in Streaming, pc = "open" => chat[c].pc = "ask",
         Goto(c, pc) \/ Fail(c)
  PROVE  TurnsGrow' /\ Extends(ccNodes, ccNodes')
<1>1. PICK u \in ChatRow : u = chat[c] BY Begun DEF HistIInv
<1>2. CASE Goto(c, pc)
  <2>1. PICK v : v = [u EXCEPT !.pc = pc] OBVIOUS
  <2>2. Slides(u, v) BY <1>1, <2>1 DEF Slides, ChatRow
  <2>3. chat' = [chat EXCEPT ![c] = v] BY <1>1, <1>2, <2>1 DEF Goto
  <2> QED BY <1>1, <2>2, <2>3, SlideKeeps
<1>3. CASE Fail(c)
  <2>1. PICK v : v = [u EXCEPT !.pc = "closing", !.ok = FALSE] OBVIOUS
  <2>2. Slides(u, v) BY <1>1, <2>1 DEF Slides, ChatRow, Streaming
  <2>3. chat' = [chat EXCEPT ![c] = v]
    BY <1>1, <1>3, <2>1 DEF Fail, HistIInv, CCIInv, CCTyped, CCChats
  <2> QED BY <1>1, <2>2, <2>3, SlideKeeps
<1> QED BY <1>2, <1>3

\* One node more of a chat, below one that has only its own nodes above its head.
LEMMA AddOwn ==
  ASSUME NEW ns, NEW ms, NEW c \in Chat, NEW i \in Nat, NEW n, NEW t, NEW p, NEW k, NEW h,
         Forest(ns), n = <<c, i>>, n \notin DOMAIN ns, Whole(ns, h), Between(ns, c, h, p),
         ms = Add(ns, n, t, p, k)
  PROVE  /\ Extends(ns, ms) /\ Forest(ms) /\ DOMAIN ms = DOMAIN ns \cup {n} /\ ms[n].kind = k
         /\ \A m \in DOMAIN ns : ms[m] = ns[m]
         /\ Whole(ms, h) /\ Between(ms, c, h, n)
<1>1. n \in Own(c) /\ n # NoNode BY CCIds
<1>2. p \in DOMAIN ns BY DEF Between
<1>3. Extends(ns, ms) BY <1>1, <1>2, AddExtends
<1>4. DOMAIN ms = DOMAIN ns \cup {n} /\ ms[n].kind = k /\ \A m \in DOMAIN ns : ms[m] = ns[m] BY DEF Add
<1>5. OnPath(ms, n) = OnPath(ns, p) \cup {n} BY <1>1, <1>2, AddOnPath
<1>6. Whole(ms, h) /\ OnPath(ms, h) = OnPath(ns, h) BY <1>3, ExtendsKeeps DEF Forest, Whole
<1>7. Between(ms, c, h, n) BY <1>1, <1>4, <1>5, <1>6 DEF Between
<1> QED BY <1>3, <1>4, <1>6, <1>7 DEF Extends

LEMMA OpenTurnHist ==
  ASSUME HistIInv, NEW c \in Chat, OpenTurn(c)
  PROVE  HistStep
<1>1. PICK u \in ChatRow : u = chat[c] BY Begun DEF OpenTurn, HistIInv
<1>2. u.pc = "open" /\ Grown(ccNodes, c, u) BY <1>1 DEF OpenTurn, HistIInv, TurnsGrow
<1>3. PICK h : h = u.head OBVIOUS
<1>4. Whole(ccNodes, h) /\ Root(u.session) \in DOMAIN ccNodes /\ DOMAIN ccNodes \cap Own(c) = {}
  BY <1>2, <1>3 DEF Grown
<1>5. Between(ccNodes, c, h, h) BY <1>4 DEF Between, Whole
<1>6. PICK q, m, n : q = <<c, 0>> /\ m = <<c, 2>> /\ n = <<c, 3>> OBVIOUS
<1>7. PICK k : k = Kind(c, "user") OBVIOUS
<1>8. ~u.eph => k = "user" BY <1>1, <1>7 DEF Kind, Ephemeral
<1>9. q \in Own(c) /\ m \in Own(c) /\ n \in Own(c) /\ q # m /\ q # n /\ m # n BY <1>6, CCIds
<1>10. PICK t : t = u.tree OBVIOUS
<1>11. PICK n1 : n1 = Add(ccNodes, q, t, h, k) OBVIOUS
<1>12. PICK n2 : n2 = Add(n1, m, t, q, "user_message") OBVIOUS
<1>13. PICK n3 : n3 = Add(n2, n, t, m, "assistant_start") OBVIOUS
<1>14. ccNodes' = n3 BY <1>1, <1>3, <1>6, <1>7, <1>10, <1>11, <1>12, <1>13 DEF OpenTurn, Asked
<1>15. /\ Extends(ccNodes, n1) /\ Forest(n1) /\ DOMAIN n1 = DOMAIN ccNodes \cup {q} /\ n1[q].kind = k
       /\ Whole(n1, h) /\ Between(n1, c, h, q)
  <2>1. q \notin DOMAIN ccNodes /\ Forest(ccNodes) BY <1>4, <1>9 DEF HistIInv
  <2> QED BY <1>4, <1>5, <1>6, <1>11, <2>1, AddOwn
<1>16. /\ Extends(n1, n2) /\ Forest(n2) /\ DOMAIN n2 = DOMAIN n1 \cup {m} /\ n2[m].kind = "user_message"
       /\ \A x \in DOMAIN n1 : n2[x] = n1[x]
       /\ Whole(n2, h) /\ Between(n2, c, h, m)
  <2>1. m \notin DOMAIN n1 BY <1>4, <1>9, <1>15
  <2>2. PICK i \in Nat, l \in {"user_message"} : i = 2 /\ l = "user_message" OBVIOUS
  <2>3. m = <<c, i>> /\ n2 = Add(n1, m, t, q, l) BY <1>6, <1>12, <2>2
  <2> QED BY <1>15, <2>1, <2>2, <2>3, AddOwn, SMTT(30)
<1>17. /\ Extends(n2, n3) /\ Forest(n3) /\ DOMAIN n3 = DOMAIN n2 \cup {n} /\ n3[n].kind = "assistant_start"
       /\ \A x \in DOMAIN n2 : n3[x] = n2[x]
       /\ Whole(n3, h) /\ Between(n3, c, h, n)
  <2>1. n \notin DOMAIN n2 BY <1>4, <1>9, <1>15, <1>16
  <2> QED BY <1>6, <1>13, <1>16, <2>1, AddOwn
<1>18. Extends(ccNodes, ccNodes') BY <1>14, <1>15, <1>16, <1>17, ExtendsOn
<1>19. PICK script \in Script[c] :
         chat' = [chat EXCEPT ![c].pc = "stream", ![c].parent = <<c, 3>>, ![c].todo = script]
  BY DEF OpenTurn
<1>20. PICK v : v = [u EXCEPT !.pc = "stream", !.parent = n, !.todo = script] OBVIOUS
<1>21. chat' = [chat EXCEPT ![c] = v]
  BY <1>1, <1>6, <1>19, <1>20 DEF HistIInv, CCIInv, CCTyped, CCChats
<1>22. v.pc = "stream" /\ v.parent = n /\ v.head = h /\ v.session = u.session /\ v.eph = u.eph
  BY <1>3, <1>20 DEF ChatRow
<1>23. DOMAIN n3 \cap Own(c) = {q, m, n} BY <1>4, <1>9, <1>15, <1>16, <1>17
<1>24. Grown(n3, c, v)
  <2>1. n[2] = 3 /\ q[2] = 0 /\ m[2] = 2 /\ q # Answer(c) /\ m # Answer(c) /\ n # Answer(c)
    BY <1>6 DEF Answer
  <2>2. n3[q].kind = k /\ n3[m].kind = "user_message" /\ n3[n].kind = "assistant_start"
    BY <1>15, <1>16, <1>17
  <2>3. \A x \in DOMAIN n3 \cap Own(c) : x[2] <= n[2] /\ x # Answer(c) BY <1>23, <2>1
  <2>4. ~v.eph => \A x \in DOMAIN n3 \cap Own(c) : n3[x].kind # "ephemeral" BY <1>8, <1>22, <1>23, <2>2
  <2>5. Root(v.session) \in DOMAIN n3 BY <1>4, <1>15, <1>16, <1>17, <1>22
  <2> QED BY <1>17, <1>22, <2>1, <2>3, <2>4, <2>5 DEF Grown, Streaming
<1>25. DOMAIN n3 \subseteq DOMAIN ccNodes \cup Own(c) BY <1>9, <1>15, <1>16, <1>17
<1>26. TurnsGrow' BY <1>14, <1>18, <1>21, <1>24, <1>25, OneTurn
<1> QED BY <1>18, <1>26, HeadsRest DEF HistStep, OpenTurn

LEMMA RawEventHist ==
  ASSUME HistIInv, NEW c \in Chat, RawEvent(c)
  PROVE  HistStep
<1>1. PICK u \in ChatRow : u = chat[c] BY Begun DEF RawEvent, HistIInv
<1>2. u.pc = "stream" /\ u.parent \in Own(c) /\ Grown(ccNodes, c, u)
  BY <1>1 DEF RawEvent, HistIInv, CCIInv, CCTyped, CCChats, Streaming, TurnsGrow
<1>3. PICK e : e = Head(u.todo) OBVIOUS
<1>4. UNCHANGED <<sessions, making>> BY DEF RawEvent
<1>5. CASE e = "error"
  <2>1. Fail(c) /\ ccNodes' = ccNodes BY <1>1, <1>3, <1>5 DEF RawEvent, Noded
  <2>2. TurnsGrow' /\ Extends(ccNodes, ccNodes') BY <1>1, <1>2, <2>1, StepOnHist DEF Streaming
  <2> QED BY <1>4, <2>1, <2>2, HeadsRest, ExtendsItself DEF HistStep, HistIInv
<1>6. CASE e # "error"
  <2>1. PICK n : n = Below(c) OBVIOUS
  <2>2. PICK x, y, z, w : /\ x = Tail(u.todo) /\ y = (u.text \/ e \in {"text", "block"})
                          /\ z = IF e = "sid" THEN c ELSE u.sid
                          /\ w = IF Noded(c, e) THEN n ELSE u.parent
    OBVIOUS
  <2>3. PICK v : v = [u EXCEPT !.todo = x, !.text = y, !.sid = z, !.parent = w] OBVIOUS
  <2>4. chat' = [chat EXCEPT ![c] = v]
    <3>1. chat' = [chat EXCEPT ![c] =
              [chat[c] EXCEPT !.todo = Tail(@), !.text = @ \/ e \in {"text", "block"},
                              !.sid = IF e = "sid" THEN c ELSE @,
                              !.parent = IF Noded(c, e) THEN Below(c) ELSE @]]
      BY <1>1, <1>3, <1>6 DEF RawEvent
    <3> QED BY <1>1, <2>1, <2>2, <2>3, <3>1
  <2>5. v.pc = "stream" /\ v.head = u.head /\ v.session = u.session /\ v.eph = u.eph /\ v.parent = w
    BY <1>2, <2>3 DEF ChatRow
  <2>6. CASE Noded(c, e)
    <3>1. PICK j \in Nat : j = u.parent[2] BY <1>2 DEF Own
    <3>2. n = <<c, j + 1>> /\ n \in Own(c) /\ n[2] = j + 1 /\ j + 1 \in Nat /\ j > 2
      BY <1>1, <1>2, <2>1, <3>1, CCIds DEF Below, Grown, Streaming
    <3>3. n \notin DOMAIN ccNodes
      <4>1. \A y1 \in DOMAIN ccNodes \cap Own(c) : y1[2] <= j BY <1>2, <3>1 DEF Grown, Streaming
      <4> QED BY <3>2, <4>1
    <3>4. PICK h : h = u.head OBVIOUS
    <3>5. Whole(ccNodes, h) /\ Between(ccNodes, c, h, u.parent) BY <1>2, <3>4 DEF Grown, Streaming
    <3>6. PICK t, p : t = u.tree /\ p = u.parent OBVIOUS
    <3>7. ccNodes' = Add(ccNodes, n, t, p, e) BY <1>1, <1>3, <2>1, <2>6, <3>6 DEF RawEvent
    <3>8. PICK ms : ms = ccNodes' OBVIOUS
    <3>9. /\ Extends(ccNodes, ms) /\ Forest(ms) /\ DOMAIN ms = DOMAIN ccNodes \cup {n} /\ ms[n].kind = e
          /\ \A m \in DOMAIN ccNodes : ms[m] = ccNodes[m]
          /\ Whole(ms, h) /\ Between(ms, c, h, n)
      BY <3>2, <3>3, <3>5, <3>6, <3>7, <3>8, AddOwn DEF HistIInv
    <3>10. Grown(ms, c, v)
      <4>1. e # "ephemeral" BY <2>6 DEF Noded
      <4>2. n # Answer(c) BY <3>2 DEF Answer
      <4>3. \A m \in DOMAIN ms \cap Own(c) : m[2] <= j + 1 /\ m # Answer(c)
        <5>1. \A m \in DOMAIN ccNodes \cap Own(c) : m[2] <= j /\ m # Answer(c)
          BY <1>2, <3>1 DEF Grown, Streaming
        <5>2. \A m \in Own(c) : m[2] \in Nat BY DEF Own
        <5> QED BY <3>2, <3>9, <4>2, <5>1, <5>2
      <4>4. ~v.eph => \A m \in DOMAIN ms \cap Own(c) : ms[m].kind # "ephemeral"
        BY <1>2, <2>5, <3>9, <4>1 DEF Grown
      <4>5. Root(v.session) \in DOMAIN ms BY <1>2, <2>5, <3>9 DEF Grown
      <4> QED BY <2>2, <2>5, <2>6, <3>2, <3>4, <3>9, <4>3, <4>4, <4>5 DEF Grown, Streaming
    <3>11. TurnsGrow' BY <2>4, <3>2, <3>8, <3>9, <3>10, OneTurn
    <3> QED BY <1>4, <3>8, <3>9, <3>11, HeadsRest DEF HistStep
  <2>7. CASE ~Noded(c, e)
    <3>1. ccNodes' = ccNodes BY <1>1, <1>3, <2>7 DEF RawEvent
    <3>2. Slides(u, v) BY <1>2, <2>2, <2>5, <2>7 DEF Slides
    <3> QED BY <1>1, <1>4, <2>4, <3>1, <3>2, SlideKeeps, HeadsRest, ExtendsItself DEF HistStep, HistIInv
  <2> QED BY <2>6, <2>7
<1> QED BY <1>5, <1>6

LEMMA CloseTurnHist ==
  ASSUME HistIInv, NEW c \in Chat, CloseTurn(c)
  PROVE  HistStep
<1>1. PICK u \in ChatRow : u = chat[c] BY Begun DEF CloseTurn, HistIInv
<1>2. u.pc = "close" /\ u.parent \in Own(c) /\ Grown(ccNodes, c, u)
  BY <1>1 DEF CloseTurn, HistIInv, CCIInv, CCTyped, CCChats, Streaming, TurnsGrow
<1>3. PICK j \in Nat : j = u.parent[2] BY <1>2 DEF Own
<1>4. PICK i \in Nat : i = j + 1 OBVIOUS
<1>5. PICK n : n = <<c, i>> OBVIOUS
<1>6. PICK a : a = <<c, 1>> OBVIOUS
<1>7. n = Below(c) /\ a = Answer(c) /\ n \in Own(c) /\ a \in Own(c) /\ j > 2 /\ n # a
  BY <1>1, <1>2, <1>3, <1>4, <1>5, <1>6, CCIds DEF Below, Answer, Grown, Streaming
<1>8. PICK h : h = u.head OBVIOUS
<1>9. Whole(ccNodes, h) /\ Between(ccNodes, c, h, u.parent) BY <1>2, <1>8 DEF Grown, Streaming
<1>10. n \notin DOMAIN ccNodes /\ a \notin DOMAIN ccNodes
  <2>1. \A x \in DOMAIN ccNodes \cap Own(c) : x[2] <= j /\ x # Answer(c) BY <1>2, <1>3 DEF Grown, Streaming
  <2>2. n[2] = j + 1 BY <1>4, <1>5
  <2> QED BY <1>7, <2>1, <2>2
<1>11. PICK t, p, k : t = u.tree /\ p = u.parent /\ k = Kind(c, "answer") OBVIOUS
<1>12. PICK n1 : n1 = Add(ccNodes, n, t, p, "assistant_complete") OBVIOUS
<1>13. PICK n2 : n2 = Add(n1, a, t, n, k) OBVIOUS
<1>14. ccNodes' = n2 BY <1>1, <1>7, <1>11, <1>12, <1>13 DEF CloseTurn
<1>15. /\ Extends(ccNodes, n1) /\ Forest(n1) /\ DOMAIN n1 = DOMAIN ccNodes \cup {n}
       /\ n1[n].kind = "assistant_complete" /\ \A x \in DOMAIN ccNodes : n1[x] = ccNodes[x]
       /\ Whole(n1, h) /\ Between(n1, c, h, n)
  <2>1. PICK l \in {"assistant_complete"} : l = "assistant_complete" OBVIOUS
  <2>2. n1 = Add(ccNodes, n, t, p, l) /\ Forest(ccNodes) BY <1>12, <2>1 DEF HistIInv
  <2> QED BY <1>5, <1>9, <1>10, <1>11, <2>1, <2>2, AddOwn
<1>16. /\ Extends(n1, n2) /\ Forest(n2) /\ DOMAIN n2 = DOMAIN n1 \cup {a} /\ n2[a].kind = k
       /\ \A x \in DOMAIN n1 : n2[x] = n1[x]
       /\ Whole(n2, h) /\ Between(n2, c, h, a)
  <2>1. a \notin DOMAIN n1 BY <1>7, <1>10, <1>15
  <2>2. PICK o \in Nat : o = 1 OBVIOUS
  <2>3. a = <<c, o>> BY <1>6, <2>2
  <2> QED BY <1>13, <1>15, <2>1, <2>3, AddOwn, SMTT(30)
<1>17. Extends(ccNodes, ccNodes') BY <1>14, <1>15, <1>16, ExtendsOn
<1>18. PICK v : v = [u EXCEPT !.pc = "head"] OBVIOUS
<1>19. chat' = [chat EXCEPT ![c] = v] BY <1>1, <1>18 DEF CloseTurn, Goto
<1>20. v.pc = "head" /\ v.head = h /\ v.session = u.session /\ v.eph = u.eph BY <1>8, <1>18 DEF ChatRow
<1>21. Grown(n2, c, v)
  <2>1. ~u.eph => k # "ephemeral" BY <1>1, <1>11 DEF Kind, Ephemeral
  <2>2. ~v.eph => \A x \in DOMAIN n2 \cap Own(c) : n2[x].kind # "ephemeral"
    BY <1>2, <1>15, <1>16, <1>20, <2>1 DEF Grown
  <2>3. Root(v.session) \in DOMAIN n2 BY <1>2, <1>15, <1>16, <1>20 DEF Grown
  <2> QED BY <1>7, <1>16, <1>20, <2>2, <2>3 DEF Grown, Streaming
<1>22. DOMAIN n2 \subseteq DOMAIN ccNodes \cup Own(c) BY <1>7, <1>15, <1>16
<1>23. TurnsGrow' BY <1>14, <1>17, <1>19, <1>21, <1>22, OneTurn
<1> QED BY <1>17, <1>23, HeadsRest DEF HistStep, CloseTurn

LEMMA MoveHeadHist ==
  ASSUME HistIInv, NEW c \in Chat, MoveHead(c)
  PROVE  HistStep
<1>1. PICK u \in ChatRow : u = chat[c] BY Begun DEF MoveHead, HistIInv
<1>2. u.pc = "head" /\ ccNodes' = ccNodes /\ making' = making /\ Grown(ccNodes, c, u)
  BY <1>1 DEF MoveHead, HistIInv, TurnsGrow
<1>3. TurnsGrow' /\ Extends(ccNodes, ccNodes')
  <2>1. Goto(c, "closing") \/ Fail(c) BY DEF MoveHead
  <2> QED BY <1>1, <1>2, <2>1, StepOnHist DEF Streaming
<1>4. HeadsWhole'
  <2>1. CASE sessions' = sessions BY <1>2, <1>3, <2>1, HeadsRest
  <2>2. CASE sessions' # sessions
    <3>1. PICK s \in DOMAIN sessions : sessions' = Headed(s, Answer(c), u.sid) BY <1>1, <2>2 DEF MoveHead
    <3>2. ~u.eph BY <1>1, <2>2 DEF MoveHead, Ephemeral
    <3>3. Whole(ccNodes, Answer(c)) BY <1>2, <3>2, AnswerWhole DEF Grown, HistIInv, Forest
    <3>4. u.sid \in AgentId /\ Answer(c) \in CCNode BY CCIds DEF ChatRow
    <3>5. /\ Headed(s, Answer(c), u.sid) \in [DOMAIN sessions -> SessionRow]
          /\ Headed(s, Answer(c), u.sid)[s].head = Answer(c)
          /\ \A x \in DOMAIN sessions : x # s => Headed(s, Answer(c), u.sid)[x] = sessions[x]
      BY <3>4, HeadedTyped DEF HistIInv, CCIInv, CCTyped
    <3>6. \A x \in DOMAIN sessions' : /\ x \in DOMAIN sessions
                                      /\ x # s => sessions'[x].head = sessions[x].head
                                      /\ x = s => sessions'[x].head = Answer(c)
      BY <3>1, <3>5
    <3>7. \A x \in DOMAIN sessions : Whole(ccNodes, Root(x)) BY DEF HistIInv, HeadsWhole
    <3> QED BY <1>2, <1>3, <3>3, <3>6, <3>7, HeadsGo
  <2> QED BY <2>1, <2>2
<1> QED BY <1>2, <1>3, <1>4, ExtendsItself DEF HistStep, HistIInv

LEMMA AgentEndsHist ==
  ASSUME HistIInv, NEW c \in Chat, AgentEnds(c)
  PROVE  HistStep
<1>1. chat[c].pc = "stream" /\ ccNodes' = ccNodes /\ making' = making /\ (Goto(c, "save") \/ Fail(c))
  BY DEF AgentEnds
<1>2. TurnsGrow' /\ Extends(ccNodes, ccNodes') BY <1>1, StepOnHist DEF Streaming
<1>3. \A x \in DOMAIN sessions' : x \in DOMAIN sessions /\ sessions'[x].head = sessions[x].head
  <2>1. CASE sessions' = sessions BY <2>1
  <2>2. ASSUME NEW s \in DOMAIN sessions, NEW i, sessions' = [sessions EXCEPT ![s].sid = i]
        PROVE  \A x \in DOMAIN sessions' : x \in DOMAIN sessions /\ sessions'[x].head = sessions[x].head
    <3>1. PICK r \in SessionRow : r = sessions[s] BY DEF HistIInv, CCIInv, CCTyped, CCRows
    <3>2. PICK q : q = [r EXCEPT !.sid = i] OBVIOUS
    <3>3. q.head = r.head BY <3>2 DEF SessionRow
    <3>4. sessions' = [sessions EXCEPT ![s] = q] BY <2>2, <3>1, <3>2
    <3> QED BY <3>1, <3>3, <3>4 DEF HistIInv, CCIInv, CCTyped, CCRows
  <2> QED BY <2>1, <2>2 DEF AgentEnds
<1>4. HeadsWhole' BY <1>1, <1>2, <1>3, HeadsGo
<1> QED BY <1>1, <1>2, <1>4, ExtendsItself DEF HistStep, HistIInv

LEMMA ChatStepHist ==
  ASSUME HistIInv, NEW c \in Chat, ChatStep(c) \/ Disconnect(c)
  PROVE  HistStep
<1>1. ASSUME NEW pc \in {"open", "save", "close", "closing", "ending", "done", "failed", "gone"},
             chat[c].pc # "off", UNCHANGED <<sessions, making, ccNodes>>,
             pc \in Streaming => chat[c].pc \in Streaming, pc = "open" => chat[c].pc = "ask",
             Goto(c, pc) \/ Fail(c)
      PROVE  HistStep
  <2>1. TurnsGrow' /\ Extends(ccNodes, ccNodes') BY <1>1, StepOnHist
  <2> QED BY <1>1, <2>1, HeadsRest, ExtendsItself DEF HistStep, HistIInv
<1>2. CASE AskMessage(c) BY <1>1, <1>2 DEF AskMessage, Store, Streaming
<1>3. CASE OpenTurn(c) BY <1>3, OpenTurnHist
<1>4. CASE RawEvent(c) BY <1>4, RawEventHist
<1>5. CASE AgentEnds(c) BY <1>5, AgentEndsHist
<1>6. CASE SaveAnswer(c) BY <1>1, <1>6 DEF SaveAnswer, Store, Streaming
<1>7. CASE CloseTurn(c) BY <1>7, CloseTurnHist
<1>8. CASE MoveHead(c) BY <1>8, MoveHeadHist
<1>9. CASE LastEvent(c) BY <1>1, <1>9 DEF LastEvent, Streaming
<1>10. CASE LastStatus(c) BY <1>1, <1>10 DEF LastStatus, Streaming
<1>11. CASE Disconnect(c) BY <1>1, <1>11 DEF Disconnect, Over, Streaming
<1> QED BY <1>2, <1>3, <1>4, <1>5, <1>6, <1>7, <1>8, <1>9, <1>10, <1>11 DEF ChatStep

LEMMA CCCrashHist ==
  ASSUME HistIInv, CCCrash
  PROVE  HistStep
<1>1. ccNodes' = ccNodes /\ sessions' = sessions /\ DOMAIN making' = {} BY DEF CCCrash
<1>2. Extends(ccNodes, ccNodes') BY <1>1, ExtendsItself DEF HistIInv
<1>3. HeadsWhole' BY <1>1, <1>2, HeadsGo
<1>4. ASSUME NEW c \in Chat PROVE Grown(ccNodes, c, chat'[c])
  <2>1. chat'[c] = IF chat[c].pc \in Over THEN chat[c] ELSE [chat[c] EXCEPT !.pc = "gone"] BY DEF CCCrash
  <2>2. Grown(ccNodes, c, chat[c]) BY DEF HistIInv, TurnsGrow
  <2>3. CASE chat[c].pc \notin Over
    <3>1. PICK u \in ChatRow : u = chat[c] BY <2>3, Begun DEF Over, HistIInv
    <3>2. PICK v : v = [u EXCEPT !.pc = "gone"] OBVIOUS
    <3>3. Slides(u, v) BY <3>1, <3>2 DEF Slides, ChatRow, Streaming
    <3> QED BY <2>1, <2>2, <2>3, <3>1, <3>2, <3>3, SlideGrown
  <2> QED BY <2>1, <2>2, <2>3
<1>5. TurnsGrow' BY <1>1, <1>4 DEF TurnsGrow, HistIInv
<1> QED BY <1>1, <1>3, <1>5, ExtendsItself DEF HistStep, HistIInv

\* Together: the next-state relation.
LEMMA HistNext ==
  ASSUME HistIInv, [CCNext]_ccVars
  PROVE  HistStep
<1>1. ASSUME UNCHANGED <<sessions, making, ccNodes, chat>> PROVE HistStep
  BY <1>1, NothingAdded, HeadsRest, ExtendsItself DEF HistStep, HistIInv
<1>2. ASSUME NEW s \in Session, NEW n \in Name, Create(s, n) PROVE HistStep
  BY <1>2, SessionCreateHist DEF Create
<1>3. ASSUME NEW s \in Session, NEW n \in Name, NEW m \in Name, Fork(s, n, m) PROVE HistStep
  <2>1. PICK p \in DOMAIN sessions : SessionCreate(s, n, sessions[p].head) BY <1>3, ResolvedAreThere DEF Fork
  <2>2. Whole(ccNodes, sessions[p].head) BY DEF HistIInv, HeadsWhole
  <2> QED BY <2>1, <2>2, SessionCreateHist
<1>4. ASSUME NEW s \in Session, InsertSession(s) \/ ForkHead(s) \/ Delete(s) PROVE HistStep
  BY <1>4, InsertSessionHist, ForkHeadHist, DeleteHist
<1>5. ASSUME NEW c \in Chat, NEW eph \in BOOLEAN, NEW x, ChatByName(c, x, eph) \/ ChatById(c, x, eph)
      PROVE  HistStep
  <2>1. \E s \in DOMAIN sessions : StartChat(c, s, eph) BY <1>5, ResolvedAreThere DEF ChatByName, ChatById
  <2> QED BY <2>1, StartChatHist
<1>6. ASSUME NEW c \in Chat, ChatStep(c) \/ Disconnect(c) PROVE HistStep BY <1>6, ChatStepHist
<1>7. ASSUME NEW c \in Chat, NEW k \in Limit, Poll(c, k) PROVE HistStep BY <1>1, <1>7 DEF Poll
<1>8. CASE CCCrash BY <1>8, CCCrashHist
<1>9. CASE UNCHANGED ccVars BY <1>1, <1>9 DEF ccVars
<1> QED BY <1>2, <1>3, <1>4, <1>5, <1>6, <1>7, <1>8, <1>9 DEF CCNext

\* The invariant holds: it is proved from the assumption on the constants alone.
LEMMA HistInvariant == CCSpec => []HistIInv
<1>1. CCInit => Forest(ccNodes) /\ HeadsWhole /\ TurnsGrow
  <2>1. SUFFICES ASSUME CCInit PROVE Forest(ccNodes) /\ HeadsWhole /\ TurnsGrow OBVIOUS
  <2>2. DOMAIN ccNodes = {} /\ DOMAIN sessions = {} /\ DOMAIN making = {}
    <3>1. DOMAIN <<>> = {} OBVIOUS
    <3> QED BY <2>1, <3>1 DEF CCInit
  <2>3. Ranked(ccNodes)
    <3>1. [n \in {} |-> 0] \in [{} -> 0 .. 0] OBVIOUS
    <3> QED BY <2>2, <3>1 DEF Ranked
  <2>4. \A c \in Chat : chat[c].pc = "off" BY <2>1 DEF CCInit, Idle
  <2> QED BY <2>2, <2>3, <2>4 DEF Forest, HeadsWhole, TurnsGrow, Grown, Streaming
<1>2. CCIInv /\ Forest(ccNodes) /\ HeadsWhole /\ TurnsGrow /\ [CCNext]_ccVars
        => (Forest(ccNodes) /\ HeadsWhole /\ TurnsGrow)'
  BY HistNext DEF HistStep, HistIInv, Extends
<1>3. HistIInv <=> CCIInv /\ Forest(ccNodes) /\ HeadsWhole /\ TurnsGrow BY DEF HistIInv
<1> QED BY <1>1, <1>2, <1>3, CCInvariant, PTL DEF CCSpec

\* run_chat_background, chat_stream_for_config, fork and session_update_head: for any
\* number of sessions, chats, events of the agent and restarts, and whatever fails or
\* is dropped half way, every question on the way to the head of a session is
\* followed by its answer, and nothing on it is ephemeral.
THEOREM ExchangesAreWhole == CCSpec => []WholeExchanges
<1>1. HistIInv => WholeExchanges BY DEF HistIInv, HeadsWhole, Whole, WholeExchanges
<1> QED BY <1>1, HistInvariant, PTL
-----------------------------------------------------------------------------
(***************************************************************************)
(* ClaudeCode: chats made one after the other.                             *)
(***************************************************************************)
\* The inductive invariant: the history, and the order of the chats on a session.
OrderIInv == HistIInv /\ InTurn

\* From the local variables u to v, when the chat neither begins nor moves the head.
Rests(u, v) ==
    /\ u.pc # "off" /\ v.pc # "off"
    /\ v.eph = u.eph /\ v.session = u.session /\ v.head = u.head
    /\ v.pc \in BeforeMove => u.pc \in BeforeMove
    /\ ~v.eph /\ Moved(v) => Moved(u)

\* Those that have moved the head of s are on its path, in a larger forest also.
LEMMA MovedStay ==
  ASSUME HistIInv, Extends(ccNodes, ccNodes'), NEW s \in DOMAIN sessions, NEW n,
         n \in OnPath(ccNodes, sessions[s].head)
  PROVE  n \in OnPath(ccNodes', sessions[s].head)
<1>1. PICK h : h = sessions[s].head OBVIOUS
<1>2. h \in DOMAIN ccNodes BY <1>1 DEF HistIInv, HeadsWhole, Whole
<1>3. OnPath(ccNodes', h) = OnPath(ccNodes, h) BY <1>2, ExtendsKeeps DEF HistIInv, Forest
<1> QED BY <1>1, <1>3

\* A step that leaves heads alone, adds no call and begins no chat.
LEMMA OrderStays ==
  ASSUME OrderIInv, Extends(ccNodes, ccNodes'), overlap \subseteq overlap',
         DOMAIN making' \subseteq DOMAIN making,
         \A s \in DOMAIN sessions' : s \in DOMAIN sessions /\ sessions'[s].head = sessions[s].head,
         \A c \in Chat : chat'[c] = chat[c] \/ Rests(chat[c], chat'[c])
  PROVE  InTurn'
<1> SUFFICES ASSUME NEW s \in Session \ overlap'
    PROVE  /\ s \in DOMAIN making' => Movers(s)' = {}
           /\ \A c, d \in Movers(s)' : chat'[c].pc \in BeforeMove /\ chat'[d].pc \in BeforeMove => c = d
           /\ s \in DOMAIN sessions' =>
                 \A c \in Movers(s)' :
                     /\ chat'[c].pc \in BeforeMove => chat'[c].head = sessions'[s].head
                     /\ Moved(chat'[c]) => Answer(c) \in OnPath(ccNodes', sessions'[s].head)
  BY DEF InTurn, Answer
<1>1. Movers(s)' \subseteq Movers(s) BY DEF Movers, Ephemeral, Rests
<1>2. \A c \in Movers(s)' :
         /\ chat'[c].pc \in BeforeMove => chat[c].pc \in BeforeMove
         /\ chat'[c].head = chat[c].head
         /\ Moved(chat'[c]) => Moved(chat[c])
  BY DEF Movers, Ephemeral, Rests
<1>3. s \in Session \ overlap OBVIOUS
<1>4. s \in DOMAIN making' => Movers(s)' = {} BY <1>1, <1>3 DEF OrderIInv, InTurn
<1>5. \A c, d \in Movers(s)' : chat'[c].pc \in BeforeMove /\ chat'[d].pc \in BeforeMove => c = d
  BY <1>1, <1>2, <1>3 DEF OrderIInv, InTurn
<1>6. ASSUME s \in DOMAIN sessions', NEW c \in Movers(s)'
      PROVE  /\ chat'[c].pc \in BeforeMove => chat'[c].head = sessions'[s].head
             /\ Moved(chat'[c]) => Answer(c) \in OnPath(ccNodes', sessions'[s].head)
  <2>1. s \in DOMAIN sessions /\ sessions'[s].head = sessions[s].head BY <1>6
  <2>2. c \in Movers(s) BY <1>1
  <2>3. chat'[c].pc \in BeforeMove => chat'[c].head = sessions'[s].head
    BY <1>2, <1>3, <2>1, <2>2 DEF OrderIInv, InTurn
  <2>4. Moved(chat'[c]) => Answer(c) \in OnPath(ccNodes, sessions[s].head)
    BY <1>2, <1>3, <2>1, <2>2 DEF OrderIInv, InTurn
  <2>5. Moved(chat'[c]) => Answer(c) \in OnPath(ccNodes', sessions[s].head)
    BY <2>1, <2>4, MovedStay DEF OrderIInv
  <2> QED BY <2>1, <2>3, <2>5
<1> QED BY <1>4, <1>5, <1>6

\* A step that may do anything to one session, and leaves the others alone.
OthersStay(s) ==
    /\ \A t \in DOMAIN sessions' : t # s => t \in DOMAIN sessions /\ sessions'[t].head = sessions[t].head
    /\ \A t \in DOMAIN making' : t # s => t \in DOMAIN making
    /\ \A t \in Session : t # s => Movers(t)' = Movers(t)
    /\ \A t \in Session : \A c \in Movers(t) :
          t # s => /\ chat'[c].head = chat[c].head /\ (Moved(chat'[c]) => Moved(chat[c]))
                   /\ chat'[c].pc \in BeforeMove => chat[c].pc \in BeforeMove

\* Where the new one is in order, all are.
LEMMA OneSession ==
  ASSUME OrderIInv, Extends(ccNodes, ccNodes'), overlap \subseteq overlap', NEW s, OthersStay(s),
         s \notin overlap' =>
            /\ s \in DOMAIN making' => Movers(s)' = {}
            /\ \A c, d \in Movers(s)' : chat'[c].pc \in BeforeMove /\ chat'[d].pc \in BeforeMove => c = d
            /\ s \in DOMAIN sessions' =>
                  \A c \in Movers(s)' :
                      /\ chat'[c].pc \in BeforeMove => chat'[c].head = sessions'[s].head
                      /\ Moved(chat'[c]) => Answer(c) \in OnPath(ccNodes', sessions'[s].head)
  PROVE  InTurn'
<1> SUFFICES ASSUME NEW t \in Session \ overlap', t # s
    PROVE  /\ t \in DOMAIN making' => Movers(t)' = {}
           /\ \A c, d \in Movers(t)' : chat'[c].pc \in BeforeMove /\ chat'[d].pc \in BeforeMove => c = d
           /\ t \in DOMAIN sessions' =>
                 \A c \in Movers(t)' :
                     /\ chat'[c].pc \in BeforeMove => chat'[c].head = sessions'[t].head
                     /\ Moved(chat'[c]) => Answer(c) \in OnPath(ccNodes', sessions'[t].head)
  BY DEF InTurn, Answer
<1>1. t \in Session \ overlap /\ Movers(t)' = Movers(t) BY DEF OthersStay
<1>2. t \in DOMAIN making' => Movers(t)' = {} BY <1>1 DEF OrderIInv, InTurn, OthersStay
<1>3. \A c, d \in Movers(t)' : chat'[c].pc \in BeforeMove /\ chat'[d].pc \in BeforeMove => c = d
  BY <1>1 DEF OrderIInv, InTurn, OthersStay
<1>4. ASSUME t \in DOMAIN sessions', NEW c \in Movers(t)
      PROVE  /\ chat'[c].pc \in BeforeMove => chat'[c].head = sessions'[t].head
             /\ Moved(chat'[c]) => Answer(c) \in OnPath(ccNodes', sessions'[t].head)
  <2>1. t \in DOMAIN sessions /\ sessions'[t].head = sessions[t].head BY <1>4 DEF OthersStay
  <2>2. chat'[c].pc \in BeforeMove => chat'[c].head = sessions'[t].head
    BY <1>1, <2>1 DEF OrderIInv, InTurn, OthersStay
  <2>3. Moved(chat'[c]) => Answer(c) \in OnPath(ccNodes, sessions[t].head)
    BY <1>1, <2>1 DEF OrderIInv, InTurn, OthersStay
  <2>4. Moved(chat'[c]) => Answer(c) \in OnPath(ccNodes', sessions[t].head)
    BY <2>1, <2>3, MovedStay DEF OrderIInv
  <2> QED BY <2>1, <2>2, <2>4
<1> QED BY <1>1, <1>2, <1>3, <1>4

\* A step of a call: all chats are as they were.
LEMMA CallOthers ==
  ASSUME NEW s, chat' = chat,
         \A t \in DOMAIN sessions' : t # s => t \in DOMAIN sessions /\ sessions'[t].head = sessions[t].head,
         \A t \in DOMAIN making' : t # s => t \in DOMAIN making
  PROVE  OthersStay(s) /\ Movers(s)' = Movers(s)
<1>1. \A t : Movers(t)' = Movers(t) BY DEF Movers, Ephemeral
<1> QED BY <1>1 DEF OthersStay

LEMMA SessionCreateOrder ==
  ASSUME OrderIInv, Extends(ccNodes, ccNodes'), NEW s \in Session, NEW n, NEW h, SessionCreate(s, n, h)
  PROVE  InTurn'
<1>1. Movers(s) = {}
  <2>1. \A c \in Chat : chat[c].pc # "off" => Root(chat[c].session) \in DOMAIN ccNodes
    BY DEF OrderIInv, HistIInv, TurnsGrow, Grown
  <2> QED BY <2>1 DEF Movers, SessionCreate
<1>2. /\ chat' = chat /\ sessions' = sessions /\ overlap' = overlap
      /\ \A t \in DOMAIN making' : t # s => t \in DOMAIN making
  BY DEF SessionCreate, Put
<1>3. OthersStay(s) /\ Movers(s)' = Movers(s) BY <1>2, CallOthers
<1> QED BY <1>1, <1>2, <1>3, OneSession

LEMMA MakingOrder ==
  ASSUME OrderIInv, NEW s \in Session, InsertSession(s) \/ ForkHead(s)
  PROVE  InTurn'
<1>1. s \in DOMAIN making BY DEF InsertSession, ForkHead
<1>2. s \notin overlap => Movers(s) = {} BY <1>1 DEF OrderIInv, InTurn
<1>3. /\ chat' = chat /\ overlap \subseteq overlap' /\ ccNodes' = ccNodes
      /\ \A t \in DOMAIN making' : t # s => t \in DOMAIN making
  BY DEF InsertSession, ForkHead, Without
<1>4. \A t \in DOMAIN sessions' : t # s => t \in DOMAIN sessions /\ sessions'[t].head = sessions[t].head
  <2>1. CASE InsertSession(s) BY <2>1 DEF InsertSession, Put
  <2>2. CASE ForkHead(s) BY <2>2 DEF ForkHead, Headed
  <2> QED BY <2>1, <2>2
<1>5. OthersStay(s) /\ Movers(s)' = Movers(s) BY <1>3, <1>4, CallOthers
<1>6. Extends(ccNodes, ccNodes') BY <1>3, ExtendsItself DEF OrderIInv, HistIInv
<1> QED BY <1>2, <1>3, <1>5, <1>6, OneSession

LEMMA StartChatOrder ==
  ASSUME OrderIInv, NEW c \in Chat, NEW s \in DOMAIN sessions, NEW eph \in BOOLEAN, StartChat(c, s, eph)
  PROVE  InTurn'
<1>1. PICK r : r = sessions[s] OBVIOUS
<1>2. PICK v : v = [pc |-> "ask", eph |-> eph, session |-> s, tree |-> r.tree, head |-> r.head,
                    oldSid |-> r.sid, sid |-> r.sid, parent |-> r.head,
                    text |-> FALSE, todo |-> <<>>, ok |-> TRUE]
  OBVIOUS
<1>3. /\ chat' = [chat EXCEPT ![c] = v] /\ chat[c].pc = "off" /\ ccNodes' = ccNodes
      /\ UNCHANGED <<sessions, making>> /\ overlap \subseteq overlap'
      /\ s \notin overlap' => eph \/ (Busy(s) \subseteq Ephemeral /\ s \notin DOMAIN making)
  BY <1>1, <1>2 DEF StartChat
<1>4. v.pc = "ask" /\ v.head = r.head /\ v.session = s /\ v.eph = eph BY <1>2
<1>5. chat'[c] = v /\ \A d \in Chat : d # c => chat'[d] = chat[d]
  BY <1>3 DEF OrderIInv, HistIInv, CCIInv, CCTyped, CCChats
<1>6. Extends(ccNodes, ccNodes') BY <1>3, ExtendsItself DEF OrderIInv, HistIInv
<1>7. \A t : t # s => Movers(t)' = Movers(t) BY <1>3, <1>4, <1>5 DEF Movers, Ephemeral
<1>8. Movers(s)' = IF eph THEN Movers(s) ELSE Movers(s) \cup {c}
  BY <1>3, <1>4, <1>5 DEF Movers, Ephemeral
<1>9. c \notin Movers(s) /\ \A t : c \notin Movers(t) BY <1>3 DEF Movers
<1>10. OthersStay(s)
  <2>1. \A t : \A d \in Movers(t) : chat'[d] = chat[d] BY <1>5, <1>9 DEF Movers
  <2> QED BY <1>3, <1>7, <2>1 DEF OthersStay
<1>11. ASSUME s \notin overlap'
       PROVE  /\ s \in DOMAIN making' => Movers(s)' = {}
              /\ \A d, e \in Movers(s)' : chat'[d].pc \in BeforeMove /\ chat'[e].pc \in BeforeMove => d = e
              /\ s \in DOMAIN sessions' =>
                    \A d \in Movers(s)' :
                        /\ chat'[d].pc \in BeforeMove => chat'[d].head = sessions'[s].head
                        /\ Moved(chat'[d]) => Answer(d) \in OnPath(ccNodes', sessions'[s].head)
  <2>1. s \in Session \ overlap BY <1>3, <1>11 DEF OrderIInv, HistIInv, CCIInv, CCTyped, CCRows
  <2>2. \A d \in Movers(s) : chat'[d] = chat[d] BY <1>5, <1>9 DEF Movers
  <2>3. /\ s \in DOMAIN making => Movers(s) = {}
        /\ \A d, e \in Movers(s) : chat[d].pc \in BeforeMove /\ chat[e].pc \in BeforeMove => d = e
        /\ \A d \in Movers(s) :
              /\ chat[d].pc \in BeforeMove => chat[d].head = r.head
              /\ Moved(chat[d]) => Answer(d) \in OnPath(ccNodes, r.head)
    BY <1>1, <2>1 DEF OrderIInv, InTurn
  <2>4. CASE eph BY <1>1, <1>3, <1>8, <2>2, <2>3, <2>4 DEF Answer
  <2>5. CASE ~eph
    <3>1. Busy(s) \subseteq Ephemeral /\ s \notin DOMAIN making BY <1>3, <1>11, <2>5
    <3>2. \A d \in Movers(s) : chat[d].pc \notin BeforeMove
      BY <3>1 DEF Movers, Busy, Over, BeforeMove
    <3>3. ~Moved(v) BY <1>4 DEF Moved
    <3> QED BY <1>1, <1>3, <1>4, <1>5, <1>8, <2>2, <2>3, <2>5, <3>1, <3>2, <3>3 DEF Answer
  <2> QED BY <2>4, <2>5
<1> QED BY <1>3, <1>6, <1>10, <1>11, OneSession

\* A step of one chat that rests.
LEMMA OneRests ==
  ASSUME OrderIInv, Extends(ccNodes, ccNodes'), overlap' = overlap, making' = making,
         \A s \in DOMAIN sessions' : s \in DOMAIN sessions /\ sessions'[s].head = sessions[s].head,
         NEW c \in Chat, NEW v, chat' = [chat EXCEPT ![c] = v], Rests(chat[c], v)
  PROVE  InTurn'
<1>1. \A d \in Chat : chat'[d] = chat[d] \/ Rests(chat[d], chat'[d])
  BY DEF OrderIInv, HistIInv, CCIInv, CCTyped, CCChats
<1> QED BY <1>1, OrderStays

\* A step that only moves the control point of a chat, or notes that it failed.
LEMMA StepOnOrder ==
  ASSUME OrderIInv, Extends(ccNodes, ccNodes'), overlap' = overlap, making' = making,
         \A s \in DOMAIN sessions' : s \in DOMAIN sessions /\ sessions'[s].head = sessions[s].head,
         NEW c \in Chat, chat[c].pc # "off",
         NEW pc \in {"open", "save", "close", "head", "closing", "ending", "done", "failed", "gone"},
         pc \in BeforeMove => chat[c].pc \in BeforeMove,
         \/ Fail(c)
         \/ /\ Goto(c, pc)
            /\ pc \in {"closing", "ending", "done"} /\ (pc = "done" \/ chat[c].ok)
                  => chat[c].eph \/ Moved(chat[c])
  PROVE  InTurn'
<1>1. PICK u \in ChatRow : u = chat[c] BY Begun DEF OrderIInv, HistIInv
<1>2. CASE Fail(c)
  <2>1. PICK v : v = [u EXCEPT !.pc = "closing", !.ok = FALSE] OBVIOUS
  <2>2. chat' = [chat EXCEPT ![c] = v]
    BY <1>1, <1>2, <2>1 DEF Fail, OrderIInv, HistIInv, CCIInv, CCTyped, CCChats
  <2>3. v.pc = "closing" /\ ~v.ok /\ v.eph = u.eph /\ v.session = u.session /\ v.head = u.head
    BY <2>1 DEF ChatRow
  <2>4. Rests(u, v) BY <1>1, <2>3 DEF Rests, BeforeMove, Moved
  <2> QED BY <1>1, <2>2, <2>4, OneRests
<1>3. ASSUME Goto(c, pc),
             pc \in {"closing", "ending", "done"} /\ (pc = "done" \/ chat[c].ok)
                => chat[c].eph \/ Moved(chat[c])
      PROVE  InTurn'
  <2>1. PICK v : v = [u EXCEPT !.pc = pc] OBVIOUS
  <2>2. chat' = [chat EXCEPT ![c] = v] BY <1>1, <1>3, <2>1 DEF Goto
  <2>3. v.pc = pc /\ v.ok = u.ok /\ v.eph = u.eph /\ v.session = u.session /\ v.head = u.head
    BY <2>1 DEF ChatRow
  <2>4. ~v.eph /\ Moved(v) => Moved(u) BY <1>1, <1>3, <2>3 DEF Moved
  <2>5. Rests(u, v) BY <1>1, <2>3, <2>4 DEF Rests
  <2> QED BY <1>1, <2>2, <2>5, OneRests
<1> QED BY <1>2, <1>3

LEMMA MoveHeadOrder ==
  ASSUME OrderIInv, NEW c \in Chat, MoveHead(c)
  PROVE  InTurn'
<1>1. PICK u \in ChatRow : u = chat[c] BY Begun DEF MoveHead, OrderIInv, HistIInv
<1>2. u.pc = "head" /\ ccNodes' = ccNodes /\ making' = making /\ overlap' = overlap
  BY <1>1 DEF MoveHead
<1>3. Extends(ccNodes, ccNodes') BY <1>2, ExtendsItself DEF OrderIInv, HistIInv
<1>4. ASSUME sessions' = sessions, (u.eph /\ Goto(c, "closing")) \/ Fail(c)
      PROVE  InTurn'
  BY <1>1, <1>2, <1>3, <1>4, StepOnOrder DEF BeforeMove
<1>5. ASSUME ~u.eph, NEW s \in DOMAIN sessions, s = u.session,
             sessions' = Headed(s, Answer(c), u.sid), Goto(c, "closing")
      PROVE  InTurn'
  <2>1. PICK v : v = [u EXCEPT !.pc = "closing"] OBVIOUS
  <2>2. chat' = [chat EXCEPT ![c] = v] BY <1>1, <1>5, <2>1 DEF Goto
  <2>3. v.pc = "closing" /\ v.head = u.head /\ v.session = s /\ ~v.eph BY <1>5, <2>1 DEF ChatRow
  <2>4. chat'[c] = v /\ \A d \in Chat : d # c => chat'[d] = chat[d]
    BY <2>2 DEF OrderIInv, HistIInv, CCIInv, CCTyped, CCChats
  <2>5. \A t : Movers(t)' = Movers(t) BY <1>1, <1>2, <1>5, <2>3, <2>4 DEF Movers, Ephemeral
  <2>6. /\ DOMAIN sessions' = DOMAIN sessions /\ sessions'[s].head = Answer(c)
        /\ \A t \in DOMAIN sessions : t # s => sessions'[t].head = sessions[t].head
    <3>1. u.sid \in AgentId /\ Answer(c) \in CCNode BY CCIds DEF ChatRow
    <3>2. /\ Headed(s, Answer(c), u.sid) \in [DOMAIN sessions -> SessionRow]
          /\ Headed(s, Answer(c), u.sid)[s].head = Answer(c)
          /\ \A x \in DOMAIN sessions : x # s => Headed(s, Answer(c), u.sid)[x] = sessions[x]
      BY <3>1, HeadedTyped DEF OrderIInv, HistIInv, CCIInv, CCTyped
    <3> QED BY <1>5, <3>2
  <2>7. OthersStay(s)
    <3>1. \A t : t # s => c \notin Movers(t) BY <1>1, <1>5 DEF Movers
    <3>2. \A t : \A d \in Movers(t) : t # s => chat'[d] = chat[d] BY <2>4, <3>1 DEF Movers
    <3> QED BY <1>2, <2>5, <2>6, <3>2 DEF OthersStay
  <2>8. ASSUME s \notin overlap'
        PROVE  /\ s \in DOMAIN making' => Movers(s)' = {}
               /\ \A d, e \in Movers(s)' : chat'[d].pc \in BeforeMove /\ chat'[e].pc \in BeforeMove => d = e
               /\ s \in DOMAIN sessions' =>
                     \A d \in Movers(s)' :
                         /\ chat'[d].pc \in BeforeMove => chat'[d].head = sessions'[s].head
                         /\ Moved(chat'[d]) => Answer(d) \in OnPath(ccNodes', sessions'[s].head)
    <3>1. s \in Session \ overlap BY <1>2, <2>8 DEF OrderIInv, HistIInv, CCIInv, CCTyped, CCRows
    <3>2. PICK h : h = u.head OBVIOUS
    <3>3. c \in Movers(s) /\ u.pc \in BeforeMove BY <1>1, <1>2, <1>5 DEF Movers, Ephemeral, BeforeMove
    <3>4. /\ s \notin DOMAIN making /\ h = sessions[s].head
          /\ \A d \in Movers(s) : d # c => chat[d].pc \notin BeforeMove
          /\ \A d \in Movers(s) : Moved(chat[d]) => Answer(d) \in OnPath(ccNodes, h)
      BY <1>1, <3>1, <3>2, <3>3 DEF OrderIInv, InTurn
    <3>5. PICK a : a = Answer(c) OBVIOUS
    <3>6. Between(ccNodes, c, h, a)
      BY <1>1, <1>2, <3>2, <3>5 DEF OrderIInv, HistIInv, TurnsGrow, Grown
    <3>7. OnPath(ccNodes, h) \subseteq OnPath(ccNodes, a) /\ a \in OnPath(ccNodes, a)
      BY <3>6, OnPathUnfolds DEF Between, OrderIInv, HistIInv, Forest
    <3>8. \A d \in Movers(s) : chat'[d].pc \notin BeforeMove
      <4>1. v.pc \notin BeforeMove BY <2>3 DEF BeforeMove
      <4>2. \A d \in Movers(s) : d \in Chat BY DEF Movers
      <4> QED BY <2>4, <3>4, <4>1, <4>2
    <3>9. \A d \in Movers(s) : Moved(chat'[d]) => Answer(d) \in OnPath(ccNodes, a)
      <4>1. \A d \in Movers(s) : d \in Chat BY DEF Movers
      <4> QED BY <2>4, <3>4, <3>5, <3>7, <4>1
    <3>10. sessions'[s].head = a BY <2>6, <3>5
    <3> QED BY <1>2, <2>5, <3>4, <3>8, <3>9, <3>10
  <2> QED BY <1>2, <1>3, <2>7, <2>8, OneSession
<1> QED BY <1>1, <1>4, <1>5 DEF MoveHead, Ephemeral


\* A step that adds nodes, before the head is moved.
LEMMA OpenTurnOrder ==
  ASSUME OrderIInv, Extends(ccNodes, ccNodes'), NEW c \in Chat, OpenTurn(c)
  PROVE  InTurn'
<1>1. PICK u \in ChatRow : u = chat[c] BY Begun DEF OpenTurn, OrderIInv, HistIInv
<1>2. u.pc = "open" /\ UNCHANGED <<sessions, making, overlap>> BY <1>1 DEF OpenTurn
<1>3. PICK script :
         chat' = [chat EXCEPT ![c].pc = "stream", ![c].parent = <<c, 3>>, ![c].todo = script]
  BY DEF OpenTurn
<1>4. PICK n : n = <<c, 3>> OBVIOUS
<1>5. PICK v : v = [u EXCEPT !.pc = "stream", !.parent = n, !.todo = script] OBVIOUS
<1>6. chat' = [chat EXCEPT ![c] = v]
  BY <1>1, <1>3, <1>4, <1>5 DEF OrderIInv, HistIInv, CCIInv, CCTyped, CCChats
<1>7. v.pc = "stream" /\ v.eph = u.eph /\ v.session = u.session /\ v.head = u.head BY <1>5 DEF ChatRow
<1>8. Rests(u, v) BY <1>2, <1>7 DEF Rests, BeforeMove, Moved
<1> QED BY <1>1, <1>2, <1>6, <1>8, OneRests

LEMMA RawEventOrder ==
  ASSUME OrderIInv, Extends(ccNodes, ccNodes'), NEW c \in Chat, RawEvent(c)
  PROVE  InTurn'
<1>1. PICK u \in ChatRow : u = chat[c] BY Begun DEF RawEvent, OrderIInv, HistIInv
<1>2. u.pc = "stream" /\ UNCHANGED <<sessions, making, overlap>> BY <1>1 DEF RawEvent
<1>3. PICK e : e = Head(u.todo) OBVIOUS
<1>4. CASE e = "error"
  <2>1. Fail(c) BY <1>1, <1>3, <1>4 DEF RawEvent

  <2> QED BY <1>1, <1>2, <2>1, StepOnOrder DEF BeforeMove
<1>5. CASE e # "error"
  <2>1. PICK x, y, z, w : /\ x = Tail(u.todo) /\ y = (u.text \/ e \in {"text", "block"})
                          /\ z = IF e = "sid" THEN c ELSE u.sid
                          /\ w = IF Noded(c, e) THEN Below(c) ELSE u.parent
    OBVIOUS
  <2>2. PICK v : v = [u EXCEPT !.todo = x, !.text = y, !.sid = z, !.parent = w] OBVIOUS
  <2>3. chat' = [chat EXCEPT ![c] = v]
    <3>1. chat' = [chat EXCEPT ![c] =
              [chat[c] EXCEPT !.todo = Tail(@), !.text = @ \/ e \in {"text", "block"},
                              !.sid = IF e = "sid" THEN c ELSE @,
                              !.parent = IF Noded(c, e) THEN Below(c) ELSE @]]
      BY <1>1, <1>3, <1>5 DEF RawEvent
    <3> QED BY <1>1, <2>1, <2>2, <3>1
  <2>4. v.pc = "stream" /\ v.eph = u.eph /\ v.session = u.session /\ v.head = u.head
    BY <1>2, <2>2 DEF ChatRow
  <2>5. Rests(u, v) BY <1>2, <2>4 DEF Rests, Moved
  <2> QED BY <1>1, <1>2, <2>3, <2>5, OneRests
<1> QED BY <1>4, <1>5

LEMMA AgentEndsOrder ==
  ASSUME OrderIInv, Extends(ccNodes, ccNodes'), NEW c \in Chat, AgentEnds(c)
  PROVE  InTurn'
<1>1. chat[c].pc = "stream" /\ making' = making /\ overlap' = overlap /\ (Goto(c, "save") \/ Fail(c))
  BY DEF AgentEnds
<1>2. \A x \in DOMAIN sessions' : x \in DOMAIN sessions /\ sessions'[x].head = sessions[x].head
  <2>1. CASE sessions' = sessions BY <2>1
  <2>2. ASSUME NEW s \in DOMAIN sessions, NEW i, sessions' = [sessions EXCEPT ![s].sid = i]
        PROVE  \A x \in DOMAIN sessions' : x \in DOMAIN sessions /\ sessions'[x].head = sessions[x].head
    <3>1. PICK r \in SessionRow : r = sessions[s] BY DEF OrderIInv, HistIInv, CCIInv, CCTyped, CCRows
    <3>2. PICK q : q = [r EXCEPT !.sid = i] OBVIOUS
    <3>3. q.head = r.head BY <3>2 DEF SessionRow
    <3>4. sessions' = [sessions EXCEPT ![s] = q] BY <2>2, <3>1, <3>2
    <3> QED BY <3>1, <3>3, <3>4
  <2> QED BY <2>1, <2>2 DEF AgentEnds
<1> QED BY <1>1, <1>2, StepOnOrder DEF BeforeMove

LEMMA ChatStepOrder ==
  ASSUME OrderIInv, Extends(ccNodes, ccNodes'), NEW c \in Chat, ChatStep(c) \/ Disconnect(c)
  PROVE  InTurn'
<1>1. ASSUME NEW pc \in {"open", "save", "close", "head", "closing", "ending", "done", "failed", "gone"},
             chat[c].pc # "off", UNCHANGED <<sessions, making, overlap>>,
             pc \in BeforeMove => chat[c].pc \in BeforeMove,
             \/ Fail(c)
             \/ /\ Goto(c, pc)
                /\ pc \in {"closing", "ending", "done"} /\ (pc = "done" \/ chat[c].ok)
                      => chat[c].eph \/ Moved(chat[c])
      PROVE  InTurn'
  BY <1>1, StepOnOrder
<1>2. CASE AskMessage(c) BY <1>1, <1>2 DEF AskMessage, Store, BeforeMove
<1>3. CASE OpenTurn(c) BY <1>3, OpenTurnOrder
<1>4. CASE RawEvent(c) BY <1>4, RawEventOrder
<1>5. CASE AgentEnds(c) BY <1>5, AgentEndsOrder
<1>6. CASE SaveAnswer(c) BY <1>1, <1>6 DEF SaveAnswer, Store, BeforeMove
<1>7. CASE CloseTurn(c) BY <1>1, <1>7 DEF CloseTurn, BeforeMove
<1>8. CASE MoveHead(c) BY <1>8, MoveHeadOrder
<1>9. CASE LastEvent(c) BY <1>1, <1>9 DEF LastEvent, BeforeMove, Moved
<1>10. CASE LastStatus(c) BY <1>1, <1>10 DEF LastStatus, BeforeMove, Moved
<1>11. CASE Disconnect(c) BY <1>1, <1>11 DEF Disconnect, Over, BeforeMove
<1> QED BY <1>2, <1>3, <1>4, <1>5, <1>6, <1>7, <1>8, <1>9, <1>10, <1>11 DEF ChatStep

LEMMA CCCrashOrder ==
  ASSUME OrderIInv, CCCrash
  PROVE  InTurn'
<1>1. /\ ccNodes' = ccNodes /\ sessions' = sessions /\ overlap' = overlap
      /\ DOMAIN making' \subseteq DOMAIN making
  BY DEF CCCrash
<1>2. ASSUME NEW c \in Chat PROVE chat'[c] = chat[c] \/ Rests(chat[c], chat'[c])
  <2>1. chat'[c] = IF chat[c].pc \in Over THEN chat[c] ELSE [chat[c] EXCEPT !.pc = "gone"] BY DEF CCCrash
  <2>2. CASE chat[c].pc \notin Over
    <3>1. PICK u \in ChatRow : u = chat[c] BY <2>2, Begun DEF Over, OrderIInv, HistIInv
    <3>2. PICK v : v = [u EXCEPT !.pc = "gone"] OBVIOUS
    <3>3. v.pc = "gone" /\ v.eph = u.eph /\ v.session = u.session /\ v.head = u.head BY <3>2 DEF ChatRow
    <3>4. u.pc # "off" BY <2>2, <3>1 DEF Over
    <3>5. Rests(u, v) BY <3>3, <3>4 DEF Rests, BeforeMove, Moved
    <3> QED BY <2>1, <2>2, <3>1, <3>2, <3>5
  <2> QED BY <2>1, <2>2
<1>3. Extends(ccNodes, ccNodes') BY <1>1, ExtendsItself DEF OrderIInv, HistIInv
<1> QED BY <1>1, <1>2, <1>3, OrderStays

\* Together: the next-state relation.
LEMMA OrderNext ==
  ASSUME OrderIInv, Extends(ccNodes, ccNodes'), [CCNext]_ccVars
  PROVE  InTurn'
<1>1. ASSUME UNCHANGED <<sessions, making, chat, overlap>> PROVE InTurn' BY <1>1, OrderStays
<1>2. ASSUME NEW s \in Session, NEW n \in Name, Create(s, n) PROVE InTurn'
  BY <1>2, SessionCreateOrder DEF Create
<1>3. ASSUME NEW s \in Session, NEW n \in Name, NEW m \in Name, Fork(s, n, m) PROVE InTurn'
  <2>1. PICK p \in Resolved(m) : SessionCreate(s, n, sessions[p].head) BY <1>3 DEF Fork
  <2> QED BY <2>1, SessionCreateOrder
<1>4. ASSUME NEW s \in Session, InsertSession(s) \/ ForkHead(s) PROVE InTurn' BY <1>4, MakingOrder
<1>5. ASSUME NEW s \in Session, Delete(s) PROVE InTurn' BY <1>5, OrderStays DEF Delete, Without
<1>6. ASSUME NEW c \in Chat, NEW eph \in BOOLEAN, NEW x, ChatByName(c, x, eph) \/ ChatById(c, x, eph)
      PROVE  InTurn'
  <2>1. \E s \in DOMAIN sessions : StartChat(c, s, eph) BY <1>6, ResolvedAreThere DEF ChatByName, ChatById
  <2> QED BY <2>1, StartChatOrder
<1>7. ASSUME NEW c \in Chat, ChatStep(c) \/ Disconnect(c) PROVE InTurn' BY <1>7, ChatStepOrder
<1>8. ASSUME NEW c \in Chat, NEW k \in Limit, Poll(c, k) PROVE InTurn' BY <1>1, <1>8 DEF Poll
<1>9. CASE CCCrash BY <1>9, CCCrashOrder
<1>10. CASE UNCHANGED ccVars BY <1>1, <1>10 DEF ccVars
<1> QED BY <1>2, <1>3, <1>4, <1>5, <1>6, <1>7, <1>8, <1>9, <1>10 DEF CCNext

\* chat reads the head, and session_update_head writes it, in statements far apart:
\* for any number of sessions, chats and restarts, as long as no two calls that move
\* the head of a session ran at once, the exchange of each chat that completed stays
\* on the way to the head.
THEOREM ChatsAddUp == CCSpec => []Continuity
<1>1. CCInit => InTurn BY DEF CCInit, InTurn, Movers, Idle
<1>2. HistIInv /\ InTurn /\ [CCNext]_ccVars => InTurn' BY OrderNext, HistNext DEF OrderIInv, HistStep
<1>3. HistIInv /\ InTurn => Continuity
  <2>1. SUFFICES ASSUME HistIInv, InTurn, NEW c \in Chat \ Ephemeral, chat[c].pc = "done",
                        chat[c].session \in DOMAIN sessions \ overlap
                 PROVE  Answer(c) \in OnPath(ccNodes, sessions[chat[c].session].head)
    BY DEF Continuity
  <2>2. PICK s \in Session \ overlap : s = chat[c].session /\ s \in DOMAIN sessions
    BY <2>1 DEF HistIInv, CCIInv, CCTyped, CCRows
  <2>3. c \in Movers(s) /\ Moved(chat[c]) BY <2>1, <2>2 DEF Movers, Moved
  <2> QED BY <2>1, <2>2, <2>3 DEF InTurn
<1> QED BY <1>1, <1>2, <1>3, HistInvariant, PTL DEF CCSpec
=============================================================================
