----------------------------- MODULE Induction ------------------------------
(***************************************************************************)
(* Induction over numbers, finite sets and sums. The induction theorems of *)
(* the library take operators, which the provers cannot instantiate; that  *)
(* a set of numbers has a least element (WFMin) needs only the set of the  *)
(* counterexamples.                                                        *)
(***************************************************************************)
EXTENDS Naturals, FiniteSetsExt, Functions, TLAPS, WellFoundedInduction, FiniteSetTheorems

\* A set of numbers has a least element.
LEMMA NatLeast ==
  ASSUME NEW T \in SUBSET Nat, T # {}
  PROVE  \E n \in T : \A m \in T : n <= m
<1>1. \E x \in T : \A y \in T : ~ (<<y, x>> \in OpToRel(<, Nat))
  BY NatLessThanWellFounded, WFMin
<1>2. ASSUME NEW x \in T, NEW y \in T, ~ (<<y, x>> \in OpToRel(<, Nat)) PROVE x <= y
  BY <1>2 DEF OpToRel
<1> QED BY <1>1, <1>2

\* Induction, with the property as the set of the numbers that have it.
LEMMA InductionOnNat ==
  ASSUME NEW T \in SUBSET Nat, 0 \in T, \A n \in T : n + 1 \in T
  PROVE  T = Nat
<1>1. CASE Nat \ T # {}
  <2>1. PICK n \in Nat \ T : \A m \in Nat \ T : n <= m
    <3>1. Nat \ T \in SUBSET Nat OBVIOUS
    <3> QED BY <3>1, <1>1, NatLeast
  <2>2. n - 1 \in Nat /\ n - 1 \notin T /\ ~(n <= n - 1) BY <2>1
  <2> QED BY <2>1, <2>2
<1> QED BY <1>1

\* A nonempty finite set of naturals has a largest element.
LEMMA FiniteSetBounded ==
  ASSUME NEW S \in SUBSET Nat, IsFiniteSet(S)
  PROVE  \E b \in Nat : \A x \in S : x <= b
<1> DEFINE T == {n \in Nat : \A Q \in SUBSET S :
                    IsFiniteSet(Q) /\ Cardinality(Q) = n => \E b \in Nat : \A x \in Q : x <= b}
<1>1. 0 \in T
  <2>1. ASSUME NEW Q \in SUBSET S, IsFiniteSet(Q), Cardinality(Q) = 0 PROVE \A x \in Q : x <= 0
    BY <2>1, FS_EmptySet
  <2> QED BY <2>1
<1>2. ASSUME NEW n \in T PROVE n + 1 \in T
  <2>1. SUFFICES ASSUME NEW Q \in SUBSET S, IsFiniteSet(Q), Cardinality(Q) = n + 1
                 PROVE  \E b \in Nat : \A x \in Q : x <= b
    OBVIOUS
  <2>2. Q # {} BY <2>1, FS_EmptySet
  <2>3. PICK q \in Q : TRUE BY <2>2
  <2>4. IsFiniteSet(Q \ {q}) /\ Cardinality(Q \ {q}) = n
    <3>1. n \in Nat OBVIOUS
    <3>2. Cardinality(Q \ {q}) = Cardinality(Q) - 1 /\ IsFiniteSet(Q \ {q})
      BY <2>1, FS_RemoveElement
    <3> QED BY <2>1, <3>1, <3>2
  <2>5. PICK b \in Nat : \A x \in Q \ {q} : x <= b BY <2>4
  <2>6. \A x \in Q : x <= b + q BY <2>5
  <2>7. b + q \in Nat OBVIOUS
  <2> QED BY <2>6, <2>7
<1>3. T = Nat
  <2> HIDE DEF T
  <2>1. T \in SUBSET Nat BY DEF T
  <2> QED BY <2>1, <1>1, <1>2, InductionOnNat
<1>4. Cardinality(S) \in T BY <1>3, FS_CardinalityType
<1> QED BY <1>4

\* What Max of the community modules returns.
LEMMA MaxIsLargest ==
  ASSUME NEW S \in SUBSET Nat, IsFiniteSet(S), S # {}
  PROVE  Max(S) \in S /\ \A x \in S : x <= Max(S)
<1>1. PICK b \in Nat : \A x \in S : x <= b BY FiniteSetBounded
<1> DEFINE D == {b - x : x \in S}
<1>2. D \in SUBSET Nat /\ D # {}
  <2>1. \A x \in S : b - x \in Nat BY <1>1
  <2> QED BY <2>1
<1>3. PICK d \in D : \A e \in D : d <= e BY <1>2, NatLeast
<1>4. PICK x \in S : d = b - x BY <1>3
<1>5. \A y \in S : x >= y BY <1>1, <1>3, <1>4
<1>6. \E z \in S : \A y \in S : z >= y BY <1>5
<1> QED BY <1>6 DEF Max

(***************************************************************************)
(* Sums over finite sets: SumFunction of the community modules adds the    *)
(* values of a function up, one chosen element after the other.            *)
(***************************************************************************)
Pick(s) == CHOOSE x \in s : TRUE
Partial(f, g, P) ==
    g = [s \in P |-> IF s = {} THEN 0 ELSE f[Pick(s)] + g[s \ {Pick(s)}]]

\* The recursive function that adds up exists, on all subsets of a finite set.
LEMMA SumExists ==
  ASSUME NEW S, IsFiniteSet(S), NEW f
  PROVE  \E g : Partial(f, g, SUBSET S)
<1> DEFINE Low(n) == {s \in SUBSET S : Cardinality(s) <= n}
           T == {n \in Nat : \E g : Partial(f, g, Low(n))}
<1>1. \A s \in SUBSET S : IsFiniteSet(s) /\ Cardinality(s) \in Nat /\ (Cardinality(s) = 0 <=> s = {})
  BY FS_Subset, FS_CardinalityType, FS_EmptySet
<1>2. \A s \in SUBSET S : s # {} => Pick(s) \in s /\ s \ {Pick(s)} \in SUBSET S
                                    /\ Cardinality(s \ {Pick(s)}) = Cardinality(s) - 1
  <2>1. SUFFICES ASSUME NEW s \in SUBSET S, s # {}
                 PROVE  Pick(s) \in s /\ Cardinality(s \ {Pick(s)}) = Cardinality(s) - 1
    OBVIOUS
  <2>2. Pick(s) \in s BY <2>1 DEF Pick
  <2> QED BY <2>2, <1>1, FS_RemoveElement
<1>3. 0 \in T
  <2>1. Low(0) = {{}} BY <1>1
  <2>2. Partial(f, [s \in {{}} |-> 0], {{}}) BY DEF Partial
  <2>3. Partial(f, [s \in {{}} |-> 0], Low(0)) BY <2>1, <2>2
  <2> QED BY <2>3
<1>4. ASSUME NEW n \in T PROVE n + 1 \in T
  <2>1. n \in Nat /\ n + 1 \in Nat OBVIOUS
  <2>2. PICK g : Partial(f, g, Low(n)) OBVIOUS
  <2> DEFINE h == [s \in Low(n + 1) |-> IF s = {} THEN 0 ELSE f[Pick(s)] + g[s \ {Pick(s)}]]
  <2>3. \A s \in Low(n) : s \in Low(n + 1) /\ h[s] = g[s]
    <3>1. \A s \in Low(n) : s \in Low(n + 1) BY <1>1, <2>1
    <3> QED BY <3>1, <2>2 DEF Partial
  <2>4. \A s \in Low(n + 1) : s # {} => s \ {Pick(s)} \in Low(n) BY <1>1, <1>2, <2>1
  <2>5. \A s \in Low(n + 1) : s # {} => h[s \ {Pick(s)}] = g[s \ {Pick(s)}] BY <2>3, <2>4
  <2>6. Partial(f, h, Low(n + 1))
    <3> DEFINE k == [s \in Low(n + 1) |-> IF s = {} THEN 0 ELSE f[Pick(s)] + h[s \ {Pick(s)}]]
    <3>1. \A s \in Low(n + 1) : h[s] = k[s] BY <2>5
    <3>2. h = k BY <3>1
    <3> QED BY <3>2 DEF Partial
  <2> QED BY <2>1, <2>6
<1>5. T = Nat
  <2> HIDE DEF T
  <2>1. T \in SUBSET Nat BY DEF T
  <2> QED BY <2>1, <1>3, <1>4, InductionOnNat
<1>6. Cardinality(S) \in T BY <1>5, <1>1
<1>7. Low(Cardinality(S)) = SUBSET S BY FS_Subset, <1>1
<1> QED BY <1>6, <1>7

\* SumFunction is that function on the whole domain.
LEMMA SumUnfolds ==
  ASSUME NEW S, IsFiniteSet(S), NEW f, S = DOMAIN f
  PROVE  \E g : Partial(f, g, SUBSET S) /\ SumFunction(f) = g[S]
<1> DEFINE g == CHOOSE h : Partial(f, h, SUBSET S)
<1>1. Partial(f, g, SUBSET S) BY SumExists
<1>2. SumFunction(f) = g[S]
  BY DEF SumFunction, SumFunctionOnSet, FoldFunctionOnSet, MapThenFoldSet, Partial, Pick
<1> QED BY <1>1, <1>2

\* Induction over the subsets of a finite set, in the order of the sum.
LEMMA SubsetInduction ==
  ASSUME NEW S, IsFiniteSet(S), NEW F \in SUBSET SUBSET S, {} \in F,
         \A s \in SUBSET S : s # {} /\ s \ {Pick(s)} \in F => s \in F
  PROVE  F = SUBSET S
<1> DEFINE T == {n \in Nat : \A s \in SUBSET S : Cardinality(s) = n => s \in F}
<1>1. \A s \in SUBSET S : IsFiniteSet(s) /\ Cardinality(s) \in Nat /\ (Cardinality(s) = 0 <=> s = {})
  BY FS_Subset, FS_CardinalityType, FS_EmptySet
<1>2. 0 \in T BY <1>1
<1>3. ASSUME NEW n \in T PROVE n + 1 \in T
  <2>1. n \in Nat /\ n + 1 \in Nat OBVIOUS
  <2>2. SUFFICES ASSUME NEW s \in SUBSET S, Cardinality(s) = n + 1 PROVE s \in F BY <2>1
  <2>3. s # {} BY <1>1, <2>1, <2>2
  <2>4. Pick(s) \in s BY <2>3 DEF Pick
  <2>5. Cardinality(s \ {Pick(s)}) = n
    <3>1. Cardinality(s \ {Pick(s)}) = Cardinality(s) - 1 BY <2>4, <1>1, FS_RemoveElement
    <3> QED BY <3>1, <2>1, <2>2
  <2>6. s \ {Pick(s)} \in F BY <2>5
  <2> QED BY <2>3, <2>6
<1>4. T = Nat
  <2> HIDE DEF T
  <2>1. T \in SUBSET Nat BY DEF T
  <2> QED BY <2>1, <1>2, <1>3, InductionOnNat
<1> QED BY <1>1, <1>4

\* A sum of naturals is a natural, and is zero only if every summand is.
LEMMA SumOfNaturals ==
  ASSUME NEW S, IsFiniteSet(S), NEW f \in [S -> Nat]
  PROVE  /\ SumFunction(f) \in Nat
         /\ SumFunction(f) = 0 <=> \A x \in S : f[x] = 0
<1>1. PICK g : Partial(f, g, SUBSET S) /\ SumFunction(f) = g[S] BY SumUnfolds
<1> DEFINE F == {s \in SUBSET S : g[s] \in Nat /\ (g[s] = 0 <=> \A x \in s : f[x] = 0)}
<1>2. {} \in F BY <1>1 DEF Partial
<1>3. ASSUME NEW s \in SUBSET S, s # {}, s \ {Pick(s)} \in F PROVE s \in F
  <2>1. Pick(s) \in s BY <1>3 DEF Pick
  <2>2. f[Pick(s)] \in Nat BY <2>1
  <2>3. g[s] = f[Pick(s)] + g[s \ {Pick(s)}] BY <1>1, <1>3 DEF Partial
  <2>4. g[s] \in Nat BY <2>2, <2>3, <1>3
  <2>5. g[s] = 0 <=> (f[Pick(s)] = 0 /\ g[s \ {Pick(s)}] = 0) BY <2>2, <2>3, <1>3
  <2> QED BY <2>1, <2>4, <2>5, <1>3
<1>4. F = SUBSET S
  <2> HIDE DEF F
  <2>1. F \in SUBSET SUBSET S BY DEF F
  <2> QED BY <2>1, <1>2, <1>3, SubsetInduction
<1>5. S \in F BY <1>4
<1> QED BY <1>1, <1>5

\* Adding to one summand adds to the sum.
LEMMA SumAtOnePoint ==
  ASSUME NEW S, IsFiniteSet(S), NEW f \in [S -> Nat], NEW h \in [S -> Nat],
         NEW o \in S, NEW k \in Nat,
         h[o] = f[o] + k, \A x \in S \ {o} : h[x] = f[x]
  PROVE  SumFunction(h) = SumFunction(f) + k
<1>1. PICK g : Partial(f, g, SUBSET S) /\ SumFunction(f) = g[S] BY SumUnfolds
<1>2. PICK e : Partial(h, e, SUBSET S) /\ SumFunction(h) = e[S] BY SumUnfolds
<1> DEFINE F == {s \in SUBSET S : g[s] \in Nat /\ e[s] = IF o \in s THEN g[s] + k ELSE g[s]}
<1>3. {} \in F BY <1>1, <1>2 DEF Partial
<1>4. ASSUME NEW s \in SUBSET S, s # {}, s \ {Pick(s)} \in F PROVE s \in F
  <2>1. Pick(s) \in s BY <1>4 DEF Pick
  <2>2. f[Pick(s)] \in Nat BY <2>1
  <2>3. g[s] = f[Pick(s)] + g[s \ {Pick(s)}] BY <1>1, <1>4 DEF Partial
  <2>4. e[s] = h[Pick(s)] + e[s \ {Pick(s)}] BY <1>2, <1>4 DEF Partial
  <2>5. CASE Pick(s) = o BY <2>1, <2>2, <2>3, <2>4, <2>5, <1>4
  <2>6. CASE Pick(s) # o
    <3>1. h[Pick(s)] = f[Pick(s)] BY <2>1, <2>6
    <3> QED BY <2>1, <2>2, <2>3, <2>4, <2>6, <3>1, <1>4
  <2> QED BY <2>5, <2>6
<1>5. F = SUBSET S
  <2> HIDE DEF F
  <2>1. F \in SUBSET SUBSET S BY DEF F
  <2> QED BY <2>1, <1>3, <1>4, SubsetInduction
<1>6. S \in F BY <1>5
<1> QED BY <1>1, <1>2, <1>6

\* The function that starts at x and goes on with s exists.
Iterating(f, S, s, x) == f \in [Nat -> S] /\ f[0] = x /\ \A k \in Nat : f[k + 1] = s[f[k]]

LEMMA Iterates ==
  ASSUME NEW S, NEW s \in [S -> S], NEW x \in S
  PROVE  \E f : Iterating(f, S, s, x)
<1> DEFINE Upto(n, f) == f \in [0 .. n -> S] /\ f[0] = x /\ \A k \in 0 .. n : k + 1 <= n => f[k + 1] = s[f[k]]
           T == {n \in Nat : \E f : Upto(n, f)}
<1>1. 0 \in T
  <2>1. PICK f : f = [k \in 0 .. 0 |-> x] OBVIOUS
  <2>2. Upto(0, f) BY <2>1
  <2> QED BY <2>2
<1>2. ASSUME NEW n \in T PROVE n + 1 \in T
  <2>1. PICK f : Upto(n, f) OBVIOUS
  <2>2. PICK h : h = [k \in 0 .. (n + 1) |-> IF k <= n THEN f[k] ELSE s[f[n]]] OBVIOUS
  <2>3. n \in Nat /\ n + 1 \in Nat OBVIOUS
  <2>4. \A k \in 0 .. n : h[k] = f[k] /\ f[k] \in S BY <2>1, <2>2, <2>3
  <2>5. h[n + 1] = s[f[n]] /\ f[n] \in S BY <2>1, <2>2, <2>3
  <2>6. h \in [0 .. (n + 1) -> S] BY <2>1, <2>2, <2>3
  <2>7. ASSUME NEW k \in 0 .. (n + 1), k + 1 <= n + 1 PROVE h[k + 1] = s[h[k]]
    <3>1. CASE k = n BY <2>3, <2>4, <2>5, <3>1
    <3>2. CASE k # n
      <4>1. k \in 0 .. n /\ k + 1 \in 0 .. n BY <2>3, <2>7, <3>2
      <4> QED BY <2>1, <2>4, <4>1
    <3> QED BY <3>1, <3>2
  <2>8. Upto(n + 1, h) BY <2>1, <2>3, <2>4, <2>6, <2>7
  <2> QED BY <2>3, <2>8
<1>3. T = Nat
  <2> HIDE DEF T
  <2>1. T \in SUBSET Nat BY DEF T
  <2> QED BY <1>1, <1>2, <2>1, InductionOnNat
<1>4. \A n \in Nat : \E f : Upto(n, f) BY <1>3
<1>5. PICK g : \A n \in Nat : Upto(n, g[n])
  <2> DEFINE h == [n \in Nat |-> CHOOSE f : Upto(n, f)]
  <2>1. \A n \in Nat : Upto(n, h[n])
    <3> HIDE DEF Upto
    <3> QED BY <1>4
  <2> HIDE DEF h
  <2> QED BY <2>1
<1>6. ASSUME NEW n \in Nat PROVE \A k \in 0 .. n : g[n + 1][k] = g[n][k]
  <2> DEFINE U == {k \in Nat : k <= n => g[n + 1][k] = g[n][k]}
  <2>1. PICK f, h : f = g[n] /\ h = g[n + 1] OBVIOUS
  <2>2. Upto(n, f) /\ Upto(n + 1, h)
    <3> HIDE DEF Upto
    <3>1. n + 1 \in Nat OBVIOUS
    <3> QED BY <1>5, <2>1, <3>1
  <2>3. 0 \in U BY <2>1, <2>2
  <2>4. ASSUME NEW k \in U PROVE k + 1 \in U
    <3>1. SUFFICES ASSUME k + 1 <= n PROVE h[k + 1] = f[k + 1] BY <2>1
    <3>2. k \in 0 .. n /\ k \in 0 .. (n + 1) /\ k + 1 <= n + 1 BY <3>1
    <3>3. h[k] = f[k] BY <2>1, <3>2
    <3> QED BY <2>2, <3>1, <3>2, <3>3
  <2>5. U = Nat
    <3> HIDE DEF U
    <3>1. U \in SUBSET Nat BY DEF U
    <3> QED BY <2>3, <2>4, <3>1, InductionOnNat
  <2> QED BY <2>5
<1>7. PICK f : f = [n \in Nat |-> g[n][n]] OBVIOUS
<1>8. \A n \in Nat : f[n] = g[n][n] /\ g[n][n] \in S
  <2>1. \A n \in Nat : n \in 0 .. n OBVIOUS
  <2> QED BY <1>5, <1>7, <2>1
<1>9. ASSUME NEW k \in Nat PROVE f[k + 1] = s[f[k]]
  <2>1. PICK h : h = g[k + 1] OBVIOUS
  <2>2. Upto(k + 1, h) BY <1>5, <2>1
  <2>3. k \in 0 .. (k + 1) /\ k \in 0 .. k OBVIOUS
  <2>5. h[k + 1] = s[h[k]] BY <2>2, <2>3
  <2>4. h[k] = g[k][k] BY <1>6, <2>1, <2>3
  <2> QED BY <1>8, <2>1, <2>4, <2>5
<1>10. f[0] = x BY <1>5, <1>8
<1>11. f \in [Nat -> S]
  <2> QED BY <1>7, <1>8
<1> QED BY <1>9, <1>10, <1>11 DEF Iterating

\* A set that grows step by step inside a finite one has come to rest after as many
\* steps as that one has elements.
LEMMA Saturates ==
  ASSUME NEW S, IsFiniteSet(S), NEW f \in [Nat -> SUBSET S], NEW s \in [SUBSET S -> SUBSET S],
         \A k \in Nat : f[k + 1] = s[f[k]] /\ f[k] \subseteq f[k + 1],
         NEW N \in Nat, Cardinality(S) <= N
  PROVE  s[f[N]] = f[N]
<1> DEFINE T == {k \in Nat : f[k + 1] = f[k] \/ k <= Cardinality(f[k])}
<1>0. Cardinality(S) \in Nat BY FS_CardinalityType
<1>1. \A k \in Nat : IsFiniteSet(f[k]) /\ Cardinality(f[k]) \in Nat /\ Cardinality(f[k]) <= Cardinality(S)
  BY FS_Subset, FS_CardinalityType
<1>2. 0 \in T BY <1>1
<1>3. ASSUME NEW k \in T PROVE k + 1 \in T
  <2>1. k \in Nat /\ k + 1 \in Nat OBVIOUS
  <2>2. CASE f[k + 1] = f[k]
    <3>1. f[(k + 1) + 1] = f[k + 1] BY <2>1, <2>2
    <3> QED BY <2>1, <3>1
  <2>3. CASE f[k + 1] # f[k]
    <3>1. k <= Cardinality(f[k]) BY <2>3
    <3>2. Cardinality(f[k]) <= Cardinality(f[k + 1]) /\ Cardinality(f[k]) # Cardinality(f[k + 1])
      <4>1. PICK A, B : A = f[k] /\ B = f[k + 1] OBVIOUS
      <4>2. A \subseteq B /\ A # B /\ IsFiniteSet(B) BY <1>1, <2>1, <2>3, <4>1
      <4>3. Cardinality(A) <= Cardinality(B) /\ (Cardinality(A) = Cardinality(B) => A = B)
        BY <4>2, FS_Subset
      <4> QED BY <4>1, <4>2, <4>3
    <3>3. k + 1 <= Cardinality(f[k + 1]) BY <1>1, <2>1, <3>1, <3>2, SMTT(30)
    <3> QED BY <2>1, <3>3
  <2> QED BY <2>2, <2>3
<1>4. T = Nat
  <2> HIDE DEF T
  <2>1. T \in SUBSET Nat BY DEF T
  <2> QED BY <1>2, <1>3, <2>1, InductionOnNat
<1>5. f[N + 1] = f[N] \/ N <= Cardinality(f[N]) BY <1>4
<1>6. CASE N <= Cardinality(f[N])
  <2>1. PICK A : A = f[N] /\ A \subseteq S OBVIOUS
  <2>2. Cardinality(A) = Cardinality(S) BY <1>0, <1>1, <1>6, <2>1, SMTT(30)
  <2>3. A = S BY <2>1, <2>2, FS_Subset
  <2> QED BY <2>1, <2>3
<1> QED BY <1>5, <1>6
=============================================================================
