--------------------------- MODULE ComputationProofs ---------------------------
(***************************************************************************)
(* Theorems about the modules that compute: what the ticket compiler makes *)
(* of every file, what render_messages makes of every conversation, and    *)
(* view_collapse_text_runs of one without branches.  They are proved by    *)
(* induction over the length of the input, with the lemmas on sequences of *)
(* sequences that come first.                                              *)
(***************************************************************************)
EXTENDS Tickets, TreeViews, Rendering, Induction, SequenceTheorems

(***************************************************************************)
(* Recursion along a sequence.                                             *)
(***************************************************************************)
\* A value that is computed step by step along 1 .. N exists.
Stepping(f, S, N, b, st) ==
    f \in [0 .. N -> S] /\ f[0] = b /\ \A k \in 1 .. N : f[k] = st[<<f[k - 1], k>>]

LEMMA Stepwise ==
  ASSUME NEW S, NEW N \in Nat, NEW b \in S, NEW st \in [S \X (1 .. N) -> S]
  PROVE  \E f : Stepping(f, S, N, b, st)
<1>1. PICK P, x : P = S \X Nat /\ x = <<b, 0>> OBVIOUS
<1>2. PICK s : s = [p \in P |-> <<IF p[2] + 1 \in 1 .. N THEN st[<<p[1], p[2] + 1>>] ELSE p[1], p[2] + 1>>]
  OBVIOUS
<1>3. s \in [P -> P] /\ x \in P
  <2>1. ASSUME NEW p \in P PROVE s[p] \in P
    <3>1. p[1] \in S /\ p[2] \in Nat BY <1>1
    <3> QED BY <1>1, <1>2, <3>1
  <2> QED BY <1>1, <1>2, <2>1
<1>4. PICK f : Iterating(f, P, s, x) BY <1>3, Iterates
<1>5. f \in [Nat -> P] /\ f[0] = x /\ \A k \in Nat : f[k + 1] = s[f[k]] BY <1>4 DEF Iterating
<1>6. \A k \in Nat : f[k][1] \in S /\ f[k][2] \in Nat BY <1>1, <1>5
<1>7. \A k \in Nat : f[k][2] = k
  <2> DEFINE T == {k \in Nat : f[k][2] = k}
  <2>1. 0 \in T BY <1>1, <1>5
  <2>2. ASSUME NEW k \in T PROVE k + 1 \in T
    <3>1. f[k] \in P /\ f[k + 1] = s[f[k]] BY <1>5
    <3> QED BY <1>2, <3>1
  <2>3. T = Nat
    <3> HIDE DEF T
    <3>1. T \in SUBSET Nat BY DEF T
    <3> QED BY <2>1, <2>2, <3>1, InductionOnNat
  <2> QED BY <2>3
<1>8. PICK h : h = [k \in 0 .. N |-> f[k][1]] OBVIOUS
<1>9. h \in [0 .. N -> S] BY <1>6, <1>8
<1>10. h[0] = b BY <1>1, <1>5, <1>8
<1>11. ASSUME NEW k \in 1 .. N PROVE h[k] = st[<<h[k - 1], k>>]
  <2>1. k - 1 \in Nat /\ (k - 1) + 1 = k /\ k \in 0 .. N /\ k - 1 \in 0 .. N OBVIOUS
  <2>2. f[k] = s[f[k - 1]] /\ f[k - 1] \in P /\ f[k - 1][2] = k - 1 BY <1>5, <1>7, <2>1
  <2>3. f[k][1] = st[<<f[k - 1][1], k>>] BY <1>2, <2>1, <2>2
  <2> QED BY <1>8, <2>1, <2>3
<1> QED BY <1>9, <1>10, <1>11 DEF Stepping

\* What a concatenation consists of.
LEMMA Concatenated ==
  ASSUME NEW S, NEW x \in Seq(S), NEW y \in Seq(S)
  PROVE  /\ x \o y \in Seq(S) /\ Len(x \o y) = Len(x) + Len(y) /\ Len(x) \in Nat /\ Len(y) \in Nat
         /\ \A p \in 1 .. Len(x) : (x \o y)[p] = x[p]
         /\ \A m \in 1 .. Len(y) : (x \o y)[Len(x) + m] = y[m]
OBVIOUS

LEMMA NothingBefore ==
  ASSUME NEW S, NEW y \in Seq(S)
  PROVE  <<>> \o y = y
OBVIOUS

\* What FlattenSeq has put together after k of the sequences.
Flattens(g, seqs) ==
    g[0] = <<>> /\ \A k \in 1 .. Len(seqs) : g[k] = g[k - 1] \o seqs[k]

LEMMA FlattenUnfolds ==
  ASSUME NEW S, NEW seqs \in Seq(Seq(S))
  PROVE  \E g \in [0 .. Len(seqs) -> Seq(S)] : Flattens(g, seqs) /\ FlattenSeq(seqs) = g[Len(seqs)]
<1>1. PICK N \in Nat : N = Len(seqs) OBVIOUS
<1>2. PICK Q : Q = Seq(S) OBVIOUS
<1>20. PICK b : b = <<>> OBVIOUS
<1>21. b \in Q BY <1>2, <1>20
<1>3. \A k \in 1 .. N : seqs[k] \in Q BY <1>1, <1>2
<1>4. PICK st : st = [p \in Q \X (1 .. N) |-> p[1] \o seqs[p[2]]] OBVIOUS
<1>5. st \in [Q \X (1 .. N) -> Q] BY <1>2, <1>3, <1>4
<1>60. PICK g : Stepping(g, Q, N, b, st) BY <1>5, <1>21, Stepwise
<1>6. g \in [0 .. N -> Q] /\ g[0] = b /\ \A k \in 1 .. N : g[k] = st[<<g[k - 1], k>>]
  BY <1>60 DEF Stepping
<1>7. ASSUME NEW k \in 1 .. N PROVE g[k] = g[k - 1] \o seqs[k]
  <2>1. k - 1 \in 0 .. N OBVIOUS
  <2> QED BY <1>4, <1>6, <2>1
<1>8. Flattens(g, seqs) BY <1>1, <1>6, <1>7, <1>20 DEF Flattens
<1>70. N # 0 => g[1] = seqs[1]
  <2>1. SUFFICES ASSUME N # 0 PROVE g[1] = seqs[1] OBVIOUS
  <2>2. 1 \in 1 .. N /\ 1 - 1 = 0 BY <2>1
  <2>3. g[1] = g[0] \o seqs[1] /\ g[0] = <<>> BY <1>6, <1>7, <1>20, <2>2
  <2>4. seqs[1] \in Seq(S) BY <1>2, <1>3, <2>2
  <2> QED BY <2>3, <2>4, NothingBefore
<1>9. FlattenSeq(seqs) = g[N]
  <2>1. CASE N = 0
    <3>1. FlattenSeq(seqs) = seqs BY <1>1, <2>1 DEF FlattenSeq
    <3>2. seqs = <<>>
      <4>1. seqs \in Seq(Q) /\ Len(seqs) = 0 BY <1>1, <1>2, <2>1
      <4> QED BY <4>1
    <3> QED BY <1>6, <1>20, <2>1, <3>1, <3>2
  <2>2. CASE N # 0
    <3> DEFINE Joins(f) == f = [i \in 1 .. N |-> IF i = 1 THEN seqs[i] ELSE f[i - 1] \o seqs[i]]
               c == CHOOSE f : Joins(f)
    <3>1. FlattenSeq(seqs) = c[N] BY <1>1, <2>2 DEF FlattenSeq
    <3>2. \E f : Joins(f)
      <4>1. PICK h : h = [i \in 1 .. N |-> g[i]] OBVIOUS
      <4>2. ASSUME NEW i \in 1 .. N PROVE h[i] = IF i = 1 THEN seqs[i] ELSE h[i - 1] \o seqs[i]
        <5>1. CASE i = 1 BY <1>70, <2>2, <4>1, <5>1
        <5>2. CASE i # 1
          <6>1. i - 1 \in 1 .. N BY <5>2
          <6> QED BY <1>7, <4>1, <5>2, <6>1
        <5> QED BY <5>1, <5>2
      <4>3. Joins(h) BY <4>1, <4>2
      <4> QED BY <4>3
    <3>3. Joins(c)
      <4> HIDE DEF Joins
      <4> QED BY <3>2
    <3>4. PICK f : f = c OBVIOUS
    <3>5. \A i \in 1 .. N : f[i] = IF i = 1 THEN seqs[i] ELSE f[i - 1] \o seqs[i]
      <4>1. Joins(f) BY <3>3, <3>4, ZenonT(40)
      <4> HIDE DEF c
      <4> QED BY <4>1
    <3> HIDE DEF c
    <3> DEFINE T == {n \in Nat : n + 1 <= N => f[n + 1] = g[n + 1]}
    <3>6. 0 \in T
      <4>1. 1 \in 1 .. N BY <2>2
      <4> QED BY <1>70, <2>2, <3>5, <4>1
    <3>7. ASSUME NEW n \in T PROVE n + 1 \in T
      <4>1. SUFFICES ASSUME (n + 1) + 1 <= N PROVE f[(n + 1) + 1] = g[(n + 1) + 1] OBVIOUS
      <4>2. PICK m : m = (n + 1) + 1 OBVIOUS
      <4>3. m \in 1 .. N /\ m # 1 /\ m - 1 = n + 1 BY <4>1, <4>2
      <4>4. f[m - 1] = g[m - 1] BY <4>1, <4>3
      <4> QED BY <1>7, <3>5, <4>2, <4>3, <4>4
    <3>8. T = Nat
      <4> HIDE DEF T
      <4>1. T \in SUBSET Nat BY DEF T
      <4> QED BY <3>6, <3>7, <4>1, InductionOnNat
    <3>9. f[N] = g[N]
      <4>1. PICK n : n = N - 1 OBVIOUS
      <4>2. n \in Nat /\ n + 1 = N BY <2>2, <4>1
      <4>3. n \in T BY <3>8, <4>2
      <4> QED BY <4>2, <4>3
    <3> QED BY <3>1, <3>4, <3>9
  <2> QED BY <2>1, <2>2
<1>10. g \in [0 .. Len(seqs) -> Seq(S)] BY <1>1, <1>2, <1>6
<1> QED BY <1>1, <1>8, <1>9, <1>10

\* Where its elements are: those of the k-th sequence are behind off[k] others.
Places(F, seqs, off) ==
    /\ off \in [DOMAIN seqs -> Nat]
    /\ \A k \in DOMAIN seqs : \A m \in DOMAIN seqs[k] :
          off[k] + m \in DOMAIN F /\ F[off[k] + m] = seqs[k][m]
    /\ \A p \in DOMAIN F : \E k \in DOMAIN seqs : \E m \in DOMAIN seqs[k] : p = off[k] + m
    /\ \A k, l \in DOMAIN seqs : k < l => off[k] + Len(seqs[k]) <= off[l]

\* The same of x, in which the first n of the sequences are put together.
Joined(x, seqs, off, n) ==
    /\ \A k \in 1 .. n : \A m \in 1 .. Len(seqs[k]) :
          off[k] + m \in 1 .. Len(x) /\ x[off[k] + m] = seqs[k][m]
    /\ \A p \in 1 .. Len(x) : \E k \in 1 .. n : \E m \in 1 .. Len(seqs[k]) : p = off[k] + m
    /\ \A k \in 1 .. n : off[k] + Len(seqs[k]) <= Len(x)

LEMMA PlaceOneMore ==
  ASSUME NEW S, NEW seqs \in Seq(Seq(S)), NEW off \in [1 .. Len(seqs) -> Nat], NEW x \in Seq(S),
         NEW n \in Nat, NEW q, q = n + 1, q <= Len(seqs), off[q] = Len(x), Joined(x, seqs, off, n),
         NEW z, z = x \o seqs[q]
  PROVE  z \in Seq(S) /\ Joined(z, seqs, off, q)
<1>1. PICK N \in Nat : N = Len(seqs) /\ \A k \in 1 .. N : seqs[k] \in Seq(S) OBVIOUS
<1>2. q \in 1 .. N /\ q \in Nat BY <1>1
<1>3. PICK y \in Seq(S) : y = seqs[q] BY <1>1, <1>2
<1>4. PICK a, b : a = Len(x) /\ b = Len(y) OBVIOUS
<1>5. /\ z \in Seq(S) /\ Len(z) = a + b /\ a \in Nat /\ b \in Nat
      /\ \A p \in 1 .. a : z[p] = x[p]
      /\ \A m \in 1 .. b : z[a + m] = y[m]
  BY <1>3, <1>4, Concatenated
<1>6. \A k \in 1 .. n : k \in 1 .. N /\ off[k] \in Nat /\ Len(seqs[k]) \in Nat
  <2>1. \A k \in 1 .. n : k \in 1 .. N BY <1>1
  <2>2. off \in [1 .. N -> Nat] BY <1>1
  <2>3. \A k \in 1 .. N : Len(seqs[k]) \in Nat BY <1>1
  <2> QED BY <2>1, <2>2, <2>3
<1>7. \A k \in 1 .. q : k = q \/ k \in 1 .. n OBVIOUS
<1>8. off[q] = a /\ Len(seqs[q]) = b BY <1>3, <1>4
<1>9. ASSUME NEW k \in 1 .. q, NEW m \in 1 .. Len(seqs[k])
      PROVE  off[k] + m \in 1 .. Len(z) /\ z[off[k] + m] = seqs[k][m]
  <2>1. CASE k = q
    <3>1. m \in 1 .. b /\ a + m \in 1 .. a + b BY <1>5, <1>8, <2>1
    <3> QED BY <1>3, <1>5, <1>8, <2>1, <3>1
  <2>2. CASE k \in 1 .. n
    <3>1. PICK i : i = off[k] + m OBVIOUS
    <3>2. i \in 1 .. a /\ x[i] = seqs[k][m] BY <1>4, <2>2, <3>1 DEF Joined
    <3>3. i \in 1 .. a + b /\ z[i] = x[i] BY <1>5, <3>2, SMTT(30)
    <3> QED BY <1>5, <3>1, <3>2, <3>3
  <2> QED BY <1>7, <2>1, <2>2
<1>10. ASSUME NEW p \in 1 .. Len(z) PROVE \E k \in 1 .. q : \E m \in 1 .. Len(seqs[k]) : p = off[k] + m
  <2>1. CASE p <= a
    <3>1. p \in 1 .. Len(x) BY <1>4, <1>5, <2>1
    <3>2. PICK k \in 1 .. n : \E m \in 1 .. Len(seqs[k]) : p = off[k] + m BY <3>1 DEF Joined
    <3>3. k \in 1 .. q OBVIOUS
    <3> QED BY <3>2, <3>3
  <2>2. CASE ~(p <= a)
    <3>1. PICK m : m = p - a OBVIOUS
    <3>2. m \in 1 .. b /\ p = a + m BY <1>5, <2>2, <3>1
    <3>3. q \in 1 .. q BY <1>2
    <3> QED BY <1>8, <3>2, <3>3
  <2> QED BY <2>1, <2>2
<1>11. ASSUME NEW k \in 1 .. q PROVE off[k] + Len(seqs[k]) <= Len(z)
  <2>1. CASE k = q BY <1>5, <1>8, <2>1
  <2>2. CASE k \in 1 .. n
    <3>1. off[k] + Len(seqs[k]) <= a BY <1>4, <2>2 DEF Joined
    <3> QED BY <1>5, <1>6, <2>2, <3>1, SMTT(30)
  <2> QED BY <1>7, <2>1, <2>2
<1> QED BY <1>5, <1>9, <1>10, <1>11 DEF Joined

LEMMA FlattenPlaces ==
  ASSUME NEW S, NEW seqs \in Seq(Seq(S))
  PROVE  /\ FlattenSeq(seqs) \in Seq(S)
         /\ \E off : Places(FlattenSeq(seqs), seqs, off)
<1>1. PICK N \in Nat : N = Len(seqs) /\ DOMAIN seqs = 1 .. N OBVIOUS
<1>20. PICK g \in [0 .. Len(seqs) -> Seq(S)] : Flattens(g, seqs) /\ FlattenSeq(seqs) = g[Len(seqs)]
  BY FlattenUnfolds
<1>2. g \in [0 .. N -> Seq(S)] /\ Flattens(g, seqs) /\ FlattenSeq(seqs) = g[N] BY <1>1, <1>20
<1>3. PICK off : off = [k \in 1 .. N |-> Len(g[k - 1])] OBVIOUS
<1>4. \A k \in 0 .. N : g[k] \in Seq(S) /\ Len(g[k]) \in Nat BY <1>2
<1>5. \A k \in 1 .. N : k - 1 \in 0 .. N OBVIOUS
<1>6. off \in [1 .. N -> Nat] BY <1>3, <1>4, <1>5
<1> DEFINE T == {n \in Nat : n <= N => Joined(g[n], seqs, off, n)}
<1>8. 0 \in T
  <2>1. g[0] = <<>> BY <1>2 DEF Flattens
  <2>2. PICK e : e = <<>> OBVIOUS
  <2>3. Len(e) = 0 BY <2>2
  <2>4. Joined(e, seqs, off, 0) BY <2>3 DEF Joined
  <2> QED BY <2>1, <2>2, <2>4
<1>9. ASSUME NEW n \in T PROVE n + 1 \in T
  <2>1. SUFFICES ASSUME n + 1 <= N PROVE Joined(g[n + 1], seqs, off, n + 1) OBVIOUS
  <2>2. PICK q : q = n + 1 OBVIOUS
  <2>3. q \in 1 .. N /\ n \in 0 .. N /\ q - 1 = n /\ n \in Nat BY <2>1, <2>2
  <2>4. PICK x : x = g[n] OBVIOUS
  <2>5. x \in Seq(S) /\ off[q] = Len(x) /\ Joined(x, seqs, off, n) BY <1>3, <1>4, <2>1, <2>3, <2>4
  <2>6. PICK z : z = x \o seqs[q] OBVIOUS
  <2>7. z = g[q] BY <1>1, <1>2, <2>3, <2>4, <2>6 DEF Flattens
  <2>8. Joined(z, seqs, off, q)
    <3>1. off \in [1 .. Len(seqs) -> Nat] /\ q <= Len(seqs) BY <1>1, <1>6, <2>3
    <3> QED BY <2>2, <2>3, <2>5, <2>6, <3>1, PlaceOneMore
  <2> QED BY <2>2, <2>7, <2>8
<1>10. T = Nat
  <2> HIDE DEF T
  <2>1. T \in SUBSET Nat BY DEF T
  <2> QED BY <1>8, <1>9, <2>1, InductionOnNat
<1>11. \A n \in 0 .. N : Joined(g[n], seqs, off, n) BY <1>10
<1>12. ASSUME NEW k \in 1 .. N, NEW l \in 1 .. N, k < l PROVE off[k] + Len(seqs[k]) <= off[l]
  <2>1. PICK m : m = l - 1 OBVIOUS
  <2>2. m \in 0 .. N /\ k \in 1 .. m BY <1>12, <2>1
  <2>3. off[k] + Len(seqs[k]) <= Len(g[m]) BY <1>11, <2>2 DEF Joined
  <2> QED BY <1>3, <2>1, <2>3
<1>13. PICK F : F = g[N] OBVIOUS
<1>14. F \in Seq(S) /\ DOMAIN F = 1 .. Len(F) /\ Joined(F, seqs, off, N)
  <2>1. N \in 0 .. N OBVIOUS
  <2>2. g[N] \in Seq(S) /\ Joined(g[N], seqs, off, N) BY <1>4, <1>11, <2>1
  <2> QED BY <1>13, <2>2
<1>15. \A k \in DOMAIN seqs : DOMAIN seqs[k] = 1 .. Len(seqs[k]) OBVIOUS
<1>16. \A k \in DOMAIN seqs : \A m \in DOMAIN seqs[k] :
          off[k] + m \in DOMAIN F /\ F[off[k] + m] = seqs[k][m]
  BY <1>1, <1>14, <1>15 DEF Joined
<1>17. \A p \in DOMAIN F : \E k \in DOMAIN seqs : \E m \in DOMAIN seqs[k] : p = off[k] + m
  <2>1. SUFFICES ASSUME NEW p \in DOMAIN F
                 PROVE  \E k \in DOMAIN seqs : \E m \in DOMAIN seqs[k] : p = off[k] + m
    OBVIOUS
  <2>2. PICK k \in 1 .. N : \E m \in 1 .. Len(seqs[k]) : p = off[k] + m BY <1>14 DEF Joined
  <2> QED BY <1>1, <1>15, <2>2
<1>18. off \in [DOMAIN seqs -> Nat] BY <1>1, <1>6
<1>19. Places(F, seqs, off)
  <2>1. \A k, l \in DOMAIN seqs : k < l => off[k] + Len(seqs[k]) <= off[l] BY <1>1, <1>12
  <2> QED BY <1>16, <1>17, <1>18, <2>1 DEF Places
<1> QED BY <1>2, <1>13, <1>14, <1>19

\* The elements of the flattened sequence are those of the sequences.
LEMMA FlattenRange ==
  ASSUME NEW S, NEW seqs \in Seq(Seq(S)), NEW x
  PROVE  x \in Range(FlattenSeq(seqs)) <=> \E k \in DOMAIN seqs : x \in Range(seqs[k])
<1>1. PICK F : F = FlattenSeq(seqs) OBVIOUS
<1>2. PICK off : Places(F, seqs, off) BY <1>1, FlattenPlaces
<1>3. ASSUME NEW p \in DOMAIN F, x = F[p] PROVE \E k \in DOMAIN seqs : x \in Range(seqs[k])
  <2>1. PICK k \in DOMAIN seqs : \E m \in DOMAIN seqs[k] : p = off[k] + m BY <1>2 DEF Places
  <2>2. PICK m \in DOMAIN seqs[k] : p = off[k] + m BY <2>1
  <2>3. x = seqs[k][m] BY <1>2, <1>3, <2>2 DEF Places
  <2> QED BY <2>3 DEF Range
<1>4. ASSUME NEW k \in DOMAIN seqs, x \in Range(seqs[k]) PROVE x \in Range(F)
  <2>1. PICK m \in DOMAIN seqs[k] : x = seqs[k][m] BY <1>4 DEF Range
  <2>2. off[k] + m \in DOMAIN F /\ F[off[k] + m] = x BY <1>2, <2>1 DEF Places
  <2> QED BY <2>2 DEF Range
<1> QED BY <1>1, <1>3, <1>4 DEF Range

\* If it has nothing twice, then neither has any of the sequences, nor any two.
LEMMA FlattenApart ==
  ASSUME NEW S, NEW seqs \in Seq(Seq(S)), IsInjective(FlattenSeq(seqs)),
         NEW k \in DOMAIN seqs, NEW l \in DOMAIN seqs, NEW x, x \in Range(seqs[k]), x \in Range(seqs[l])
  PROVE  k = l
<1>1. PICK F : F = FlattenSeq(seqs) OBVIOUS
<1>2. PICK off : Places(F, seqs, off) BY <1>1, FlattenPlaces
<1>3. PICK m \in DOMAIN seqs[k], j \in DOMAIN seqs[l] : x = seqs[k][m] /\ x = seqs[l][j] BY DEF Range
<1>4. off[k] + m = off[l] + j
  <2>1. /\ off[k] + m \in DOMAIN F /\ F[off[k] + m] = x
        /\ off[l] + j \in DOMAIN F /\ F[off[l] + j] = x
    BY <1>2, <1>3 DEF Places
  <2> QED BY <1>1, <2>1 DEF IsInjective
<1>5. /\ k \in Nat /\ l \in Nat /\ off[k] \in Nat /\ off[l] \in Nat
      /\ m \in 1 .. Len(seqs[k]) /\ j \in 1 .. Len(seqs[l]) /\ Len(seqs[k]) \in Nat /\ Len(seqs[l]) \in Nat
  <2>1. seqs[k] \in Seq(S) /\ seqs[l] \in Seq(S) /\ k \in Nat /\ l \in Nat OBVIOUS
  <2>2. off[k] \in Nat /\ off[l] \in Nat BY <1>2 DEF Places
  <2>3. \A y \in Seq(S) : DOMAIN y = 1 .. Len(y) /\ Len(y) \in Nat OBVIOUS
  <2> QED BY <1>3, <2>1, <2>2, <2>3
<1>6. (k < l => off[k] + Len(seqs[k]) <= off[l]) /\ (l < k => off[l] + Len(seqs[l]) <= off[k])
  BY <1>2 DEF Places
<1> QED BY <1>4, <1>5, <1>6, SMTT(30)
-----------------------------------------------------------------------------
(***************************************************************************)
(* Tickets: what the compiler makes of the lines of a file.                *)
(***************************************************************************)
Names == Seq(STRING \cup {"validate"})
SectionRow == [name : Names, type : STRING, lines : Seq(Line)]
TicketRow == [name : Names, type : STRING, deps : Seq(Names), validate : BOOLEAN, body : BOOLEAN]
EdgeRow == [from : Names, to : Names]

\* The last element of a sequence with a property, the property as the set T of indices.
LEMMA LastOf ==
  ASSUME NEW N \in Nat, NEW T \in SUBSET (1 .. N)
  PROVE  (IF T # {} THEN Max(T) ELSE 0) \in T \/ (T = {} /\ (IF T # {} THEN Max(T) ELSE 0) = 0)
<1>1. CASE T # {}
  <2>1. IsFiniteSet(T)
    <3>1. IsFiniteSet(1 .. N) BY FS_Interval
    <3> QED BY <3>1, FS_Subset
  <2>2. T \in SUBSET Nat OBVIOUS
  <2> QED BY <1>1, <2>1, <2>2, MaxIsLargest
<1> QED BY <1>1

LEMMA LastWithTag ==
  ASSUME NEW ls \in Seq(Line)
  PROVE  LET k == SelectLastInSeq(ls, LAMBDA line : line.tag = "blocked_by")
         IN  k = 0 \/ (k \in DOMAIN ls /\ ls[k].tag = "blocked_by")
<1>1. PICK T : T = {i \in 1 .. Len(ls) : ls[i].tag = "blocked_by"} OBVIOUS
<1>2. Len(ls) \in Nat /\ T \in SUBSET (1 .. Len(ls)) /\ DOMAIN ls = 1 .. Len(ls) BY <1>1
<1>3. SelectLastInSeq(ls, LAMBDA line : line.tag = "blocked_by") = IF T # {} THEN Max(T) ELSE 0
  BY <1>1 DEF SelectLastInSeq
<1>4. PICK k : k = IF T # {} THEN Max(T) ELSE 0 OBVIOUS
<1>5. k \in T \/ k = 0 BY <1>2, <1>4, LastOf
<1>6. k = 0 \/ (k \in DOMAIN ls /\ ls[k].tag = "blocked_by") BY <1>1, <1>2, <1>5
<1> QED BY <1>3, <1>4, <1>6

LEMMA LastOfName ==
  ASSUME NEW s \in Seq(Names), NEW x
  PROVE  LET k == SelectLastInSeq(s, LAMBDA n : n = x)
         IN  IF x \in Range(s) THEN k \in DOMAIN s /\ s[k] = x ELSE k = 0
<1>1. PICK T : T = {i \in 1 .. Len(s) : s[i] = x} OBVIOUS
<1>2. Len(s) \in Nat /\ T \in SUBSET (1 .. Len(s)) /\ DOMAIN s = 1 .. Len(s) BY <1>1
<1>3. SelectLastInSeq(s, LAMBDA n : n = x) = IF T # {} THEN Max(T) ELSE 0
  BY <1>1 DEF SelectLastInSeq
<1>4. PICK k : k = IF T # {} THEN Max(T) ELSE 0 OBVIOUS
<1>5. k \in T \/ (T = {} /\ k = 0) BY <1>2, <1>4, LastOf
<1>6. T # {} <=> x \in Range(s) BY <1>1, <1>2 DEF Range
<1>7. IF x \in Range(s) THEN k \in DOMAIN s /\ s[k] = x ELSE k = 0 BY <1>1, <1>2, <1>5, <1>6
<1> QED BY <1>3, <1>4, <1>7

LEMMA LastTicketOfName ==
  ASSUME NEW ts \in Seq(TicketRow), NEW x
  PROVE  \E k : /\ k = SelectLastInSeq(ts, LAMBDA u : u.name = x)
                /\ k = 0 \/ (k \in DOMAIN ts /\ ts[k].name = x)
                /\ k = 0 => \A i \in DOMAIN ts : ts[i].name # x
<1>1. PICK T : T = {i \in 1 .. Len(ts) : ts[i].name = x} OBVIOUS
<1>2. Len(ts) \in Nat /\ T \in SUBSET (1 .. Len(ts)) /\ DOMAIN ts = 1 .. Len(ts) BY <1>1
<1>3. SelectLastInSeq(ts, LAMBDA u : u.name = x) = IF T # {} THEN Max(T) ELSE 0
  BY <1>1 DEF SelectLastInSeq
<1>4. PICK k : k = IF T # {} THEN Max(T) ELSE 0 OBVIOUS
<1>5. k \in T \/ (T = {} /\ k = 0) BY <1>2, <1>4, LastOf
<1>6. k = 0 \/ (k \in DOMAIN ts /\ ts[k].name = x) BY <1>1, <1>2, <1>5
<1>7. k = 0 => \A i \in DOMAIN ts : ts[i].name # x BY <1>1, <1>2, <1>5
<1> QED BY <1>3, <1>4, <1>6, <1>7

\* Every line is read into a sequence of sections.
LEMMA SectionTyped ==
  ASSUME NEW ss \in Seq(SectionRow), NEW line \in Line
  PROVE  Section(ss, line) \in Seq(SectionRow)
<1>1. CASE line.tag = "heading"
  <2>1. line.name \in Names /\ line.type \in STRING BY <1>1 DEF Line, Names
  <2>2. [name |-> line.name, type |-> line.type, lines |-> <<>>] \in SectionRow BY <2>1 DEF SectionRow
  <2> QED BY <1>1, <2>2 DEF Section
<1>2. CASE line.tag # "heading" /\ ss = <<>>
  BY <1>2 DEF Section
<1>3. CASE line.tag # "heading" /\ ss # <<>>
  <2>1. Len(ss) \in DOMAIN ss /\ ss[Len(ss)] \in SectionRow BY <1>3
  <2>2. PICK r : r = [ss[Len(ss)] EXCEPT !.lines = Append(@, line)] OBVIOUS
  <2>3. r \in SectionRow
    <3>1. PICK u \in SectionRow : u = ss[Len(ss)] BY <2>1
    <3>2. r = [u EXCEPT !.lines = Append(u.lines, line)] BY <2>2, <3>1
    <3>3. u.lines \in Seq(Line) /\ Append(u.lines, line) \in Seq(Line) BY <3>1 DEF SectionRow
    <3> QED BY <3>1, <3>2, <3>3 DEF SectionRow
  <2>4. Section(ss, line) = [ss EXCEPT ![Len(ss)] = r] BY <1>3, <2>1, <2>2 DEF Section
  <2> QED BY <2>1, <2>3, <2>4
<1> QED BY <1>1, <1>2, <1>3

Reading(f, lines) ==
    f = [k \in 0 .. Len(lines) |-> IF k = 0 THEN <<>> ELSE Section(f[k - 1], lines[k])]

LEMMA SectionsTyped ==
  ASSUME NEW lines \in Seq(Line)
  PROVE  Sections(lines) \in Seq(SectionRow)
<1>1. PICK N \in Nat : N = Len(lines) OBVIOUS
<1>2. PICK Q : Q = Seq(SectionRow) OBVIOUS
<1>20. PICK b : b = <<>> OBVIOUS
<1>21. b \in Q BY <1>2, <1>20
<1>3. \A k \in 1 .. N : lines[k] \in Line BY <1>1
<1>4. PICK st : st = [p \in Q \X (1 .. N) |-> Section(p[1], lines[p[2]])] OBVIOUS
<1>5. st \in [Q \X (1 .. N) -> Q] BY <1>2, <1>3, <1>4, SectionTyped
<1>60. PICK g : Stepping(g, Q, N, b, st) BY <1>5, <1>21, Stepwise
<1>6. g \in [0 .. N -> Q] /\ g[0] = b /\ \A k \in 1 .. N : g[k] = st[<<g[k - 1], k>>]
  BY <1>60 DEF Stepping
<1>7. Reading(g, lines)
  <2>1. ASSUME NEW k \in 1 .. N PROVE g[k] = Section(g[k - 1], lines[k])
    <3>1. k - 1 \in 0 .. N OBVIOUS
    <3> QED BY <1>4, <1>6, <3>1
  <2>2. \A k \in 0 .. N : k # 0 => k \in 1 .. N OBVIOUS
  <2>3. g[0] = <<>> BY <1>6, <1>20
  <2>4. \A k \in 0 .. N : g[k] = IF k = 0 THEN <<>> ELSE Section(g[k - 1], lines[k])
    BY <2>1, <2>2, <2>3
  <2>5. g = [k \in 0 .. N |-> g[k]] BY <1>6
  <2> QED BY <1>1, <2>4, <2>5 DEF Reading
<1>8. PICK f : Reading(f, lines) /\ Sections(lines) = f[N]
  <2>1. PICK c : c = CHOOSE h : Reading(h, lines) OBVIOUS
  <2>2. Reading(c, lines) BY <1>7, <2>1
  <2>3. Sections(lines) = c[N] BY <1>1, <2>1 DEF Sections, Reading
  <2> QED BY <2>2, <2>3
<1> DEFINE T == {n \in Nat : n <= N => f[n] \in Q}
<1>9. 0 \in T BY <1>1, <1>2, <1>8 DEF Reading
<1>10. ASSUME NEW n \in T PROVE n + 1 \in T
  <2>1. SUFFICES ASSUME n + 1 <= N PROVE f[n + 1] \in Q OBVIOUS
  <2>2. PICK k : k = n + 1 OBVIOUS
  <2>3. k \in 1 .. N /\ k \in 0 .. N /\ k # 0 /\ k - 1 = n BY <2>1, <2>2
  <2>4. f[k] = Section(f[n], lines[k]) BY <1>1, <1>8, <2>3 DEF Reading
  <2>5. f[n] \in Q /\ lines[k] \in Line BY <1>3, <2>1, <2>3
  <2> QED BY <1>2, <2>2, <2>4, <2>5, SectionTyped
<1>11. T = Nat
  <2> HIDE DEF T
  <2>1. T \in SUBSET Nat BY DEF T
  <2> QED BY <1>9, <1>10, <2>1, InductionOnNat
<1>12. f[N] \in Q BY <1>11
<1> QED BY <1>2, <1>8, <1>12

LEMMA TicketTyped ==
  ASSUME NEW s \in SectionRow
  PROVE  Ticket(s) \in TicketRow
<1>1. s.name \in Names /\ s.type \in STRING /\ s.lines \in Seq(Line) BY DEF SectionRow
<1>2. PICK k : k = SelectLastInSeq(s.lines, LAMBDA line : line.tag = "blocked_by") OBVIOUS
<1>3. k = 0 \/ (k \in DOMAIN s.lines /\ s.lines[k].tag = "blocked_by") BY <1>1, <1>2, LastWithTag
<1>4. PICK deps : deps = IF k = 0 THEN <<>> ELSE s.lines[k].deps OBVIOUS
<1>5. deps \in Seq(Names)
  <2>1. CASE k = 0 BY <1>4, <2>1
  <2>2. CASE k # 0
    <3>1. s.lines[k] \in Line /\ s.lines[k].tag = "blocked_by" BY <1>1, <1>3, <2>2
    <3>2. s.lines[k].deps \in Seq(Names) BY <3>1 DEF Line, Names
    <3> QED BY <1>4, <2>2, <3>2
  <2> QED BY <2>1, <2>2
<1>6. Has(s, "validate") \in BOOLEAN /\ Has(s, "prose") \in BOOLEAN BY DEF Has
<1>7. Ticket(s) = [name |-> s.name, type |-> s.type, deps |-> deps,
                   validate |-> Has(s, "validate"), body |-> Has(s, "prose")]
  BY <1>2, <1>4 DEF Ticket
<1> QED BY <1>1, <1>5, <1>6, <1>7 DEF TicketRow

LEMMA TicketsTyped ==
  ASSUME NEW lines \in Seq(Line)
  PROVE  Tickets(lines) \in Seq(TicketRow)
<1>1. PICK s : s = Sections(lines) OBVIOUS
<1>2. s \in Seq(SectionRow) BY <1>1, SectionsTyped
<1>3. \A i \in DOMAIN s : Ticket(s[i]) \in TicketRow BY <1>2, TicketTyped
<1>4. Tickets(lines) = [i \in DOMAIN s |-> Ticket(s[i])] BY <1>1 DEF Tickets
<1>5. DOMAIN s = 1 .. Len(s) /\ Len(s) \in Nat BY <1>2
<1> QED BY <1>3, <1>4, <1>5

(***************************************************************************)
(* Nodes and edges.                                                        *)
(***************************************************************************)
LEMMA NamesApart ==
  ASSUME NEW x \in Names
  PROVE  Validation(x) \in Names /\ Validation(x) # x
<1>1. PICK v : v = "validate" OBVIOUS
<1>2. PICK W : W = STRING \cup {"validate"} OBVIOUS
<1>3. v \in W /\ x \in Seq(W) BY <1>1, <1>2 DEF Names
<1>4. Append(x, v) \in Seq(W) /\ Len(Append(x, v)) = Len(x) + 1 /\ Len(x) \in Nat BY <1>3
<1> QED BY <1>1, <1>2, <1>4 DEF Validation, Names

LEMMA NodesTyped ==
  ASSUME NEW ts \in Seq(TicketRow)
  PROVE  /\ [i \in DOMAIN ts |-> NodesOf(ts[i])] \in Seq(Seq(Names))
         /\ \A i \in DOMAIN ts : /\ ts[i] \in TicketRow
                                 /\ ts[i].name \in Range(NodesOf(ts[i]))
                                 /\ \A x \in Range(NodesOf(ts[i])) :
                                       x = ts[i].name \/ (ts[i].validate /\ x = Validation(ts[i].name))
<1>1. ASSUME NEW i \in DOMAIN ts
      PROVE  /\ NodesOf(ts[i]) \in Seq(Names) /\ ts[i] \in TicketRow
             /\ ts[i].name \in Range(NodesOf(ts[i]))
             /\ \A x \in Range(NodesOf(ts[i])) :
                   x = ts[i].name \/ (ts[i].validate /\ x = Validation(ts[i].name))
  <2>1. PICK t : t = ts[i] OBVIOUS
  <2>2. t \in TicketRow BY <2>1
  <2>3. t.name \in Names /\ Validation(t.name) \in Names BY <2>2, NamesApart DEF TicketRow
  <2>4. CASE t.validate
    <3>1. NodesOf(t) = <<t.name, Validation(t.name)>> BY <2>4 DEF NodesOf
    <3> QED BY <2>1, <2>2, <2>3, <2>4, <3>1 DEF Range
  <2>5. CASE ~t.validate
    <3>1. NodesOf(t) = <<t.name>> BY <2>5 DEF NodesOf
    <3> QED BY <2>1, <2>2, <2>3, <2>5, <3>1 DEF Range
  <2> QED BY <2>4, <2>5
<1>2. DOMAIN ts = 1 .. Len(ts) /\ Len(ts) \in Nat OBVIOUS
<1> QED BY <1>1, <1>2

LEMMA EdgesOfTicket ==
  ASSUME NEW ts \in Seq(TicketRow), NEW i \in DOMAIN ts, NEW t, t = ts[i], NEW a, NEW b,
         a = (IF t.validate THEN <<[from |-> t.name, to |-> Validation(t.name)]>> ELSE <<>>),
         b = [k \in DOMAIN t.deps |-> [from |-> Completion(ts, t.deps[k]), to |-> t.name]]
  PROVE  a \in Seq(EdgeRow) /\ b \in Seq(EdgeRow)
<1>1. ASSUME NEW x \in Names PROVE Completion(ts, x) \in Names
  BY NamesApart DEF Completion
<1>2. t \in TicketRow OBVIOUS
<1>3. t.name \in Names /\ Validation(t.name) \in Names /\ t.deps \in Seq(Names)
  BY <1>2, NamesApart DEF TicketRow
<1>4. a \in Seq(EdgeRow)
  <2>1. PICK e : e = [from |-> t.name, to |-> Validation(t.name)] OBVIOUS
  <2>2. e \in EdgeRow BY <1>3, <2>1 DEF EdgeRow
  <2> QED BY <2>1, <2>2
<1>5. b \in Seq(EdgeRow)
  <2>1. DOMAIN t.deps = 1 .. Len(t.deps) /\ Len(t.deps) \in Nat BY <1>3
  <2>2. \A k \in DOMAIN t.deps : [from |-> Completion(ts, t.deps[k]), to |-> t.name] \in EdgeRow
    BY <1>1, <1>3 DEF EdgeRow
  <2> QED BY <2>1, <2>2
<1> QED BY <1>4, <1>5

LEMMA EdgesTyped ==
  ASSUME NEW ts \in Seq(TicketRow)
  PROVE  [i \in DOMAIN ts |-> EdgesOf(ts, ts[i])] \in Seq(Seq(EdgeRow))
<1>1. ASSUME NEW i \in DOMAIN ts PROVE EdgesOf(ts, ts[i]) \in Seq(EdgeRow)
  <2>1. PICK t : t = ts[i] OBVIOUS
  <2>2. PICK a : a = IF t.validate THEN <<[from |-> t.name, to |-> Validation(t.name)]>> ELSE <<>>
    OBVIOUS
  <2>3. PICK b : b = [k \in DOMAIN t.deps |-> [from |-> Completion(ts, t.deps[k]), to |-> t.name]]
    OBVIOUS
  <2>4. a \in Seq(EdgeRow) /\ b \in Seq(EdgeRow) BY <2>1, <2>2, <2>3, EdgesOfTicket
  <2>5. EdgesOf(ts, t) = a \o b BY <2>2, <2>3 DEF EdgesOf
  <2> QED BY <2>1, <2>4, <2>5
<1>2. DOMAIN ts = 1 .. Len(ts) /\ Len(ts) \in Nat OBVIOUS
<1> QED BY <1>1, <1>2

\* The edges of a ticket are edges of the graph: from each blocker, or its validation,
\* to the ticket, and from the ticket to its validation.
LEMMA EdgesCompiled ==
  ASSUME NEW ts \in Seq(TicketRow), NEW t \in Range(ts)
  PROVE  /\ t.validate => [from |-> t.name, to |-> Validation(t.name)] \in Range(Edges(ts))
         /\ \A x \in Range(t.deps) : [from |-> Completion(ts, x), to |-> t.name] \in Range(Edges(ts))
<1>1. PICK i \in DOMAIN ts : t = ts[i] BY DEF Range
<1>2. PICK es : es = [j \in DOMAIN ts |-> EdgesOf(ts, ts[j])] OBVIOUS
<1>3. es \in Seq(Seq(EdgeRow)) /\ Edges(ts) = FlattenSeq(es) BY <1>2, EdgesTyped DEF Edges
<1>4. i \in DOMAIN es /\ es[i] = EdgesOf(ts, t) /\ es[i] \in Seq(EdgeRow) BY <1>1, <1>2, <1>3
<1>5. \A e \in Range(EdgesOf(ts, t)) : e \in Range(Edges(ts)) BY <1>3, <1>4, FlattenRange
<1>6. t \in TicketRow /\ t.deps \in Seq(Names)
  <2>1. t \in TicketRow BY <1>1
  <2> QED BY <2>1 DEF TicketRow
<1>7. PICK a : a = IF t.validate THEN <<[from |-> t.name, to |-> Validation(t.name)]>> ELSE <<>>
  OBVIOUS
<1>8. PICK b : b = [k \in DOMAIN t.deps |-> [from |-> Completion(ts, t.deps[k]), to |-> t.name]]
  OBVIOUS
<1>9. EdgesOf(ts, t) = a \o b BY <1>7, <1>8 DEF EdgesOf
<1>10. a \in Seq(EdgeRow) /\ b \in Seq(EdgeRow) BY <1>1, <1>7, <1>8, EdgesOfTicket
<1>11. \A k \in DOMAIN b : b[k] \in Range(a \o b)
  <2>1. SUFFICES ASSUME NEW k \in DOMAIN b PROVE b[k] \in Range(a \o b) OBVIOUS
  <2>2. Len(a) + k \in DOMAIN (a \o b) /\ (a \o b)[Len(a) + k] = b[k] BY <1>10, Concatenated
  <2> QED BY <2>2 DEF Range
<1>12. \A k \in DOMAIN a : a[k] \in Range(a \o b)
  <2>1. SUFFICES ASSUME NEW k \in DOMAIN a PROVE a[k] \in Range(a \o b) OBVIOUS
  <2>2. k \in DOMAIN (a \o b) /\ (a \o b)[k] = a[k] BY <1>10, Concatenated
  <2> QED BY <2>2 DEF Range
<1>13. ASSUME t.validate PROVE [from |-> t.name, to |-> Validation(t.name)] \in Range(Edges(ts))
  <2>1. 1 \in DOMAIN a /\ a[1] = [from |-> t.name, to |-> Validation(t.name)] BY <1>7, <1>13
  <2> QED BY <1>5, <1>9, <1>12, <2>1
<1>14. ASSUME NEW x \in Range(t.deps) PROVE [from |-> Completion(ts, x), to |-> t.name] \in Range(Edges(ts))
  <2>1. PICK k \in DOMAIN t.deps : x = t.deps[k] BY DEF Range
  <2>2. k \in DOMAIN b /\ b[k] = [from |-> Completion(ts, x), to |-> t.name] BY <1>8, <2>1
  <2> QED BY <1>5, <1>9, <1>11, <2>2
<1> QED BY <1>13, <1>14

\* When no two nodes have one name, the completion of a ticket is its validation if it
\* has one.
LEMMA CompletionOf ==
  ASSUME NEW ts \in Seq(TicketRow), IsInjective(Nodes(ts)), NEW d \in Range(ts)
  PROVE  Completion(ts, d.name) = IF d.validate THEN Validation(d.name) ELSE d.name
<1>1. PICK i \in DOMAIN ts : d = ts[i] BY DEF Range
<1>2. PICK x : x = d.name OBVIOUS
<1>3. PICK k : /\ k = SelectLastInSeq(ts, LAMBDA u : u.name = x)
               /\ k = 0 \/ (k \in DOMAIN ts /\ ts[k].name = x)
               /\ k = 0 => \A j \in DOMAIN ts : ts[j].name # x
  BY LastTicketOfName
<1>5. k \in DOMAIN ts /\ ts[k].name = x BY <1>1, <1>2, <1>3
<1>6. k = i
  <2>1. PICK ns : ns = [j \in DOMAIN ts |-> NodesOf(ts[j])] OBVIOUS
  <2>2. ns \in Seq(Seq(Names)) /\ Nodes(ts) = FlattenSeq(ns) BY <2>1, NodesTyped DEF Nodes
  <2>3. k \in DOMAIN ns /\ i \in DOMAIN ns BY <1>5, <2>1
  <2>4. x \in Range(ns[k]) /\ x \in Range(ns[i]) BY <1>1, <1>2, <1>5, <2>1, NodesTyped
  <2> QED BY <2>2, <2>3, <2>4, FlattenApart
<1>7. k # 0 BY <1>5
<1> QED BY <1>1, <1>2, <1>3, <1>6, <1>7 DEF Completion
-----------------------------------------------------------------------------
(***************************************************************************)
(* Tickets: the graph as it runs.                                          *)
(***************************************************************************)
Status == {"pending", "ready", "running", "complete", "failed"}
FileNodes == Nodes(Tickets(file))
FileEdges == Edges(Tickets(file))

\* The graph that runs is that of the file, and what is not pending waits for nobody.
Runs ==
    /\ Resolves(FileNodes, FileEdges)
    /\ ticketMap = IdMap(FileNodes)
    /\ lattice \in [status : [DOMAIN FileNodes -> Status], edges : {Graph(FileNodes, FileEdges).edges}]
    /\ \A n \in DOMAIN FileNodes : lattice.status[n] # "pending" =>
          Preds(n) \ {n} \subseteq InState({"complete", "failed"})

\* A node that is not pending is never pending again, and one that has settled stays so.
Later(s, u) == (s # "pending" => u # "pending") /\ (s \in {"complete", "failed"} => u = s)

\* What pm has read was so at a time between its beginning and now.
Asks ==
    LET D == DOMAIN FileNodes
    IN  /\ query \in [asked : {TRUE}, began : [D -> Status], told : UNION {[R -> Status] : R \in SUBSET D}]
        /\ \A n \in D : Later(query.began[n], lattice.status[n])
        /\ \A n \in DOMAIN query.told :
              Later(query.began[n], query.told[n]) /\ Later(query.told[n], lattice.status[n])

TicketsIInv ==
    /\ file \in Seq(Line) /\ (phase = "run" => Runs)
    /\ query.asked => phase = "run" /\ Asks

\* Names stand for nodes, one for each.
LEMMA IdsOfNames ==
  ASSUME NEW nodes \in Seq(Names)
  PROVE  /\ DOMAIN IdMap(nodes) = Range(nodes)
         /\ \A x \in Range(nodes) : IdMap(nodes)[x] \in DOMAIN nodes /\ nodes[IdMap(nodes)[x]] = x
         /\ IsInjective(nodes) => \A n \in DOMAIN nodes : nodes[n] \in Range(nodes) /\ IdMap(nodes)[nodes[n]] = n
<1>1. ASSUME NEW x \in Range(nodes) PROVE IdMap(nodes)[x] \in DOMAIN nodes /\ nodes[IdMap(nodes)[x]] = x
  <2>1. PICK k : k = SelectLastInSeq(nodes, LAMBDA n : n = x) OBVIOUS
  <2>2. k \in DOMAIN nodes /\ nodes[k] = x BY <2>1, LastOfName
  <2>3. IdMap(nodes)[x] = k BY <2>1 DEF IdMap
  <2> QED BY <2>2, <2>3
<1>2. \A n \in DOMAIN nodes : nodes[n] \in Range(nodes) BY DEF Range
<1>3. ASSUME IsInjective(nodes), NEW n \in DOMAIN nodes PROVE IdMap(nodes)[nodes[n]] = n
  <2>1. PICK x : x = nodes[n] OBVIOUS
  <2>2. IdMap(nodes)[x] \in DOMAIN nodes /\ nodes[IdMap(nodes)[x]] = nodes[n] BY <1>1, <1>2, <2>1
  <2> QED BY <1>3, <2>1, <2>2 DEF IsInjective
<1> QED BY <1>1, <1>2, <1>3 DEF IdMap

LEMMA FileTyped ==
  ASSUME file \in Seq(Line)
  PROVE  Tickets(file) \in Seq(TicketRow) /\ FileNodes \in Seq(Names)
<1>1. PICK ts : ts = Tickets(file) OBVIOUS
<1>2. ts \in Seq(TicketRow) BY <1>1, TicketsTyped
<1>3. PICK ns : ns = [i \in DOMAIN ts |-> NodesOf(ts[i])] OBVIOUS
<1>4. ns \in Seq(Seq(Names)) BY <1>2, <1>3, NodesTyped
<1>5. FlattenSeq(ns) \in Seq(Names) BY <1>4, FlattenPlaces
<1> QED BY <1>1, <1>2, <1>3, <1>5 DEF FileNodes, Nodes

LEMMA TicketsInductive ==
  /\ TicketsInit => TicketsIInv
  /\ TicketsIInv /\ [TicketsNext]_ticketVars => TicketsIInv'
<1>1. TicketsInit => TicketsIInv BY DEF TicketsInit, TicketsIInv, NoQuery
<1>2. SUFFICES ASSUME TicketsIInv, [TicketsNext]_ticketVars PROVE TicketsIInv' BY <1>1
<1>3. CASE WriteTicket
  <2>1. PICK name \in TicketName, type \in TicketType, body \in Body :
           file' = file \o <<[tag |-> "heading", name |-> name, type |-> type]>> \o body
    BY <1>3 DEF WriteTicket
  <2>2. [tag |-> "heading", name |-> name, type |-> type] \in Line /\ body \in Seq(Line)
    BY TicketsAssumption DEF Line
  <2>3. file \in Seq(Line) BY <1>2 DEF TicketsIInv
  <2>4. file' \in Seq(Line) BY <2>1, <2>2, <2>3
  <2>5. phase' # "run" /\ phase # "run" /\ query' = query BY <1>3 DEF WriteTicket
  <2> QED BY <1>2, <2>4, <2>5 DEF TicketsIInv
<1>4. CASE BuildTickets
  <2>1. file' = file /\ file \in Seq(Line) BY <1>2, <1>4 DEF BuildTickets, TicketsIInv
  <2>2. FileNodes' = FileNodes /\ FileEdges' = FileEdges BY <2>1 DEF FileNodes, FileEdges
  <2>20. ~query'.asked
    <3>1. phase # "run" /\ query' = query BY <1>4 DEF BuildTickets
    <3> QED BY <1>2, <3>1 DEF TicketsIInv
  <2>3. SUFFICES ASSUME phase' = "run" PROVE Runs' BY <2>1, <2>20 DEF TicketsIInv
  <2>4. /\ Resolves(FileNodes, FileEdges) /\ ticketMap' = IdMap(FileNodes)
        /\ lattice' = Graph(FileNodes, FileEdges)
    BY <1>4, <2>3 DEF BuildTickets, FileNodes, FileEdges
  <2>5. PICK es : es = Graph(FileNodes, FileEdges).edges OBVIOUS
  <2>6. lattice' = [status |-> [n \in DOMAIN FileNodes |-> "pending"], edges |-> es]
    BY <2>4, <2>5 DEF Graph
  <2>7. lattice' \in [status : [DOMAIN FileNodes -> Status], edges : {es}]
        /\ \A n \in DOMAIN FileNodes : lattice'.status[n] = "pending"
    BY <2>6 DEF Status
  <2> QED BY <2>2, <2>4, <2>5, <2>7 DEF Runs
<1>5. CASE RunTickets
  <2>1. file' = file /\ ticketMap' = ticketMap /\ phase' = "run" /\ phase = "run" BY <1>5 DEF RunTickets
  <2>2. FileNodes' = FileNodes /\ FileEdges' = FileEdges /\ file \in Seq(Line) /\ Runs
    BY <1>2, <2>1 DEF FileNodes, FileEdges, TicketsIInv
  <2>3. PICK D, es : D = DOMAIN FileNodes /\ es = Graph(FileNodes, FileEdges).edges OBVIOUS
  <2>4. lattice \in [status : [D -> Status], edges : {es}] BY <2>2, <2>3 DEF Runs
  <2>5. PICK n \in D, s \in Status :
           /\ lattice' = [lattice EXCEPT !.status[n] = s]
           /\ lattice.status[n] \notin {"complete", "failed"} /\ s # "pending"
           /\ lattice.status[n] = "pending" => Preds(n) \ {n} \subseteq InState({"complete", "failed"})
    <3>1. DOMAIN lattice.status = D BY <2>4
    <3> QED BY <1>5, <3>1 DEF RunTickets, Become, Status
  <2>6. PICK st : st = [lattice.status EXCEPT ![n] = s] OBVIOUS
  <2>7. st \in [D -> Status] /\ lattice' = [status |-> st, edges |-> es] BY <2>4, <2>5, <2>6
  <2>8. lattice'.edges = lattice.edges /\ lattice'.status = st /\ DOMAIN st = DOMAIN lattice.status
        /\ DOMAIN lattice.status = D
    BY <2>4, <2>7
  <2>9. InState({"complete", "failed"}) \subseteq InState({"complete", "failed"})'
    BY <2>4, <2>5, <2>6, <2>8 DEF InState
  <2>10. \A m : Preds(m)' = Preds(m) BY <2>8 DEF Preds
  <2>11. ASSUME NEW m \in D, st[m] # "pending" PROVE Preds(m) \ {m} \subseteq InState({"complete", "failed"})
    <3>1. CASE m = n /\ lattice.status[n] = "pending" BY <2>5, <3>1
    <3>2. CASE lattice.status[m] # "pending" BY <2>2, <2>3, <3>2 DEF Runs
    <3>3. CASE m # n BY <2>4, <2>6, <2>11, <3>2, <3>3
    <3> QED BY <3>1, <3>2, <3>3
  <2>12. \A m \in D : lattice'.status[m] # "pending" => Preds(m)' \ {m} \subseteq InState({"complete", "failed"})'
    BY <2>8, <2>9, <2>10, <2>11
  <2>13. lattice' \in [status : [D -> Status], edges : {es}] BY <2>7
  <2>14. Runs' BY <2>1, <2>2, <2>3, <2>12, <2>13 DEF Runs
  <2>15. query' = query BY <1>5 DEF RunTickets
  <2>16. ASSUME query.asked PROVE Asks'
    <3>1. Asks BY <1>2, <2>16 DEF TicketsIInv
    <3>2. \A m \in D : Later(lattice.status[m], lattice'.status[m])
      <4>1. \A m \in D : st[m] = IF m = n THEN s ELSE lattice.status[m] BY <2>4, <2>6
      <4> QED BY <2>5, <2>8, <4>1 DEF Later
    <3>3. \A u, v, w : Later(u, v) /\ Later(v, w) => Later(u, w) BY DEF Later
    <3>4. PICK b, told : b = query.began /\ told = query.told OBVIOUS
    <3>5. /\ query \in [asked : {TRUE}, began : [D -> Status], told : UNION {[R -> Status] : R \in SUBSET D}]
          /\ \A m \in D : Later(b[m], lattice.status[m])
          /\ \A m \in DOMAIN told : Later(b[m], told[m]) /\ Later(told[m], lattice.status[m])
      BY <2>3, <3>1, <3>4 DEF Asks
    <3>6. DOMAIN told \subseteq D BY <3>4, <3>5
    <3>7. \A m \in D : Later(b[m], lattice'.status[m]) BY <3>2, <3>3, <3>5
    <3>8. \A m \in DOMAIN told : Later(told[m], lattice'.status[m]) BY <3>2, <3>3, <3>5, <3>6
    <3> QED BY <2>2, <2>3, <2>15, <3>4, <3>5, <3>7, <3>8 DEF Asks
  <2> QED BY <2>1, <2>2, <2>14, <2>15, <2>16 DEF TicketsIInv
<1>6. ASSUME UNCHANGED <<file, lattice, ticketMap, phase>>
      PROVE  /\ file' \in Seq(Line) /\ (phase' = "run" => Runs')
             /\ FileNodes' = FileNodes
  BY <1>2, <1>6 DEF TicketsIInv, Runs, FileNodes, FileEdges, Preds, InState
<1>7. CASE UNCHANGED ticketVars
  BY <1>2, <1>6, <1>7 DEF ticketVars, TicketsIInv, Asks
<1>8. CASE AskPm
  <2>1. UNCHANGED <<file, lattice, ticketMap, phase>> /\ phase = "run" /\ Runs
    BY <1>2, <1>8 DEF AskPm, TicketsIInv
  <2>2. PICK D : D = DOMAIN FileNodes OBVIOUS
  <2>3. lattice.status \in [D -> Status] BY <2>1, <2>2 DEF Runs
  <2>4. query' = [asked |-> TRUE, began |-> lattice.status, told |-> <<>>] BY <1>8 DEF AskPm
  <2>5. <<>> \in [{} -> Status] /\ {} \in SUBSET D OBVIOUS
  <2>6. <<>> \in UNION {[R -> Status] : R \in SUBSET D} BY <2>5
  <2>7. query' \in [asked : {TRUE}, began : [D -> Status], told : UNION {[R -> Status] : R \in SUBSET D}]
    BY <2>3, <2>4, <2>6
  <2>8. query'.began = lattice'.status /\ DOMAIN query'.told = {} BY <2>1, <2>4
  <2>9. \A u : Later(u, u) BY DEF Later
  <2>10. Asks' BY <1>6, <2>1, <2>2, <2>7, <2>8, <2>9 DEF Asks
  <2> QED BY <1>6, <2>1, <2>10 DEF TicketsIInv
<1>9. ASSUME NEW n \in Range(ticketMap), ReadNode(n) PROVE TicketsIInv'
  <2>1. UNCHANGED <<file, lattice, ticketMap, phase>> /\ query.asked /\ phase = "run" /\ Runs /\ Asks
    BY <1>2, <1>9 DEF ReadNode, TicketsIInv
  <2>2. PICK D, b, told : D = DOMAIN FileNodes /\ b = query.began /\ told = query.told OBVIOUS
  <2>3. /\ query \in [asked : {TRUE}, began : [D -> Status], told : UNION {[R -> Status] : R \in SUBSET D}]
        /\ \A m \in D : Later(b[m], lattice.status[m])
        /\ \A m \in DOMAIN told : Later(b[m], told[m]) /\ Later(told[m], lattice.status[m])
    BY <2>1, <2>2 DEF Asks
  <2>4. n \in D /\ lattice.status \in [D -> Status]
    <3>1. FileNodes \in Seq(Names) /\ ticketMap = IdMap(FileNodes) BY <1>2, <2>1, FileTyped DEF Runs, TicketsIInv
    <3>2. \A x \in DOMAIN ticketMap : ticketMap[x] \in D BY <2>2, <3>1, IdsOfNames
    <3> QED BY <2>1, <2>2, <3>2 DEF Runs, Range
  <2>5. PICK new : new = [m \in DOMAIN told \cup {n} |-> IF m = n THEN lattice.status[n] ELSE told[m]] OBVIOUS
  <2>6. PICK R \in SUBSET D : told \in [R -> Status] BY <2>2, <2>3
  <2>7. n \notin R BY <1>9, <2>2, <2>6 DEF ReadNode
  <2>8. /\ new \in [R \cup {n} -> Status] /\ new[n] = lattice.status[n]
        /\ \A m \in R : new[m] = told[m]
    BY <2>4, <2>5, <2>6, <2>7
  <2>9. query' = [asked |-> TRUE, began |-> b, told |-> new]
    <3>1. query' = [query EXCEPT !.told = new] BY <1>9, <2>2, <2>5 DEF ReadNode
    <3>2. query = [asked |-> TRUE, began |-> b, told |-> told] BY <2>2, <2>3
    <3> QED BY <3>1, <3>2
  <2>10. new \in UNION {[S -> Status] : S \in SUBSET D}
    <3>1. R \cup {n} \in SUBSET D BY <2>4, <2>6
    <3> QED BY <2>8, <3>1
  <2>11. query' \in [asked : {TRUE}, began : [D -> Status], told : UNION {[S -> Status] : S \in SUBSET D}]
    <3>1. PICK Q : Q = UNION {[S -> Status] : S \in SUBSET D} OBVIOUS
    <3>2. b \in [D -> Status] /\ new \in Q BY <2>2, <2>3, <2>10, <3>1
    <3> QED BY <2>9, <3>1, <3>2
  <2>12. \A m \in R \cup {n} : Later(b[m], new[m]) /\ Later(new[m], lattice.status[m])
    <3>1. \A u : Later(u, u) BY DEF Later
    <3>2. Later(b[n], new[n]) /\ Later(new[n], lattice.status[n]) BY <2>3, <2>4, <2>8, <3>1
    <3>3. ASSUME NEW m \in R PROVE Later(b[m], new[m]) /\ Later(new[m], lattice.status[m])
      BY <2>3, <2>6, <2>8
    <3> QED BY <3>2, <3>3
  <2>13. query'.began = b /\ query'.told = new /\ DOMAIN new = R \cup {n} /\ lattice' = lattice
    BY <2>1, <2>8, <2>9
  <2>14. Asks' BY <1>6, <2>1, <2>2, <2>3, <2>11, <2>12, <2>13 DEF Asks
  <2> QED BY <1>6, <2>1, <2>14 DEF TicketsIInv
<1>10. CASE Answer BY <1>6, <1>10 DEF Answer, NoQuery, TicketsIInv
<1> QED BY <1>2, <1>3, <1>4, <1>5, <1>7, <1>8, <1>9, <1>10 DEF TicketsNext

\* An edge of the file holds its target back.
LEMMA EdgeHolds ==
  ASSUME file \in Seq(Line), Runs, NEW e \in Range(FileEdges), e.from # e.to,
         StatusOf(e.to) # "pending"
  PROVE  StatusOf(e.from) \in {"complete", "failed"}
<1>1. PICK nodes, id : nodes = FileNodes /\ id = IdMap(nodes) OBVIOUS
<1>2. nodes \in Seq(Names) /\ ticketMap = id BY <1>1, FileTyped DEF Runs
<1>3. e.from \in Range(nodes) /\ e.to \in Range(nodes) BY <1>1 DEF Runs, Resolves
<1>4. PICK a, b : a = id[e.from] /\ b = id[e.to] OBVIOUS
<1>5. a \in DOMAIN nodes /\ b \in DOMAIN nodes /\ a # b
  <2>1. nodes[a] = e.from /\ nodes[b] = e.to /\ a \in DOMAIN nodes /\ b \in DOMAIN nodes
    BY <1>1, <1>2, <1>3, <1>4, IdsOfNames
  <2> QED BY <2>1
<1>6. DOMAIN lattice.status = DOMAIN nodes /\ lattice.edges = {<<id[x.from], id[x.to]>> : x \in Range(FileEdges)}
  BY <1>1 DEF Runs, Graph
<1>7. a \in Preds(b) \ {b} BY <1>4, <1>5, <1>6 DEF Preds
<1>8. lattice.status[b] # "pending" BY <1>2, <1>4 DEF StatusOf
<1>9. a \in InState({"complete", "failed"}) BY <1>1, <1>5, <1>7, <1>8 DEF Runs
<1> QED BY <1>2, <1>4, <1>9 DEF InState, StatusOf

\* compile_tickets and the builder: for every file, in whatever order it has its
\* tickets and whatever it repeats or leaves out, a ticket starts only after the
\* tickets that block it and their validations have settled.
THEOREM BlockersComeFirst == TicketsSpec => []StartsAfterValidation
<1>1. TicketsIInv => StartsAfterValidation
  <2> SUFFICES ASSUME TicketsIInv, phase = "run", Distinct(file),
                      NEW t \in Range(Tickets(file)), NEW d \in Range(Tickets(file)),
                      StatusOf(t.name) # "pending", d.name \in Range(t.deps), d.name # t.name,
                      NEW n \in Range(NodesOf(d))
               PROVE  StatusOf(n) \in {"complete", "failed"}
    BY DEF StartsAfterValidation
  <2>1. PICK ts : ts = Tickets(file) OBVIOUS
  <2>2. file \in Seq(Line) /\ Runs /\ ts \in Seq(TicketRow) /\ IsInjective(Nodes(ts))
    BY <2>1, FileTyped DEF TicketsIInv, Distinct
  <2>3. t \in Range(ts) /\ d \in Range(ts) /\ FileEdges = Edges(ts) BY <2>1 DEF FileEdges
  <2>4. t \in TicketRow /\ d \in TicketRow BY <2>2, <2>3 DEF Range
  <2>5. Completion(ts, d.name) = IF d.validate THEN Validation(d.name) ELSE d.name
    BY <2>2, <2>3, CompletionOf
  <2>6. PICK c : c = Completion(ts, d.name) OBVIOUS
  <2>7. PICK e : e = [from |-> c, to |-> t.name] OBVIOUS
  <2>8. e \in Range(FileEdges) BY <2>2, <2>3, <2>6, <2>7, EdgesCompiled
  <2>9. n = d.name \/ (d.validate /\ n = Validation(d.name))
    <3>1. PICK i \in DOMAIN ts : d = ts[i] BY <2>3 DEF Range
    <3> QED BY <2>2, <3>1, NodesTyped
  <2>10. c # t.name => StatusOf(c) \in {"complete", "failed"} BY <2>2, <2>7, <2>8, EdgeHolds
  <2>11. CASE ~d.validate BY <2>5, <2>6, <2>9, <2>10, <2>11
  <2>12. CASE d.validate
    <3>1. c = Validation(d.name) BY <2>5, <2>6, <2>12
    <3>2. c # t.name
      <4>1. PICK ns : ns = [j \in DOMAIN ts |-> NodesOf(ts[j])] OBVIOUS
      <4>2. ns \in Seq(Seq(Names)) /\ Nodes(ts) = FlattenSeq(ns) BY <2>2, <4>1, NodesTyped DEF Nodes
      <4>3. PICK i \in DOMAIN ts, j \in DOMAIN ts : d = ts[i] /\ t = ts[j] BY <2>3 DEF Range
      <4>4. Validation(d.name) \in Range(NodesOf(d))
        <5>1. NodesOf(d) = <<d.name, Validation(d.name)>> BY <2>12 DEF NodesOf
        <5> QED BY <5>1 DEF Range
      <4>5. t.name \in Range(NodesOf(t)) BY <2>2, <4>3, NodesTyped
      <4>6. i \in DOMAIN ns /\ j \in DOMAIN ns /\ ns[i] = NodesOf(d) /\ ns[j] = NodesOf(t) BY <4>1, <4>3
      <4>7. SUFFICES ASSUME c = t.name PROVE FALSE OBVIOUS
      <4>8. i = j BY <2>2, <3>1, <4>2, <4>4, <4>5, <4>6, <4>7, FlattenApart
      <4> QED BY <4>3, <4>8
    <3>3. StatusOf(c) \in {"complete", "failed"} BY <2>10, <3>2
    <3>4. PICK v : v = [from |-> d.name, to |-> c] OBVIOUS
    <3>5. v \in Range(FileEdges) BY <2>2, <2>3, <2>12, <3>1, <3>4, EdgesCompiled
    <3>6. d.name # c BY <2>4, <3>1, NamesApart DEF TicketRow
    <3>7. StatusOf(d.name) \in {"complete", "failed"} BY <2>2, <3>3, <3>4, <3>5, <3>6, EdgeHolds
    <3> QED BY <2>9, <3>1, <3>3, <3>7
  <2> QED BY <2>11, <2>12
<1> QED BY <1>1, TicketsInductive, PTL DEF TicketsSpec

\* graph_status, what_next and why_blocked: for every file whose names are distinct,
\* and however the run goes on while pm reads, what it answers is true of all nodes of
\* the graph.
THEOREM PmSpeaksForTheGraph == TicketsSpec => []PmTellsGraph
<1>1. TicketsIInv => PmTellsGraph
  <2> SUFFICES ASSUME TicketsIInv, phase = "run", Distinct(file), query.asked
               PROVE  /\ AllRead =>
                            /\ GraphStatus = "complete" => InState({"complete"}) = DOMAIN lattice.status
                            /\ GraphStatus = "failed" => InState({"failed"}) # {}
                            /\ WasIn({"failed"}) # {} => GraphStatus = "failed"
                            /\ GraphStatus = "pending" => WasIn({"ready", "running"}) \subseteq InState({"complete"})
                            /\ \A name \in WhatNext :
                                  Preds(ticketMap[name]) \ {ticketMap[name]} \subseteq InState({"complete", "failed"})
                      /\ \A name \in DOMAIN ticketMap : Preds(ticketMap[name]) \subseteq DOMAIN query.told =>
                            /\ WhyBlocked(name) \cap WasIn({"complete"}) = {}
                            /\ Preds(ticketMap[name]) \ WhyBlocked(name) \subseteq InState({"complete"})
    BY DEF PmTellsGraph
  <2>1. PICK nodes, id, D : nodes = FileNodes /\ id = IdMap(nodes) /\ D = DOMAIN nodes OBVIOUS
  <2>2. /\ nodes \in Seq(Names) /\ ticketMap = id /\ IsInjective(nodes)
        /\ lattice.status \in [D -> Status]
        /\ Runs /\ Asks
    BY <2>1, FileTyped DEF TicketsIInv, Runs, Distinct, FileNodes
  <2>3. /\ DOMAIN id = Range(nodes)
        /\ \A x \in Range(nodes) : id[x] \in D
        /\ \A n \in D : nodes[n] \in Range(nodes) /\ id[nodes[n]] = n
    BY <2>1, <2>2, IdsOfNames
  <2>4. Range(ticketMap) = D BY <2>2, <2>3 DEF Range
  <2>5. PICK st, b, told : st = lattice.status /\ b = query.began /\ told = query.told OBVIOUS
  <2>6. /\ b \in [D -> Status] /\ DOMAIN told \subseteq D /\ told \in [DOMAIN told -> Status]
        /\ \A n \in DOMAIN told : Later(b[n], told[n]) /\ Later(told[n], st[n])
    BY <2>1, <2>2, <2>5 DEF Asks
  <2>7. /\ \A S : InState(S) = {n \in D : st[n] \in S}
        /\ \A S : WasIn(S) = {n \in D : b[n] \in S}
    BY <2>2, <2>5, <2>6 DEF InState, WasIn
  <2>8. Told = {told[n] : n \in DOMAIN told} BY <2>5 DEF Told, Range
  <2>9. ASSUME AllRead
        PROVE  /\ GraphStatus = "complete" => InState({"complete"}) = D
               /\ GraphStatus = "failed" => InState({"failed"}) # {}
               /\ WasIn({"failed"}) # {} => GraphStatus = "failed"
               /\ GraphStatus = "pending" => WasIn({"ready", "running"}) \subseteq InState({"complete"})
               /\ \A name \in WhatNext :
                     Preds(ticketMap[name]) \ {ticketMap[name]} \subseteq InState({"complete", "failed"})
    <3>1. DOMAIN told = D BY <2>4, <2>5, <2>9 DEF AllRead
    <3>2. \A n \in D : told[n] \in Told /\ told[n] \in Status BY <2>6, <2>8, <3>1
    <3>3. GraphStatus = "failed" <=> "failed" \in Told BY DEF GraphStatus
    <3>4. ASSUME GraphStatus = "complete" PROVE InState({"complete"}) = D
      <4>1. Told \cap {"failed", "running", "ready", "pending"} = {} BY <3>4 DEF GraphStatus
      <4>2. \A n \in D : told[n] = "complete" BY <3>2, <4>1 DEF Status
      <4>3. \A n \in D : st[n] = "complete" BY <2>6, <3>1, <4>2 DEF Later
      <4> QED BY <2>7, <4>3
    <3>5. ASSUME GraphStatus = "failed" PROVE InState({"failed"}) # {}
      <4>1. PICK n \in D : told[n] = "failed" BY <2>8, <3>1, <3>3, <3>5
      <4>2. st[n] = "failed" BY <2>6, <3>1, <4>1 DEF Later
      <4> QED BY <2>7, <4>2
    <3>6. ASSUME WasIn({"failed"}) # {} PROVE GraphStatus = "failed"
      <4>1. PICK n \in D : b[n] = "failed" BY <2>7, <3>6
      <4>2. told[n] = "failed" BY <2>6, <3>1, <4>1 DEF Later
      <4> QED BY <3>2, <3>3, <4>2
    <3>7. ASSUME GraphStatus = "pending" PROVE WasIn({"ready", "running"}) \subseteq InState({"complete"})
      <4>1. Told \cap {"failed", "running", "ready"} = {} BY <3>7 DEF GraphStatus
      <4>2. ASSUME NEW n \in D, b[n] \in {"ready", "running"} PROVE st[n] = "complete"
        <5>1. told[n] # "pending" BY <2>6, <3>1, <4>2 DEF Later
        <5>2. told[n] = "complete" BY <3>2, <4>1, <5>1 DEF Status
        <5> QED BY <2>6, <3>1, <5>2 DEF Later
      <4> QED BY <2>7, <4>2
    <3>8. ASSUME NEW name \in WhatNext
          PROVE  Preds(ticketMap[name]) \ {ticketMap[name]} \subseteq InState({"complete", "failed"})
      <4>1. PICK n : n = ticketMap[name] OBVIOUS
      <4>2. n \in D /\ told[n] \in {"ready", "running"} BY <2>2, <2>3, <2>5, <3>8, <4>1 DEF WhatNext
      <4>3. st[n] # "pending" BY <2>6, <3>1, <4>2 DEF Later
      <4> QED BY <2>1, <2>2, <2>5, <4>1, <4>2, <4>3 DEF Runs
    <3> QED BY <3>4, <3>5, <3>6, <3>7, <3>8
  <2>10. ASSUME NEW name \in DOMAIN ticketMap, Preds(ticketMap[name]) \subseteq DOMAIN query.told
         PROVE  /\ WhyBlocked(name) \cap WasIn({"complete"}) = {}
                /\ Preds(ticketMap[name]) \ WhyBlocked(name) \subseteq InState({"complete"})
    <3>1. PICK P : P = Preds(ticketMap[name]) OBVIOUS
    <3>2. P \subseteq DOMAIN told /\ WhyBlocked(name) = {m \in P : told[m] # "complete"}
      BY <2>5, <2>10, <3>1 DEF WhyBlocked
    <3>3. \A m \in P : told[m] # "complete" => b[m] # "complete" BY <2>6, <3>2 DEF Later
    <3>4. \A m \in P : told[m] = "complete" => m \in D /\ st[m] = "complete" BY <2>6, <3>2 DEF Later
    <3>5. WhyBlocked(name) \cap WasIn({"complete"}) = {} BY <2>7, <3>2, <3>3
    <3>6. P \ WhyBlocked(name) \subseteq InState({"complete"}) BY <2>7, <3>2, <3>4
    <3> QED BY <3>1, <3>5, <3>6
  <2>11. DOMAIN lattice.status = D BY <2>2
  <2> QED BY <2>9, <2>10, <2>11
<1> QED BY <1>1, TicketsInductive, PTL DEF TicketsSpec
-----------------------------------------------------------------------------
(***************************************************************************)
(* Rendering: what the messages hold.                                      *)
(***************************************************************************)
\* One more sequence at the end.
LEMMA FlattenAppend ==
  ASSUME NEW S, NEW seqs \in Seq(Seq(S)), NEW y \in Seq(S)
  PROVE  FlattenSeq(Append(seqs, y)) = FlattenSeq(seqs) \o y
<1>1. PICK N \in Nat : N = Len(seqs) OBVIOUS
<1>2. PICK long : long = Append(seqs, y) OBVIOUS
<1>3. long \in Seq(Seq(S)) /\ Len(long) = N + 1 /\ long[N + 1] = y /\ \A k \in 1 .. N : long[k] = seqs[k]
  <2>1. PICK Q : Q = Seq(S) OBVIOUS
  <2>2. seqs \in Seq(Q) /\ y \in Q BY <2>1
  <2>3. long \in Seq(Q) /\ Len(long) = N + 1 /\ long[N + 1] = y /\ \A k \in 1 .. N : long[k] = seqs[k]
    BY <1>1, <1>2, <2>2
  <2> QED BY <2>1, <2>3
<1>4. PICK g \in [0 .. Len(seqs) -> Seq(S)] : Flattens(g, seqs) /\ FlattenSeq(seqs) = g[Len(seqs)]
  BY FlattenUnfolds
<1>5. PICK h \in [0 .. Len(long) -> Seq(S)] : Flattens(h, long) /\ FlattenSeq(long) = h[Len(long)]
  BY <1>3, FlattenUnfolds
<1> DEFINE T == {n \in Nat : n <= N => h[n] = g[n]}
<1>6. 0 \in T BY <1>4, <1>5 DEF Flattens
<1>7. ASSUME NEW n \in T PROVE n + 1 \in T
  <2>1. SUFFICES ASSUME n + 1 <= N PROVE h[n + 1] = g[n + 1] OBVIOUS
  <2>2. PICK k : k = n + 1 OBVIOUS
  <2>3. k \in 1 .. N /\ k \in 1 .. (N + 1) /\ k - 1 = n BY <2>1, <2>2
  <2>4. g[k] = g[n] \o seqs[k] BY <1>1, <1>4, <2>3 DEF Flattens
  <2>5. h[k] = h[n] \o long[k] BY <1>3, <1>5, <2>3 DEF Flattens
  <2>6. h[n] = g[n] BY <2>1
  <2> QED BY <1>3, <2>2, <2>3, <2>4, <2>5, <2>6
<1>8. T = Nat
  <2> HIDE DEF T
  <2>1. T \in SUBSET Nat BY DEF T
  <2> QED BY <1>6, <1>7, <2>1, InductionOnNat
<1>9. h[N] = g[N] BY <1>8
<1>10. h[N + 1] = h[N] \o long[N + 1]
  <2>1. PICK k : k = N + 1 OBVIOUS
  <2>2. k \in 1 .. (N + 1) /\ k - 1 = N BY <2>1
  <2>3. h[k] = h[N] \o long[k] BY <1>3, <1>5, <2>2 DEF Flattens
  <2> QED BY <2>1, <2>3
<1> QED BY <1>1, <1>2, <1>3, <1>4, <1>5, <1>9, <1>10

Role == {"user", "assistant"}
Message == [role : Role, blocks : Seq(Nat)]
Render_State == [role : Role \cup {Nobody}, blocks : Seq(Nat), messages : Seq(Message)]

\* All blocks so far, in the order in which the messages hold them.
Flow(acc) == FlattenSeq(BlocksOf(acc.messages)) \o acc.blocks

LEMMA BlocksTyped ==
  ASSUME NEW ms \in Seq(Message)
  PROVE  /\ BlocksOf(ms) \in Seq(Seq(Nat)) /\ FlattenSeq(BlocksOf(ms)) \in Seq(Nat)
         /\ \A r \in Message : FlattenSeq(BlocksOf(Append(ms, r))) = FlattenSeq(BlocksOf(ms)) \o r.blocks
<1>1. \A m \in DOMAIN ms : ms[m].blocks \in Seq(Nat)
  <2>1. \A m \in DOMAIN ms : ms[m] \in Message OBVIOUS
  <2> QED BY <2>1 DEF Message
<1>2. DOMAIN ms = 1 .. Len(ms) /\ Len(ms) \in Nat OBVIOUS
<1>3. BlocksOf(ms) \in Seq(Seq(Nat)) BY <1>1, <1>2 DEF BlocksOf
<1>4. ASSUME NEW r \in Message PROVE FlattenSeq(BlocksOf(Append(ms, r))) = FlattenSeq(BlocksOf(ms)) \o r.blocks
  <2>1. PICK q, b : q = BlocksOf(ms) /\ b = r.blocks OBVIOUS
  <2>2. q \in Seq(Seq(Nat)) /\ b \in Seq(Nat) BY <1>3, <2>1 DEF Message
  <2>3. BlocksOf(Append(ms, r)) = Append(q, b)
    <3>1. PICK long : long = Append(ms, r) OBVIOUS
    <3>2. PICK N \in Nat : N = Len(ms) /\ DOMAIN ms = 1 .. N BY <1>2
    <3>3. DOMAIN long = 1 .. (N + 1) /\ long[N + 1] = r /\ \A m \in 1 .. N : long[m] = ms[m]
      BY <3>1, <3>2
    <3>4. BlocksOf(long) = [m \in 1 .. (N + 1) |-> IF m = N + 1 THEN b ELSE q[m]]
      <4>1. ASSUME NEW m \in 1 .. (N + 1) PROVE long[m].blocks = IF m = N + 1 THEN b ELSE q[m]
        <5>1. CASE m = N + 1 BY <2>1, <3>3, <5>1
        <5>2. CASE m # N + 1
          <6>1. m \in 1 .. N BY <5>2
          <6>2. q[m] = ms[m].blocks BY <2>1, <3>2, <6>1 DEF BlocksOf
          <6> QED BY <3>3, <5>2, <6>1, <6>2
        <5> QED BY <5>1, <5>2
      <4> QED BY <3>3, <4>1 DEF BlocksOf
    <3>5. Append(q, b) = [m \in 1 .. (N + 1) |-> IF m = N + 1 THEN b ELSE q[m]]
      <4>1. Len(q) = N /\ DOMAIN q = 1 .. N BY <2>1, <2>2, <3>2 DEF BlocksOf
      <4>2. PICK u : u = Append(q, b) OBVIOUS
      <4>3. u \in Seq(Seq(Nat)) /\ Len(u) = N + 1 /\ u[N + 1] = b /\ \A m \in 1 .. N : u[m] = q[m]
        <5>1. PICK Q : Q = Seq(Nat) OBVIOUS
        <5>2. q \in Seq(Q) /\ b \in Q BY <2>2, <5>1
        <5>3. u \in Seq(Q) /\ Len(u) = N + 1 /\ u[N + 1] = b /\ \A m \in 1 .. N : u[m] = q[m]
          BY <4>1, <4>2, <5>2
        <5> QED BY <5>1, <5>3
      <4>4. DOMAIN u = 1 .. (N + 1) /\ u = [m \in 1 .. (N + 1) |-> u[m]] BY <4>3
      <4>5. \A m \in 1 .. (N + 1) : u[m] = IF m = N + 1 THEN b ELSE q[m]
        <5>1. \A m \in 1 .. (N + 1) : m = N + 1 \/ m \in 1 .. N OBVIOUS
        <5> QED BY <4>3, <5>1
      <4> QED BY <4>2, <4>4, <4>5
    <3> QED BY <3>1, <3>4, <3>5
  <2>4. FlattenSeq(Append(q, b)) = FlattenSeq(q) \o b BY <2>2, FlattenAppend
  <2> QED BY <2>1, <2>3, <2>4
<1>5. PICK q : q = BlocksOf(ms) OBVIOUS
<1>6. FlattenSeq(q) \in Seq(Nat) BY <1>3, <1>5, FlattenPlaces
<1> QED BY <1>3, <1>4, <1>5, <1>6

\* A list of blocks in order, and which blocks it holds.
Ordered(s, S) == Range(s) = S /\ \A i, j \in DOMAIN s : i < j => s[i] < s[j]
AllBy(s, who) == \A n \in DOMAIN s : Speaker(s[n]) = who

LEMMA OrderedGrows ==
  ASSUME NEW s \in Seq(Nat), NEW k \in Nat, NEW S \in SUBSET (0 .. k), Ordered(s, S)
  PROVE  Append(s, k + 1) \in Seq(Nat) /\ Ordered(Append(s, k + 1), S \cup {k + 1})
<1>1. PICK i \in Nat : i = k + 1 OBVIOUS
<1>2. PICK N \in Nat, t \in Seq(Nat) : N = Len(s) /\ t = Append(s, i)
  <2>1. Len(s) \in Nat /\ Append(s, i) \in Seq(Nat) OBVIOUS
  <2> QED BY <2>1
<1>3. DOMAIN s = 1 .. N /\ DOMAIN t = 1 .. (N + 1) /\ t[N + 1] = i /\ \A n \in 1 .. N : t[n] = s[n] BY <1>2
<1>4. \A n \in 1 .. N : s[n] \in S /\ s[n] < i
  <2>1. \A n \in 1 .. N : s[n] \in S BY <1>3 DEF Ordered, Range
  <2>2. \A x \in S : x < i BY <1>1
  <2> QED BY <2>1, <2>2
<1>5. \A n \in 1 .. (N + 1) : n = N + 1 \/ n \in 1 .. N OBVIOUS
<1>6. Range(t) = S \cup {i}
  <2>1. Range(t) \subseteq S \cup {i} BY <1>3, <1>4, <1>5 DEF Range
  <2>2. i \in Range(t)
    <3>1. N + 1 \in 1 .. (N + 1) OBVIOUS
    <3> QED BY <1>3, <3>1 DEF Range
  <2>3. ASSUME NEW x \in S PROVE x \in Range(t)
    <3>1. PICK n \in 1 .. N : s[n] = x BY <1>3 DEF Ordered, Range
    <3>2. n \in 1 .. (N + 1) OBVIOUS
    <3> QED BY <1>3, <3>1, <3>2 DEF Range
  <2> QED BY <2>1, <2>2, <2>3
<1>7. ASSUME NEW a \in 1 .. (N + 1), NEW b \in 1 .. (N + 1), a < b PROVE t[a] < t[b]
  <2>1. a \in 1 .. N BY <1>7
  <2>2. CASE b = N + 1 BY <1>3, <1>4, <2>1, <2>2
  <2>3. CASE b \in 1 .. N BY <1>3, <1>7, <2>1, <2>3 DEF Ordered
  <2> QED BY <1>5, <2>2, <2>3
<1>8. Ordered(t, S \cup {i}) BY <1>3, <1>6, <1>7 DEF Ordered
<1> QED BY <1>1, <1>2, <1>8

LEMMA AllByGrows ==
  ASSUME NEW s \in Seq(Nat), NEW i \in Nat, NEW who, AllBy(s, who), Speaker(i) = who
  PROVE  AllBy(Append(s, i), who)
<1>1. PICK N \in Nat, t \in Seq(Nat) : N = Len(s) /\ t = Append(s, i)
  <2>1. Len(s) \in Nat /\ Append(s, i) \in Seq(Nat) OBVIOUS
  <2> QED BY <2>1
<1>2. DOMAIN s = 1 .. N /\ DOMAIN t = 1 .. (N + 1) /\ t[N + 1] = i /\ \A n \in 1 .. N : t[n] = s[n] BY <1>1
<1>3. \A n \in 1 .. (N + 1) : n = N + 1 \/ n \in 1 .. N OBVIOUS
<1>4. \A n \in 1 .. (N + 1) : Speaker(t[n]) = who BY <1>2, <1>3 DEF AllBy
<1> QED BY <1>1, <1>2, <1>4 DEF AllBy

\* What is collected is all by the one who speaks, and so is every message.
Sorted(acc) ==
    /\ acc \in Render_State
    /\ \A m \in DOMAIN acc.messages : AllBy(acc.messages[m].blocks, acc.messages[m].role)
    /\ IF acc.role = Nobody THEN acc.blocks = <<>> ELSE AllBy(acc.blocks, acc.role)

LEMMA MessagesGrow ==
  ASSUME NEW ms \in Seq(Message), \A m \in DOMAIN ms : AllBy(ms[m].blocks, ms[m].role),
         NEW r \in Message, AllBy(r.blocks, r.role)
  PROVE  /\ Append(ms, r) \in Seq(Message)
         /\ \A m \in DOMAIN Append(ms, r) : AllBy(Append(ms, r)[m].blocks, Append(ms, r)[m].role)
<1>1. PICK N \in Nat, t \in Seq(Message) : N = Len(ms) /\ t = Append(ms, r)
  <2>1. Len(ms) \in Nat /\ Append(ms, r) \in Seq(Message) OBVIOUS
  <2> QED BY <2>1
<1>2. DOMAIN ms = 1 .. N /\ DOMAIN t = 1 .. (N + 1) /\ t[N + 1] = r /\ \A n \in 1 .. N : t[n] = ms[n] BY <1>1
<1>3. \A n \in 1 .. (N + 1) : n = N + 1 \/ n \in 1 .. N OBVIOUS
<1>4. \A n \in 1 .. (N + 1) : AllBy(t[n].blocks, t[n].role) BY <1>2, <1>3
<1> QED BY <1>1, <1>2, <1>4

\* Flush moves blocks, and neither loses one nor changes the order.
LEMMA FlushKeeps ==
  ASSUME NEW acc, Sorted(acc)
  PROVE  /\ Sorted(Flush(acc)) /\ Flush(acc).role = Nobody /\ Flush(acc).blocks = <<>>
         /\ Flow(Flush(acc)) = Flow(acc)
<1>1. PICK role, bl, ms : role = acc.role /\ bl = acc.blocks /\ ms = acc.messages OBVIOUS
<1>2. /\ role \in Role \cup {Nobody} /\ bl \in Seq(Nat) /\ ms \in Seq(Message)
      /\ acc = [role |-> role, blocks |-> bl, messages |-> ms]
  BY <1>1 DEF Sorted, Render_State
<1>3. PICK f : f = Flush(acc) OBVIOUS
<1>4. Nobody \notin Role BY DEF Nobody, Role
<1>5. CASE role # Nobody /\ bl # <<>>
  <2>1. PICK r : r = [role |-> role, blocks |-> bl] OBVIOUS
  <2>2. r \in Message /\ r.role = role /\ r.blocks = bl BY <1>2, <1>5, <2>1 DEF Message
  <2>3. f = [role |-> Nobody, blocks |-> <<>>, messages |-> Append(ms, r)]
    BY <1>1, <1>3, <1>5, <2>1 DEF Flush
  <2>4. f.role = Nobody /\ f.blocks = <<>> /\ f.messages = Append(ms, r) BY <2>3
  <2>5. AllBy(bl, role) BY <1>1, <1>5 DEF Sorted
  <2>6. \A m \in DOMAIN ms : AllBy(ms[m].blocks, ms[m].role) BY <1>1 DEF Sorted
  <2>7. PICK t : t = Append(ms, r) OBVIOUS
  <2>8. t \in Seq(Message) /\ \A m \in DOMAIN t : AllBy(t[m].blocks, t[m].role)
    BY <1>2, <2>2, <2>5, <2>6, <2>7, MessagesGrow
  <2>9. f \in Render_State
    <3>1. <<>> \in Seq(Nat) OBVIOUS
    <3> QED BY <2>3, <2>7, <2>8, <3>1 DEF Render_State
  <2>10. Sorted(f) BY <2>4, <2>7, <2>8, <2>9 DEF Sorted
  <2>11. Flow(f) = Flow(acc)
    <3>1. PICK x, y : x = FlattenSeq(BlocksOf(ms)) /\ y = FlattenSeq(BlocksOf(t)) OBVIOUS
    <3>2. x \in Seq(Nat) /\ y = x \o bl BY <1>2, <2>2, <2>7, <3>1, BlocksTyped
    <3>3. Flow(f) = y \o <<>> BY <2>4, <2>7, <3>1 DEF Flow
    <3>4. Flow(acc) = x \o bl BY <1>1, <3>1 DEF Flow
    <3>5. x \o bl \in Seq(Nat) BY <1>2, <3>2
    <3>6. y \o <<>> = y BY <3>2, <3>5
    <3> QED BY <3>2, <3>3, <3>4, <3>6
  <2> QED BY <1>3, <2>4, <2>10, <2>11
<1>6. CASE ~(role # Nobody /\ bl # <<>>)
  <2>1. bl = <<>> BY <1>1, <1>6 DEF Sorted
  <2>2. f = [acc EXCEPT !.role = Nobody] BY <1>1, <1>3, <1>6 DEF Flush
  <2>3. f = [role |-> Nobody, blocks |-> bl, messages |-> ms] BY <1>2, <2>2
  <2>4. f \in Render_State BY <1>2, <2>3 DEF Render_State
  <2>5. f.role = Nobody /\ f.blocks = bl /\ f.messages = ms BY <2>3
  <2>6. Sorted(f) BY <1>1, <2>1, <2>4, <2>5 DEF Sorted
  <2>7. Flow(f) = Flow(acc) BY <1>1, <2>5 DEF Flow
  <2> QED BY <1>3, <2>1, <2>5, <2>6, <2>7
<1> QED BY <1>5, <1>6

\* One block more, collected or in a message of its own.
LEMMA FlowGrows ==
  ASSUME NEW acc, Sorted(acc), NEW i \in Nat
  PROVE  /\ Flow(acc) \in Seq(Nat)
         /\ \A role : Flow([role |-> role, blocks |-> Append(acc.blocks, i), messages |-> acc.messages])
                      = Append(Flow(acc), i)
         /\ \A role, who : (acc.blocks = <<>> /\ who \in Role)
               => Flow([role |-> role, blocks |-> <<>>,
                        messages |-> Append(acc.messages, [role |-> who, blocks |-> <<i>>])])
                  = Append(Flow(acc), i)
<1>1. PICK bl, ms : bl = acc.blocks /\ ms = acc.messages OBVIOUS
<1>2. bl \in Seq(Nat) /\ ms \in Seq(Message) BY <1>1 DEF Sorted, Render_State
<1>3. PICK x : x = FlattenSeq(BlocksOf(ms)) OBVIOUS
<1>4. x \in Seq(Nat) BY <1>2, <1>3, BlocksTyped
<1>5. Flow(acc) = x \o bl BY <1>1, <1>3 DEF Flow
<1>6. ASSUME NEW role
      PROVE  Flow([role |-> role, blocks |-> Append(bl, i), messages |-> ms]) = Append(x \o bl, i)
  <2>1. PICK f : f = [role |-> role, blocks |-> Append(bl, i), messages |-> ms] OBVIOUS
  <2>2. f.blocks = Append(bl, i) /\ f.messages = ms BY <2>1
  <2>3. Flow(f) = x \o Append(bl, i) BY <1>3, <2>2 DEF Flow
  <2>4. x \o Append(bl, i) = Append(x \o bl, i) BY <1>2, <1>4
  <2> QED BY <2>1, <2>3, <2>4
<1>7. ASSUME NEW role, NEW who \in Role, bl = <<>>
      PROVE  Flow([role |-> role, blocks |-> <<>>, messages |-> Append(ms, [role |-> who, blocks |-> <<i>>])])
             = Append(x \o bl, i)
  <2>1. PICK r : r = [role |-> who, blocks |-> <<i>>] OBVIOUS
  <2>2. r \in Message /\ r.blocks = <<i>>
    <3>1. <<i>> \in Seq(Nat) OBVIOUS
    <3> QED BY <2>1, <3>1 DEF Message
  <2>3. PICK f, t : t = Append(ms, r) /\ f = [role |-> role, blocks |-> <<>>, messages |-> t] OBVIOUS
  <2>4. f.blocks = <<>> /\ f.messages = t BY <2>3
  <2>5. FlattenSeq(BlocksOf(t)) = x \o <<i>> BY <1>2, <1>3, <2>2, <2>3, BlocksTyped
  <2>6. Flow(f) = (x \o <<i>>) \o <<>> BY <2>4, <2>5 DEF Flow
  <2>7. (x \o <<i>>) \o <<>> = Append(x \o <<>>, i) BY <1>4
  <2> QED BY <1>7, <2>1, <2>3, <2>6, <2>7
<1>8. x \o bl \in Seq(Nat) BY <1>2, <1>4
<1> QED BY <1>1, <1>5, <1>6, <1>7, <1>8

\* What a conversation may hold next depends on what it holds.
Kinds == Content \cup {"user_message", "assistant_start", "user_tool_result", "claude_stderr",
                       "assistant_complete"}
TurnAfterTurn ==
    /\ events \in Seq(Kinds)
    /\ \A k \in DOMAIN events :
          /\ events[k] = "user_message" <=> (k = 1 \/ events[k - 1] = "assistant_complete")
          /\ events[k] = "assistant_start" <=> (k > 1 /\ events[k - 1] = "user_message")

LEMMA ConversationGrows == RenderSpec => []TurnAfterTurn
<1>1. RenderInit => TurnAfterTurn
  <2>1. SUFFICES ASSUME events = <<>> PROVE TurnAfterTurn BY DEF RenderInit
  <2>2. events \in Seq(Kinds) /\ DOMAIN events = {} BY <2>1
  <2> QED BY <2>2 DEF TurnAfterTurn
<1>2. TurnAfterTurn /\ [RenderNext]_events => TurnAfterTurn'
  <2> SUFFICES ASSUME TurnAfterTurn, [RenderNext]_events PROVE TurnAfterTurn' OBVIOUS
  <2>1. CASE UNCHANGED events BY <2>1 DEF TurnAfterTurn
  <2>2. ASSUME NEW e \in Kinds, AppendEvent(e) PROVE TurnAfterTurn'
    <3>1. PICK N \in Nat, s \in Seq(Kinds), t \in Seq(Kinds) :
             N = Len(events) /\ s = events /\ t = Append(events, e)
      <4>1. events \in Seq(Kinds) /\ Len(events) \in Nat /\ Append(events, e) \in Seq(Kinds)
        BY DEF TurnAfterTurn
      <4> QED BY <4>1
    <3>2. /\ DOMAIN s = 1 .. N /\ DOMAIN t = 1 .. (N + 1)
          /\ t[N + 1] = e /\ \A k \in 1 .. N : t[k] = s[k]
      BY <3>1
    <3>3. events' = t BY <2>2, <3>1 DEF AppendEvent
    <3>4. /\ e = "user_message" <=> (N = 0 \/ s[N] = "assistant_complete")
          /\ e = "assistant_start" <=> (N # 0 /\ s[N] = "user_message")
      <4>1. Opened <=> N # 0 /\ s[N] # "assistant_complete"
        <5>1. events # <<>> <=> N # 0 BY <3>1
        <5> QED BY <3>1, <5>1 DEF Opened
      <4>2. CASE ~Opened
        <5>1. e = "user_message" BY <2>2, <4>2 DEF AppendEvent
        <5> QED BY <4>1, <4>2, <5>1
      <4>3. CASE Opened /\ s[N] = "user_message"
        <5>1. e = "assistant_start" BY <2>2, <3>1, <4>3 DEF AppendEvent
        <5> QED BY <4>1, <4>3, <5>1
      <4>4. CASE Opened /\ s[N] # "user_message"
        <5>1. e \in Content \cup {"user_tool_result", "claude_stderr", "assistant_complete"}
          BY <2>2, <3>1, <4>4 DEF AppendEvent
        <5> QED BY <4>1, <4>4, <5>1 DEF Content
      <4> QED BY <4>2, <4>3, <4>4
    <3>5. ASSUME NEW k \in 1 .. (N + 1)
          PROVE  /\ t[k] = "user_message" <=> (k = 1 \/ t[k - 1] = "assistant_complete")
                 /\ t[k] = "assistant_start" <=> (k > 1 /\ t[k - 1] = "user_message")
      <4>1. CASE k = N + 1
        <5>1. k - 1 = N /\ (k = 1 <=> N = 0) /\ (k > 1 <=> N # 0) BY <4>1
        <5>2. N # 0 => t[N] = s[N] BY <3>2
        <5> QED BY <3>2, <3>4, <4>1, <5>1, <5>2
      <4>2. CASE k \in 1 .. N
        <5>1. /\ s[k] = "user_message" <=> (k = 1 \/ s[k - 1] = "assistant_complete")
              /\ s[k] = "assistant_start" <=> (k > 1 /\ s[k - 1] = "user_message")
          BY <3>1, <3>2, <4>2 DEF TurnAfterTurn
        <5>2. t[k] = s[k] /\ (k # 1 => t[k - 1] = s[k - 1]) BY <3>2, <4>2
        <5>3. k > 1 <=> k # 1 BY <4>2
        <5> QED BY <5>1, <5>2, <5>3
      <4> QED BY <4>1, <4>2
    <3> QED BY <3>1, <3>2, <3>3, <3>5 DEF TurnAfterTurn
  <2> QED BY <2>1, <2>2 DEF RenderNext, Kinds
<1> QED BY <1>1, <1>2, PTL DEF RenderSpec

LEMMA RenderTyped ==
  ASSUME TurnAfterTurn, NEW acc \in Render_State, NEW i \in DOMAIN events
  PROVE  Render(acc, i) \in Render_State
<1>1. PICK role \in Role \cup {Nobody}, bl \in Seq(Nat), ms \in Seq(Message) :
         acc = [role |-> role, blocks |-> bl, messages |-> ms]
  BY DEF Render_State
<1>2. \A f \in Render_State : \E a \in Role \cup {Nobody}, b \in Seq(Nat), m \in Seq(Message) :
         f = [role |-> a, blocks |-> b, messages |-> m]
  BY DEF Render_State
<1>3. Flush(acc) \in Render_State
  <2>1. CASE role # Nobody /\ bl # <<>>
    <3>1. [role |-> role, blocks |-> bl] \in Message BY <2>1 DEF Message
    <3>2. Append(ms, [role |-> role, blocks |-> bl]) \in Seq(Message) /\ <<>> \in Seq(Nat) BY <3>1
    <3>3. Flush(acc) = [role |-> Nobody, blocks |-> <<>>,
                        messages |-> Append(ms, [role |-> role, blocks |-> bl])]
      BY <1>1, <2>1 DEF Flush
    <3> QED BY <3>2, <3>3 DEF Render_State
  <2>2. CASE ~(role # Nobody /\ bl # <<>>)
    <3>1. Flush(acc) = [role |-> Nobody, blocks |-> bl, messages |-> ms] BY <1>1, <2>2 DEF Flush
    <3> QED BY <3>1 DEF Render_State
  <2> QED BY <2>1, <2>2
<1>4. PICK f \in Render_State : f = Flush(acc) BY <1>3
<1>5. PICK a \in Role \cup {Nobody}, b \in Seq(Nat), m \in Seq(Message) :
         f = [role |-> a, blocks |-> b, messages |-> m]
  BY <1>2
<1>50. f.role = a /\ f.blocks = b /\ f.messages = m BY <1>5
<1>6. i \in Nat /\ Append(b, i) \in Seq(Nat) /\ Append(bl, i) \in Seq(Nat) /\ <<i>> \in Seq(Nat)
  <2>1. i \in Nat BY DEF TurnAfterTurn
  <2> QED BY <2>1
<1>7. events[i] \in Kinds BY DEF TurnAfterTurn
<1>8. CASE events[i] = "user_message"
  <2>1. Render(acc, i) = [role |-> "user", blocks |-> Append(b, i), messages |-> m]
    <3>1. Render(acc, i) = [Flush(acc) EXCEPT !.role = "user", !.blocks = Append(Flush(acc).blocks, i)]
      BY <1>8 DEF Render, Content
    <3>2. PICK x : x = Append(b, i) OBVIOUS
    <3>3. PICK g : g = [role |-> "user", blocks |-> b, messages |-> m] OBVIOUS
    <3>4. [f EXCEPT !.role = "user"] = g BY <1>5, <3>3
    <3>5. [g EXCEPT !.blocks = x] = [role |-> "user", blocks |-> x, messages |-> m]
      <4>1. [[role |-> "user", blocks |-> b, messages |-> m] EXCEPT !.blocks = x]
            = [role |-> "user", blocks |-> x, messages |-> m]
        BY SMTT(30)
      <4> QED BY <3>3, <4>1
    <3>6. [f EXCEPT !.role = "user", !.blocks = x] = [[f EXCEPT !.role = "user"] EXCEPT !.blocks = x]
      OBVIOUS
    <3> QED BY <1>4, <1>50, <3>1, <3>2, <3>4, <3>5, <3>6
  <2> QED BY <1>6, <2>1 DEF Render_State, Role
<1>9. CASE events[i] = "assistant_start"
  <2>1. Render(acc, i) = [role |-> "assistant", blocks |-> b, messages |-> m]
    <3>1. Render(acc, i) = [Flush(acc) EXCEPT !.role = "assistant"] BY <1>9 DEF Render, Content
    <3>2. [f EXCEPT !.role = "assistant"] = [role |-> "assistant", blocks |-> b, messages |-> m] BY <1>5
    <3> QED BY <1>4, <3>1, <3>2
  <2> QED BY <2>1 DEF Render_State, Role
<1>10. CASE events[i] \in Content
  <2>1. Render(acc, i) = [role |-> role, blocks |-> Append(bl, i), messages |-> ms]
    BY <1>1, <1>10 DEF Render, Content
  <2> QED BY <1>6, <2>1 DEF Render_State
<1>11. CASE events[i] = "user_tool_result"
  <2>1. PICK r : r = [role |-> "user", blocks |-> <<i>>] OBVIOUS
  <2>2. Render(acc, i) = [role |-> a, blocks |-> b, messages |-> Append(m, r)]
    <3>1. Render(acc, i) = [Flush(acc) EXCEPT !.messages = Append(Flush(acc).messages, r)]
      BY <1>11, <2>1 DEF Render, Content
    <3>2. PICK x : x = Append(m, r) OBVIOUS
    <3>3. [f EXCEPT !.messages = x] = [role |-> a, blocks |-> b, messages |-> x] BY <1>5
    <3> QED BY <1>4, <1>50, <3>1, <3>2, <3>3
  <2>3. r \in Message BY <1>6, <2>1 DEF Message, Role
  <2>4. Append(m, r) \in Seq(Message) BY <2>3
  <2> QED BY <2>2, <2>4 DEF Render_State
<1>12. CASE events[i] = "assistant_complete"
  <2>1. Render(acc, i) = f BY <1>4, <1>12 DEF Render, Content
  <2> QED BY <2>1
<1>13. CASE events[i] = "claude_stderr"
  <2>1. Render(acc, i) = acc BY <1>13 DEF Render, Content
  <2> QED BY <2>1
<1> QED BY <1>7, <1>8, <1>9, <1>10, <1>11, <1>12, <1>13 DEF Kinds

\* After the first k events: what was collected is in order and complete, and there
\* is no speaker only after a turn, and where the agent would be unannounced.
Silent(start, k) == (k # 0 /\ events[k] = "assistant_complete") \/ ~Speaking(start, k)
Collected(start, acc, k) ==
    /\ Sorted(acc)
    /\ Ordered(Flow(acc), Shown(start) \cap (1 .. k))
    /\ acc.role = "user" => k # 0 /\ events[k] = "user_message"
    /\ acc.role = Nobody => Silent(start, k)

\* Who is unannounced stays so until the agent begins to speak.
LEMMA StaysUnannounced ==
  ASSUME NEW start \in Nat, NEW k \in Nat, ~Speaking(start, k), events[k + 1] # "assistant_start"
  PROVE  ~Speaking(start, k + 1)
<1>1. SUFFICES ASSUME NEW m \in start .. (k + 1), events[m] = "assistant_start",
                      \A x \in m .. (k + 1) : events[x] # "user_tool_result"
               PROVE  FALSE
  BY DEF Speaking
<1>2. m \in Int /\ start <= m /\ m <= k + 1 OBVIOUS
<1>3. m # k + 1 BY <1>1
<1>4. m \in start .. k BY <1>2, <1>3
<1>5. \A x \in m .. k : x \in m .. (k + 1) BY <1>2
<1> QED BY <1>1, <1>4, <1>5 DEF Speaking

LEMMA RenderCollects ==
  ASSUME TurnAfterTurn, NEW start \in Nat, ~SpeaksUnannounced(start),
         NEW k \in Nat, k + 1 \in DOMAIN events, k + 1 >= start, NEW acc, Collected(start, acc, k)
  PROVE  Collected(start, Render(acc, k + 1), k + 1)
<1>1. PICK i \in DOMAIN events : i = k + 1 OBVIOUS
<1>2. i \in Nat /\ i - 1 = k /\ (i = 1 <=> k = 0) /\ (i > 1 <=> k # 0) /\ i \in 1 .. i BY <1>1
<1>3. PICK e : e = events[i] OBVIOUS
<1>4. /\ e \in Kinds
      /\ e = "user_message" <=> (k = 0 \/ events[k] = "assistant_complete")
      /\ e = "assistant_start" <=> (k # 0 /\ events[k] = "user_message")
  <2>1. e \in Kinds BY <1>3 DEF TurnAfterTurn
  <2>2. /\ events[i] = "user_message" <=> (i = 1 \/ events[i - 1] = "assistant_complete")
        /\ events[i] = "assistant_start" <=> (i > 1 /\ events[i - 1] = "user_message")
    BY DEF TurnAfterTurn
  <2> QED BY <1>2, <1>3, <2>1, <2>2
<1>5. PICK n : n = Render(acc, i) OBVIOUS
<1>6. PICK f : f = Flush(acc) OBVIOUS
<1>7. Sorted(f) /\ f.role = Nobody /\ f.blocks = <<>> /\ Flow(f) = Flow(acc)
  BY <1>6, FlushKeeps DEF Collected
<1>8. /\ acc \in Render_State /\ f \in Render_State /\ n \in Render_State
      /\ Sorted(acc) /\ Ordered(Flow(acc), Shown(start) \cap (1 .. k))
  BY <1>5, <1>7, RenderTyped DEF Collected, Sorted
<1>9. Nobody \notin Role /\ "user" # "assistant" BY DEF Nobody, Role
<1>10. PICK F, S : F = Flow(acc) /\ S = Shown(start) \cap (1 .. k) OBVIOUS
<1>11. F \in Seq(Nat) BY <1>8, <1>10, FlowGrows
<1>12. S \in SUBSET (0 .. k) /\ Ordered(F, S) BY <1>8, <1>10
<1>13. Shown(start) \cap (1 .. i) = IF e \in Content \cup {"user_message", "user_tool_result"} THEN S \cup {i} ELSE S
  <2>1. \A x \in 1 .. i : x = i \/ x \in 1 .. k BY <1>1
  <2>2. 1 .. k \subseteq 1 .. i BY <1>1
  <2>3. i \in Shown(start) <=> e \in Content \cup {"user_message", "user_tool_result"} BY <1>1, <1>3 DEF Shown
  <2> QED BY <1>2, <1>10, <2>1, <2>2, <2>3
<1>14. Append(F, i) \in Seq(Nat) /\ Ordered(Append(F, i), S \cup {i}) BY <1>1, <1>11, <1>12, OrderedGrows
<1>15. Ordered(F, Shown(start) \cap (1 .. i)) \/ e \in Content \cup {"user_message", "user_tool_result"}
  BY <1>12, <1>13
<1>16. e \in Content \cup {"user_message", "user_tool_result"} => Ordered(Append(F, i), Shown(start) \cap (1 .. i))
  BY <1>13, <1>14
<1>17. PICK bl, ms, fms : bl = acc.blocks /\ ms = acc.messages /\ fms = f.messages OBVIOUS
<1>18. /\ bl \in Seq(Nat) /\ ms \in Seq(Message) /\ fms \in Seq(Message)
       /\ \A m \in DOMAIN ms : AllBy(ms[m].blocks, ms[m].role)
       /\ \A m \in DOMAIN fms : AllBy(fms[m].blocks, fms[m].role)
       /\ acc = [role |-> acc.role, blocks |-> bl, messages |-> ms]
       /\ f = [role |-> Nobody, blocks |-> <<>>, messages |-> fms]
  BY <1>7, <1>8, <1>17 DEF Sorted, Render_State
<1>19. CASE e = "user_message"
  <2>1. PICK b : b = Append(<<>>, i) OBVIOUS
  <2>2. n = [role |-> "user", blocks |-> b, messages |-> fms]
    <3>1. n = [f EXCEPT !.role = "user", !.blocks = Append(f.blocks, i)]
      BY <1>3, <1>5, <1>6, <1>19 DEF Render, Content
    <3>2. n = [[f EXCEPT !.role = "user"] EXCEPT !.blocks = b] BY <1>7, <2>1, <3>1
    <3>3. [f EXCEPT !.role = "user"] = [role |-> "user", blocks |-> <<>>, messages |-> fms] BY <1>18
    <3>4. [[role |-> "user", blocks |-> <<>>, messages |-> fms] EXCEPT !.blocks = b]
             = [role |-> "user", blocks |-> b, messages |-> fms]
      OBVIOUS
    <3> QED BY <3>2, <3>3, <3>4
  <2>3. n.role = "user" /\ n.blocks = b /\ n.messages = fms BY <2>2
  <2>4. Flow(n) = Append(F, i)
    <3>1. \A role : Flow([role |-> role, blocks |-> Append(f.blocks, i), messages |-> f.messages])
                    = Append(Flow(f), i)
      BY <1>2, <1>7, FlowGrows
    <3>2. n = [role |-> "user", blocks |-> Append(f.blocks, i), messages |-> f.messages]
      BY <1>7, <1>17, <2>1, <2>2
    <3> QED BY <1>7, <1>10, <3>1, <3>2
  <2>5. AllBy(b, "user")
    <3>1. Speaker(i) = "user" BY <1>3, <1>19 DEF Speaker, Content
    <3>2. <<>> \in Seq(Nat) /\ AllBy(<<>>, "user") BY DEF AllBy
    <3> QED BY <1>2, <2>1, <3>1, <3>2, AllByGrows
  <2>6. Sorted(n) BY <1>8, <1>9, <1>18, <2>3, <2>5 DEF Sorted, Role
  <2>7. i # 0 /\ Nobody # "user" BY <1>2, <1>9 DEF Role
  <2>8. Ordered(Flow(n), Shown(start) \cap (1 .. i)) BY <1>16, <1>19, <2>4
  <2> QED BY <1>1, <1>3, <1>5, <1>19, <2>3, <2>6, <2>7, <2>8 DEF Collected
<1>20. CASE e = "assistant_start"
  <2>1. n = [role |-> "assistant", blocks |-> <<>>, messages |-> fms]
    <3>1. n = [f EXCEPT !.role = "assistant"] BY <1>3, <1>5, <1>6, <1>20 DEF Render, Content
    <3> QED BY <1>18, <3>1
  <2>2. n.role = "assistant" /\ n.blocks = <<>> /\ n.messages = fms BY <2>1
  <2>3. Flow(n) = F BY <1>7, <1>10, <1>17, <2>2 DEF Flow
  <2>4. Sorted(n)
    <3>1. AllBy(<<>>, "assistant") BY DEF AllBy
    <3> QED BY <1>8, <1>9, <1>18, <2>2, <3>1 DEF Sorted, Role
  <2>5. Ordered(F, Shown(start) \cap (1 .. i)) BY <1>15, <1>20 DEF Content
  <2> QED BY <1>1, <1>5, <1>9, <2>2, <2>3, <2>4, <2>5 DEF Collected, Role
<1>21. CASE e \in Content
  <2>1. acc.role = "assistant"
    <3>1. acc.role # "user"
      <4>1. SUFFICES ASSUME acc.role = "user" PROVE FALSE OBVIOUS
      <4>2. k # 0 /\ events[k] = "user_message" BY <4>1 DEF Collected
      <4> QED BY <1>4, <1>21, <4>2 DEF Content
    <3>2. acc.role # Nobody
      <4>1. SUFFICES ASSUME acc.role = Nobody PROVE FALSE OBVIOUS
      <4>2. Silent(start, k) BY <4>1 DEF Collected
      <4>3. ~Speaking(start, k) BY <1>4, <1>21, <4>2 DEF Silent, Content
      <4>4. ~Speaking(start, i) BY <1>1, <1>3, <1>21, <4>3, StaysUnannounced DEF Content
      <4> QED BY <1>1, <1>3, <1>21, <4>4 DEF SpeaksUnannounced
    <3> QED BY <1>8, <3>1, <3>2 DEF Render_State, Role
  <2>2. n = [role |-> "assistant", blocks |-> Append(bl, i), messages |-> ms]
    <3>1. n = [acc EXCEPT !.blocks = Append(acc.blocks, i)] BY <1>3, <1>5, <1>21 DEF Render, Content
    <3>2. PICK x : x = Append(bl, i) OBVIOUS
    <3>3. n = [[role |-> "assistant", blocks |-> bl, messages |-> ms] EXCEPT !.blocks = x]
      BY <1>17, <1>18, <2>1, <3>1, <3>2
    <3>4. [[role |-> "assistant", blocks |-> bl, messages |-> ms] EXCEPT !.blocks = x]
             = [role |-> "assistant", blocks |-> x, messages |-> ms]
      OBVIOUS
    <3> QED BY <3>2, <3>3, <3>4
  <2>3. n.role = "assistant" /\ n.blocks = Append(bl, i) /\ n.messages = ms BY <2>2
  <2>4. Flow(n) = Append(F, i) BY <1>2, <1>8, <1>10, <1>17, <2>2, FlowGrows
  <2>5. AllBy(Append(bl, i), "assistant")
    <3>1. Speaker(i) = "assistant" BY <1>3, <1>21 DEF Speaker
    <3>2. AllBy(bl, "assistant") BY <1>8, <1>9, <1>17, <2>1 DEF Sorted, Role
    <3> QED BY <1>2, <1>18, <3>1, <3>2, AllByGrows
  <2>6. Sorted(n) BY <1>8, <1>9, <1>18, <2>3, <2>5 DEF Sorted, Role
  <2> QED BY <1>1, <1>5, <1>9, <1>16, <1>21, <2>3, <2>4, <2>6 DEF Collected, Role
<1>22. CASE e = "user_tool_result"
  <2>1. PICK r, t : r = [role |-> "user", blocks |-> <<i>>] /\ t = Append(fms, r) OBVIOUS
  <2>2. n = [role |-> Nobody, blocks |-> <<>>, messages |-> t]
    <3>1. n = [f EXCEPT !.messages = Append(f.messages, r)]
      BY <1>3, <1>5, <1>6, <1>22, <2>1 DEF Render, Content
    <3>2. n = [f EXCEPT !.messages = t] BY <1>17, <2>1, <3>1
    <3>3. [[role |-> Nobody, blocks |-> <<>>, messages |-> fms] EXCEPT !.messages = t]
             = [role |-> Nobody, blocks |-> <<>>, messages |-> t]
      OBVIOUS
    <3> QED BY <1>18, <3>2, <3>3
  <2>3. n.role = Nobody /\ n.blocks = <<>> /\ n.messages = t BY <2>2
  <2>4. Flow(n) = Append(F, i)
    <3>1. "user" \in Role BY DEF Role
    <3>2. \A role, who : (f.blocks = <<>> /\ who \in Role)
             => Flow([role |-> role, blocks |-> <<>>,
                      messages |-> Append(f.messages, [role |-> who, blocks |-> <<i>>])])
                = Append(Flow(f), i)
      BY <1>2, <1>7, FlowGrows
    <3>3. n = [role |-> Nobody, blocks |-> <<>>,
               messages |-> Append(f.messages, [role |-> "user", blocks |-> <<i>>])]
      BY <1>17, <2>1, <2>2
    <3> QED BY <1>7, <1>10, <3>1, <3>2, <3>3
  <2>5. t \in Seq(Message) /\ \A m \in DOMAIN t : AllBy(t[m].blocks, t[m].role)
    <3>1. Speaker(i) = "user" BY <1>3, <1>22 DEF Speaker, Content
    <3>2. AllBy(<<i>>, "user") BY <3>1 DEF AllBy
    <3>3. r \in Message /\ AllBy(r.blocks, r.role)
      <4>1. <<i>> \in Seq(Nat) BY <1>2
      <4> QED BY <2>1, <3>2, <4>1 DEF Message, Role
    <3> QED BY <1>18, <2>1, <3>3, MessagesGrow
  <2>6. Sorted(n) BY <1>8, <2>3, <2>5 DEF Sorted
  <2>7. Silent(start, i)
    <3>1. \A m \in start .. i : i \in m .. i BY <1>2
    <3>2. ~Speaking(start, i) BY <1>3, <1>22, <3>1 DEF Speaking
    <3> QED BY <3>2 DEF Silent
  <2>8. Nobody # "user" BY <1>9 DEF Role
  <2> QED BY <1>1, <1>5, <1>16, <1>22, <2>3, <2>4, <2>6, <2>7, <2>8 DEF Collected
<1>23. CASE e = "assistant_complete"
  <2>1. n = f BY <1>3, <1>5, <1>6, <1>23 DEF Render, Content
  <2>2. Silent(start, i) BY <1>1, <1>2, <1>3, <1>23 DEF Silent
  <2>3. Nobody # "user" BY <1>9 DEF Role
  <2>4. Ordered(F, Shown(start) \cap (1 .. i)) BY <1>15, <1>23 DEF Content
  <2> QED BY <1>1, <1>5, <1>7, <1>10, <2>1, <2>2, <2>3, <2>4 DEF Collected
<1>24. CASE e = "claude_stderr"
  <2>1. n = acc BY <1>3, <1>5, <1>24 DEF Render, Content
  <2>2. acc.role # "user"
    <3>1. SUFFICES ASSUME acc.role = "user" PROVE FALSE OBVIOUS
    <3>2. k # 0 /\ events[k] = "user_message" BY <3>1 DEF Collected
    <3> QED BY <1>4, <1>24, <3>2
  <2>3. ASSUME acc.role = Nobody PROVE Silent(start, i)
    <3>1. Silent(start, k) BY <2>3 DEF Collected
    <3>2. ~Speaking(start, k) BY <1>4, <1>24, <3>1 DEF Silent
    <3>3. ~Speaking(start, i) BY <1>1, <1>3, <1>24, <3>2, StaysUnannounced
    <3> QED BY <3>3 DEF Silent
  <2>4. Ordered(F, Shown(start) \cap (1 .. i)) BY <1>15, <1>24 DEF Content
  <2> QED BY <1>1, <1>5, <1>8, <1>10, <2>1, <2>2, <2>3, <2>4 DEF Collected
<1> QED BY <1>4, <1>19, <1>20, <1>21, <1>22, <1>23, <1>24 DEF Kinds

\* What render_messages has after each event, and that it is what Render makes of it.
Nothing == [role |-> Nobody, blocks |-> <<>>, messages |-> <<>>]
Rendering_Reads(start, f) ==
    f = [k \in 0 .. Len(events) |->
            IF k = 0 THEN Nothing ELSE IF k < start THEN f[k - 1] ELSE Render(f[k - 1], k)]

\* Before the start nothing is collected.
LEMMA NothingCollected ==
  ASSUME NEW start \in Nat, NEW k \in Nat, k < start
  PROVE  Collected(start, Nothing, k)
<1>1. Nothing.role = Nobody /\ Nothing.blocks = <<>> /\ Nothing.messages = <<>> BY DEF Nothing
<1>2. Nothing \in Render_State
  <2>1. <<>> \in Seq(Nat) /\ <<>> \in Seq(Message) OBVIOUS
  <2> QED BY <2>1 DEF Render_State, Nothing
<1>3. Sorted(Nothing) BY <1>1, <1>2 DEF Sorted
<1>4. Nobody # "user" BY DEF Nobody
<1>5. Flow(Nothing) = <<>>
  <2>1. BlocksOf(<<>>) = <<>> BY DEF BlocksOf
  <2>2. PICK y : y = <<>> OBVIOUS
  <2>3. FlattenSeq(y) = y BY <2>2 DEF FlattenSeq
  <2> QED BY <1>1, <2>1, <2>2, <2>3 DEF Flow
<1>6. Ordered(<<>>, Shown(start) \cap (1 .. k))
  <2>1. \A i \in 1 .. k : ~(i >= start) OBVIOUS
  <2>2. Shown(start) \cap (1 .. k) = {} BY <2>1 DEF Shown
  <2>3. Range(<<>>) = {} BY DEF Range
  <2> QED BY <2>2, <2>3 DEF Ordered
<1>7. ~Speaking(start, k)
  <2>1. start .. k = {} OBVIOUS
  <2> QED BY <2>1 DEF Speaking
<1> QED BY <1>1, <1>3, <1>4, <1>5, <1>6, <1>7 DEF Collected, Silent

LEMMA MessagesCollected ==
  ASSUME TurnAfterTurn, NEW start \in DOMAIN events, ~SpeaksUnannounced(start)
  PROVE  \E acc : Collected(start, acc, Len(events)) /\ RenderMessages(start) = Flush(acc).messages
<1>1. PICK N \in Nat : N = Len(events) /\ DOMAIN events = 1 .. N
  <2>1. Len(events) \in Nat /\ DOMAIN events = 1 .. Len(events) BY DEF TurnAfterTurn
  <2> QED BY <2>1
<1>2. PICK Q, b : Q = Render_State /\ b = Nothing OBVIOUS
<1>3. b \in Q
  <2>1. <<>> \in Seq(Nat) /\ <<>> \in Seq(Message) OBVIOUS
  <2> QED BY <1>2, <2>1 DEF Render_State, Nothing
<1>4. PICK st : st = [p \in Q \X (1 .. N) |-> IF p[2] < start THEN p[1] ELSE Render(p[1], p[2])] OBVIOUS
<1>5. st \in [Q \X (1 .. N) -> Q]
  <2>1. \A p \in Q \X (1 .. N) : p[1] \in Q /\ p[2] \in 1 .. N OBVIOUS
  <2>2. \A acc \in Q, i \in 1 .. N : Render(acc, i) \in Q BY <1>1, <1>2, RenderTyped
  <2> QED BY <1>4, <2>1, <2>2
<1>6. PICK g : Stepping(g, Q, N, b, st) BY <1>3, <1>5, Stepwise
<1>7. g \in [0 .. N -> Q] /\ g[0] = b /\ \A k \in 1 .. N : g[k] = st[<<g[k - 1], k>>]
  BY <1>6 DEF Stepping
<1>8. Rendering_Reads(start, g)
  <2>1. ASSUME NEW k \in 1 .. N PROVE g[k] = IF k < start THEN g[k - 1] ELSE Render(g[k - 1], k)
    <3>1. k - 1 \in 0 .. N OBVIOUS
    <3>2. <<g[k - 1], k>> \in Q \X (1 .. N) BY <1>7, <3>1
    <3> QED BY <1>4, <1>7, <3>2
  <2>2. \A k \in 0 .. N : k # 0 => k \in 1 .. N OBVIOUS
  <2>3. \A k \in 0 .. N : g[k] = IF k = 0 THEN Nothing ELSE IF k < start THEN g[k - 1] ELSE Render(g[k - 1], k)
    BY <1>2, <1>7, <2>1, <2>2
  <2>4. g = [k \in 0 .. N |-> g[k]] BY <1>7
  <2> QED BY <1>1, <2>3, <2>4 DEF Rendering_Reads
<1>9. PICK f : Rendering_Reads(start, f) /\ RenderMessages(start) = Flush(f[N]).messages
  <2>1. PICK c : c = CHOOSE h : Rendering_Reads(start, h) OBVIOUS
  <2>2. Rendering_Reads(start, c) BY <1>8, <2>1
  <2>3. RenderMessages(start) = Flush(c[N]).messages
    BY <1>1, <2>1 DEF RenderMessages, Rendering_Reads, Nothing
  <2> QED BY <2>2, <2>3
<1>10. start \in Nat /\ start # 0 BY <1>1
<1>11. \A k \in Nat : k < start => Collected(start, Nothing, k) BY <1>10, NothingCollected
<1> DEFINE T == {n \in Nat : n <= N => Collected(start, f[n], n) /\ (n < start => f[n] = Nothing)}
<1>12. 0 \in T
  <2>1. f[0] = Nothing BY <1>1, <1>9 DEF Rendering_Reads
  <2>2. 0 < start BY <1>10
  <2> QED BY <1>11, <2>1, <2>2
<1>13. ASSUME NEW n \in T PROVE n + 1 \in T
  <2>1. SUFFICES ASSUME n + 1 <= N
                 PROVE  Collected(start, f[n + 1], n + 1) /\ (n + 1 < start => f[n + 1] = Nothing)
    OBVIOUS
  <2>2. PICK k : k = n + 1 OBVIOUS
  <2>3. k \in 1 .. N /\ k \in 0 .. N /\ k # 0 /\ k - 1 = n BY <2>1, <2>2
  <2>4. f[k] = IF k < start THEN f[n] ELSE Render(f[n], k) BY <1>1, <1>9, <2>3 DEF Rendering_Reads
  <2>5. Collected(start, f[n], n) /\ (n < start => f[n] = Nothing) BY <2>1
  <2>6. CASE k < start
    <3>1. n < start /\ k \in Nat BY <1>10, <2>2, <2>6
    <3>2. f[k] = Nothing BY <2>4, <2>5, <2>6, <3>1
    <3> QED BY <1>11, <2>2, <2>6, <3>1, <3>2
  <2>7. CASE ~(k < start)
    <3>1. n + 1 >= start BY <1>10, <2>2, <2>7
    <3>2. Collected(start, Render(f[n], n + 1), n + 1)
      BY <1>1, <1>10, <2>2, <2>3, <2>5, <3>1, RenderCollects
    <3> QED BY <2>2, <2>4, <2>7, <3>2
  <2> QED BY <2>6, <2>7
<1>14. T = Nat
  <2> HIDE DEF T
  <2>1. T \in SUBSET Nat BY DEF T
  <2> QED BY <1>12, <1>13, <2>1, InductionOnNat
<1>15. Collected(start, f[N], N) BY <1>14
<1> QED BY <1>1, <1>9, <1>15

\* render_messages: for every conversation and every start in it from which the agent
\* says nothing unannounced, every block is rendered once, in order and as its
\* speaker's.
THEOREM TurnsAreRendered == RenderSpec => []PlainTurnsRendered
<1>1. TurnAfterTurn => PlainTurnsRendered
  <2> SUFFICES ASSUME TurnAfterTurn, NEW start \in DOMAIN events, ~SpeaksUnannounced(start)
               PROVE  /\ SpeakersKept(RenderMessages(start))
                      /\ Range(Blocks(RenderMessages(start))) = Shown(start)
                      /\ \A i, j \in DOMAIN Blocks(RenderMessages(start)) :
                            i < j => Blocks(RenderMessages(start))[i] < Blocks(RenderMessages(start))[j]
    BY DEF PlainTurnsRendered
  <2>1. PICK acc : Collected(start, acc, Len(events)) /\ RenderMessages(start) = Flush(acc).messages
    BY MessagesCollected
  <2>2. PICK f, ms : f = Flush(acc) /\ ms = RenderMessages(start) OBVIOUS
  <2>3. /\ Sorted(f) /\ f.blocks = <<>> /\ ms = f.messages
        /\ Ordered(Flow(f), Shown(start) \cap (1 .. Len(events)))
    BY <2>1, <2>2, FlushKeeps DEF Collected
  <2>4. f.messages \in Seq(Message) BY <2>3 DEF Sorted, Render_State
  <2>5. SpeakersKept(ms) BY <2>3 DEF SpeakersKept, Sorted, AllBy
  <2>6. Blocks(ms) = Flow(f)
    <3>1. PICK x : x = FlattenSeq(BlocksOf(f.messages)) OBVIOUS
    <3>2. x \in Seq(Nat) BY <2>4, <3>1, BlocksTyped
    <3>3. Flow(f) = x \o <<>> BY <2>3, <3>1 DEF Flow
    <3>4. x \o <<>> = x BY <3>2
    <3>5. Blocks(ms) = x BY <2>3, <3>1 DEF Blocks
    <3> QED BY <3>3, <3>4, <3>5
  <2>7. Shown(start) \cap (1 .. Len(events)) = Shown(start)
    <3>1. DOMAIN events = 1 .. Len(events) BY DEF TurnAfterTurn
    <3> QED BY <3>1 DEF Shown
  <2>8. Ordered(Blocks(ms), Shown(start)) BY <2>3, <2>6, <2>7
  <2> QED BY <2>2, <2>5, <2>8 DEF Ordered
<1> QED BY <1>1, ConversationGrows, PTL
-----------------------------------------------------------------------------
(***************************************************************************)
(* TreeViews: the view of a conversation without branches.                 *)
(***************************************************************************)
SourceRow == [parent : Nat, kind : {"root", "text", "handle"}]
GrownSource ==
    /\ source \in Seq(SourceRow) /\ source # <<>>
    /\ source[1] = [parent |-> 0, kind |-> "root"]
    /\ \A n \in DOMAIN source :
          n # 1 => source[n].parent \in 1 .. (n - 1) /\ source[n].kind \in {"text", "handle"}

\* Each node is the child of the one that was created before it.
Straight == \A n \in DOMAIN source : n # 1 => source[n].parent = n - 1

LEMMA SourceRows ==
  ASSUME GrownSource
  PROVE  /\ Len(source) \in Nat /\ Len(source) >= 1 /\ Rows = 1 .. Len(source)
         /\ source[1].parent = 0 /\ source[1].kind = "root"
         /\ \A n \in Rows : source[n].parent \in Nat
<1>1. source \in Seq(SourceRow) /\ source # <<>> BY DEF GrownSource
<1>2. Len(source) \in Nat /\ Rows = 1 .. Len(source) BY <1>1 DEF Rows
<1>3. Len(source) # 0 BY <1>1
<1>4. \A n \in Rows : source[n] \in SourceRow BY <1>1, <1>2
<1>5. \A n \in Rows : source[n].parent \in Nat BY <1>4 DEF SourceRow
<1>6. source[1].parent = 0 /\ source[1].kind = "root" BY DEF GrownSource
<1> QED BY <1>2, <1>3, <1>5, <1>6

LEMMA AtMostOne ==
  ASSUME NEW S, IsFiniteSet(S), Cardinality(S) <= 1, NEW x \in S, NEW y \in S
  PROVE  x = y
<1>1. SUFFICES ASSUME x # y PROVE FALSE OBVIOUS
<1>2. IsFiniteSet({x}) /\ Cardinality({x}) = 1 BY FS_Singleton
<1>3. Cardinality({x} \cup {y}) = 2 BY <1>1, <1>2, FS_AddElement, SMTT(30)
<1>4. {x} \cup {y} \in SUBSET S OBVIOUS
<1>5. Cardinality({x} \cup {y}) <= Cardinality(S) BY <1>4, FS_Subset
<1>6. Cardinality(S) \in Nat BY FS_CardinalityType
<1> QED BY <1>3, <1>5, <1>6

LEMMA ChainIsStraight ==
  ASSUME GrownSource, IsChain
  PROVE  Straight
<1>1. PICK N \in Nat : N = Len(source) /\ Rows = 1 .. N BY SourceRows
<1> DEFINE T == {n \in Nat : \A m \in 1 .. n : m \in Rows /\ m # 1 => source[m].parent = m - 1}
<1>2. 0 \in T OBVIOUS
<1>3. ASSUME NEW n \in T PROVE n + 1 \in T
  <2>1. SUFFICES ASSUME n + 1 \in Rows, n + 1 # 1 PROVE source[n + 1].parent = n
    <3>1. \A m \in 1 .. (n + 1) : m = n + 1 \/ m \in 1 .. n OBVIOUS
    <3> QED BY <3>1
  <2>2. PICK p \in 1 .. n : p = source[n + 1].parent
    <3>1. PICK m : m = n + 1 OBVIOUS
    <3>2. source[m].parent \in 1 .. (m - 1) BY <2>1, <3>1 DEF GrownSource, Rows
    <3> QED BY <3>1, <3>2
  <2>3. SUFFICES ASSUME p # n PROVE FALSE BY <2>2
  <2>4. p + 1 \in 1 .. n /\ p + 1 # 1 /\ p + 1 # n + 1 /\ p \in Rows /\ p + 1 \in Rows
    BY <1>1, <2>1, <2>3
  <2>5. source[p + 1].parent = p
    <3>1. PICK m : m = p + 1 OBVIOUS
    <3>2. source[m].parent = m - 1 BY <2>4, <3>1
    <3> QED BY <3>1, <3>2
  <2>6. p + 1 \in Kids(p) /\ n + 1 \in Kids(p) BY <2>1, <2>2, <2>4, <2>5 DEF Kids
  <2>7. IsFiniteSet(Kids(p))
    <3>1. IsFiniteSet(1 .. N) BY FS_Interval
    <3>2. Kids(p) \in SUBSET (1 .. N) BY <1>1 DEF Kids
    <3> QED BY <3>1, <3>2, FS_Subset
  <2>8. Cardinality(Kids(p)) <= 1 BY <2>4 DEF IsChain
  <2> QED BY <2>4, <2>6, <2>7, <2>8, AtMostOne
<1>4. T = Nat
  <2> HIDE DEF T
  <2>1. T \in SUBSET Nat BY DEF T
  <2> QED BY <1>2, <1>3, <2>1, InductionOnNat
<1>5. N \in T BY <1>4
<1> QED BY <1>1, <1>5 DEF Straight, Rows

\* One child, or none.
LEMMA KidsOfChain ==
  ASSUME GrownSource, Straight, NEW n \in Rows
  PROVE  Kids(n) = IF n = Len(source) THEN {} ELSE {n + 1}
<1>1. PICK N \in Nat : N = Len(source) /\ Rows = 1 .. N /\ source[1].parent = 0 BY SourceRows
<1>2. \A m \in Rows : source[m].parent = m - 1
  <2>1. \A m \in Rows : m # 1 => source[m].parent = m - 1 BY DEF Straight, Rows
  <2> QED BY <1>1, <2>1
<1>3. Kids(n) = {m \in 1 .. N : m - 1 = n} BY <1>1, <1>2 DEF Kids
<1>4. n \in 1 .. N BY <1>1
<1>5. CASE n = N
  <2>1. \A m \in 1 .. N : m - 1 # n BY <1>5
  <2> QED BY <1>1, <1>3, <1>5, <2>1
<1>6. CASE n # N
  <2>1. n + 1 \in 1 .. N /\ (n + 1) - 1 = n BY <1>4, <1>6
  <2>2. \A m \in 1 .. N : m - 1 = n => m = n + 1 BY <1>4
  <2> QED BY <1>1, <1>3, <1>6, <2>1, <2>2
<1> QED BY <1>5, <1>6

LEMMA ListedOfChain ==
  ASSUME GrownSource, Straight, NEW n \in Rows, NEW rank
  PROVE  Listed(n, rank) = IF n = Len(source) THEN <<>> ELSE <<n + 1>>
<1>1. PICK kids, K : K = Kids(n) /\ kids = IF n = Len(source) THEN <<>> ELSE <<n + 1>> OBVIOUS
<1>2. SetToSeqs(K) = {kids}
  <2>1. CASE n = Len(source)
    <3>1. K = {} /\ kids = <<>> BY <1>1, <2>1, KidsOfChain
    <3>2. Cardinality(K) = 0 BY <3>1, FS_EmptySet
    <3>3. SetToSeqs(K) = {f \in [1 .. 0 -> {}] : \A i, j \in 1 .. 0 : i # j => f[i] # f[j]}
      BY <3>1, <3>2 DEF SetToSeqs
    <3>4. 1 .. 0 = {} OBVIOUS
    <3>5. [1 .. 0 -> {}] = {kids}
      <4>1. <<>> \in [1 .. 0 -> {}] OBVIOUS
      <4>2. ASSUME NEW f \in [1 .. 0 -> {}] PROVE f = <<>>
        <5>1. f \in Seq({}) /\ Len(f) = 0 OBVIOUS
        <5> QED BY <5>1
      <4> QED BY <3>1, <4>1, <4>2
    <3> QED BY <3>3, <3>4, <3>5
  <2>2. CASE n # Len(source)
    <3>1. K = {n + 1} /\ kids = <<n + 1>> BY <1>1, <2>2, KidsOfChain
    <3>2. PICK x : x = n + 1 OBVIOUS
    <3>3. Cardinality(K) = 1 BY <3>1, FS_Singleton
    <3>4. SetToSeqs(K) = {f \in [1 .. 1 -> {x}] : \A i, j \in 1 .. 1 : i # j => f[i] # f[j]}
      BY <3>1, <3>2, <3>3 DEF SetToSeqs
    <3>5. 1 .. 1 = {1} OBVIOUS
    <3>6. kids \in [1 .. 1 -> {x}] /\ kids = [i \in 1 .. 1 |-> x] BY <3>1, <3>2
    <3>7. ASSUME NEW f \in [1 .. 1 -> {x}] PROVE f = kids
      <4>1. f = [i \in 1 .. 1 |-> f[i]] OBVIOUS
      <4>2. \A i \in 1 .. 1 : f[i] = x OBVIOUS
      <4> QED BY <3>6, <4>1, <4>2
    <3>8. \A i, j \in 1 .. 1 : i = j BY <3>5
    <3> QED BY <3>4, <3>6, <3>7, <3>8
  <2> QED BY <2>1, <2>2
<1>3. \A i, j \in DOMAIN kids : ~(i < j)
  <2>1. DOMAIN kids = {} \/ DOMAIN kids = {1} BY <1>1
  <2> QED BY <2>1
<1>4. Listed(n, rank) = kids BY <1>1, <1>2, <1>3 DEF Listed
<1> QED BY <1>1, <1>4

\* The numbers from a to b, as a sequence.

LEMMA FromToGrows ==
  ASSUME NEW a \in Nat, NEW b \in Nat, NEW c \in Nat, a <= b + 1, b <= c
  PROVE  /\ FromTo(a, b) \in Seq(Nat) /\ FromTo(b + 1, c) \in Seq(Nat)
         /\ FromTo(a, b) \o FromTo(b + 1, c) = FromTo(a, c)
<1>1. PICK x, y, z : x = FromTo(a, b) /\ y = FromTo(b + 1, c) /\ z = FromTo(a, c) OBVIOUS
<1>2. PICK m \in Nat, n \in Nat : m = b - a + 1 /\ n = c - b
  <2>1. b - a + 1 \in Nat /\ c - b \in Nat OBVIOUS
  <2> QED BY <2>1
<1>3. x = [i \in 1 .. m |-> a + i - 1] /\ y = [i \in 1 .. n |-> b + i] /\ z = [i \in 1 .. (m + n) |-> a + i - 1]
  <2>1. x = [i \in 1 .. m |-> a + i - 1] BY <1>1, <1>2 DEF FromTo
  <2>2. c - (b + 1) + 1 = n /\ c - a + 1 = m + n BY <1>2
  <2>3. \A i \in 1 .. n : (b + 1) + i - 1 = b + i BY <1>2
  <2>4. y = [i \in 1 .. n |-> (b + 1) + i - 1] BY <1>1, <2>2 DEF FromTo
  <2>5. z = [i \in 1 .. (m + n) |-> a + i - 1] BY <1>1, <2>2 DEF FromTo
  <2> QED BY <2>1, <2>3, <2>4, <2>5
<1>4. x \in Seq(Nat) /\ Len(x) = m /\ y \in Seq(Nat) /\ Len(y) = n /\ z \in Seq(Nat) /\ Len(z) = m + n
  <2>1. \A i \in 1 .. (m + n) : a + i - 1 \in Nat BY <1>2
  <2>2. \A i \in 1 .. m : a + i - 1 \in Nat BY <1>2
  <2>3. \A i \in 1 .. n : b + i \in Nat BY <1>2
  <2> QED BY <1>3, <2>1, <2>2, <2>3
<1>5. PICK w : w = x \o y OBVIOUS
<1>6. /\ w \in Seq(Nat) /\ Len(w) = m + n
      /\ \A p \in 1 .. m : w[p] = x[p]
      /\ \A p \in 1 .. n : w[m + p] = y[p]
  <2>1. PICK Q : Q = Nat OBVIOUS
  <2>2. x \in Seq(Q) /\ y \in Seq(Q) BY <1>4, <2>1
  <2>3. /\ x \o y \in Seq(Q) /\ Len(x \o y) = Len(x) + Len(y)
        /\ \A p \in 1 .. Len(x) : (x \o y)[p] = x[p]
        /\ \A p \in 1 .. Len(y) : (x \o y)[Len(x) + p] = y[p]
    BY <2>2, Concatenated
  <2> QED BY <1>4, <1>5, <2>1, <2>3
<1>7. ASSUME NEW i \in 1 .. (m + n) PROVE w[i] = z[i]
  <2>1. CASE i \in 1 .. m BY <1>3, <1>6, <2>1
  <2>2. CASE i \notin 1 .. m
    <3>1. PICK p \in 1 .. n : i = m + p
      <4>1. i - m \in 1 .. n /\ i = m + (i - m) BY <2>2
      <4> QED BY <4>1
    <3>2. w[i] = b + p BY <1>3, <1>6, <3>1
    <3>3. z[i] = a + i - 1 BY <1>3
    <3> QED BY <1>2, <3>1, <3>2, <3>3
  <2> QED BY <2>1, <2>2
<1>8. w = z BY <1>4, <1>6, <1>7
<1> QED BY <1>1, <1>4, <1>5, <1>8

LEMMA FromToOne ==
  ASSUME NEW a \in Nat
  PROVE  FromTo(a, a) = <<a>> /\ FromTo(a + 1, a) = <<>>
<1>1. FromTo(a, a) = <<a>>
  <2>1. a - a + 1 = 1 /\ \A i \in 1 .. 1 : a + i - 1 = a OBVIOUS
  <2>2. FromTo(a, a) = [i \in 1 .. 1 |-> a] BY <2>1 DEF FromTo
  <2> QED BY <2>2
<1>2. FromTo(a + 1, a) = <<>>
  <2>1. a - (a + 1) + 1 = 0 OBVIOUS
  <2>2. FromTo(a + 1, a) = [i \in 1 .. 0 |-> (a + 1) + i - 1] BY <2>1 DEF FromTo
  <2>3. [i \in 1 .. 0 |-> (a + 1) + i - 1] \in Seq(Nat) /\ Len([i \in 1 .. 0 |-> (a + 1) + i - 1]) = 0
    OBVIOUS
  <2> QED BY <2>2, <2>3
<1> QED BY <1>1, <1>2

\* Of one sequence, and of none.
LEMMA FlattenOne ==
  ASSUME NEW y \in Seq(Nat)
  PROVE  FlattenSeq(<<y>>) = y /\ FlattenSeq(<<>>) = <<>>
<1>1. PICK e : e = <<>> OBVIOUS
<1>2. FlattenSeq(e) = e BY <1>1 DEF FlattenSeq
<1>3. e \in Seq(Seq(Nat)) BY <1>1
<1>4. FlattenSeq(Append(e, y)) = FlattenSeq(e) \o y BY <1>3, FlattenAppend
<1>5. Append(e, y) = <<y>> BY <1>1
<1>6. e \o y = y BY <1>1, NothingBefore
<1> QED BY <1>1, <1>2, <1>4, <1>5, <1>6

\* A depth-first walk along a chain: from each node, the ones created after it.
Walking(f, rank) ==
    f = [i \in 0 .. Len(source) - 1 |->
            LET n == Len(source) - i
                kids == Listed(n, rank)
            IN  <<n>> \o FlattenSeq([k \in DOMAIN kids |-> f[Len(source) - kids[k]]])]

LEMMA WalkOfChain ==
  ASSUME GrownSource, Straight, NEW walk \in Walks
  PROVE  walk = FromTo(1, Len(source))
<1>1. PICK N \in Nat : N = Len(source) /\ N >= 1 /\ Rows = 1 .. N BY SourceRows
<1>2. PICK rank : walk = DepthFirst(rank) BY DEF Walks
<1>3. PICK g : g = [i \in 0 .. N - 1 |-> FromTo(N - i, N)] OBVIOUS
<1>4. ASSUME NEW h, NEW i \in 0 .. N - 1, \A j \in 0 .. N - 1 : j = i - 1 => h[j] = FromTo(N - j, N)
      PROVE  LET n == N - i
                 kids == Listed(n, rank)
             IN  <<n>> \o FlattenSeq([k \in DOMAIN kids |-> h[N - kids[k]]]) = FromTo(N - i, N)
  <2>1. PICK n \in 1 .. N : n = N - i
    <3>1. N - i \in 1 .. N OBVIOUS
    <3> QED BY <3>1
  <2>2. PICK kids : kids = Listed(n, rank) /\ kids = IF n = N THEN <<>> ELSE <<n + 1>>
    BY <1>1, ListedOfChain
  <2>3. PICK parts : parts = [k \in DOMAIN kids |-> h[N - kids[k]]] OBVIOUS
  <2>4. SUFFICES <<n>> \o FlattenSeq(parts) = FromTo(n, N) BY <2>1, <2>2, <2>3
  <2>5. CASE n = N
    <3>1. parts = <<>> BY <2>2, <2>3, <2>5
    <3>2. <<>> \in Seq(Nat) OBVIOUS
    <3>3. FlattenSeq(<<>>) = <<>> BY <3>2, FlattenOne
    <3>4. FlattenSeq(parts) = <<>> BY <3>1, <3>3
    <3>5. <<n>> \o <<>> = <<n>> OBVIOUS
    <3> QED BY <2>5, <3>4, <3>5, FromToOne
  <2>6. CASE n # N
    <3>1. kids = <<n + 1>> BY <2>2, <2>6
    <3>2. PICK j \in 0 .. N - 1 : j = i - 1 /\ j = N - (n + 1) /\ N - j = n + 1
      <4>1. i - 1 \in 0 .. N - 1 /\ i - 1 = N - (n + 1) /\ N - (i - 1) = n + 1 BY <2>1, <2>6
      <4> QED BY <4>1
    <3>3. h[j] = FromTo(n + 1, N) BY <1>4, <3>2
    <3>4. DOMAIN kids = {1} /\ kids[1] = n + 1 BY <3>1
    <3>5. parts = [k \in {1} |-> h[j]] BY <2>3, <3>2, <3>4
    <3>6. {1} = 1 .. 1 OBVIOUS
    <3>7. <<h[j]>> = [k \in 1 .. 1 |-> h[j]] OBVIOUS
    <3>8. n <= n + 1 /\ n <= N /\ n \in Nat OBVIOUS
    <3>9. /\ FromTo(n, n) \in Seq(Nat) /\ FromTo(n + 1, N) \in Seq(Nat)
          /\ FromTo(n, n) \o FromTo(n + 1, N) = FromTo(n, N)
      BY <3>8, FromToGrows
    <3>10. FlattenSeq(<<h[j]>>) = h[j] BY <3>3, <3>9, FlattenOne
    <3>11. FlattenSeq(parts) = FromTo(n + 1, N) BY <3>3, <3>5, <3>6, <3>7, <3>10
    <3>12. FromTo(n, n) = <<n>> BY <3>8, FromToOne
    <3> QED BY <3>9, <3>11, <3>12
  <2> QED BY <2>5, <2>6
<1>5. Walking(g, rank)
  <2>1. \A i \in 0 .. N - 1 : g[i] = FromTo(N - i, N) BY <1>3
  <2>2. \A i \in 0 .. N - 1 :
           g[i] = LET n == N - i
                      kids == Listed(n, rank)
                  IN  <<n>> \o FlattenSeq([k \in DOMAIN kids |-> g[N - kids[k]]])
    BY <1>4, <2>1
  <2>3. g = [i \in 0 .. N - 1 |-> g[i]] BY <1>3
  <2> QED BY <1>1, <2>2, <2>3, Zenon DEF Walking
<1>6. PICK f : Walking(f, rank) /\ walk = f[N - 1]
  <2>1. PICK c : c = CHOOSE h : Walking(h, rank) OBVIOUS
  <2>2. Walking(c, rank) BY <1>5, <2>1
  <2>3. walk = c[N - 1] BY <1>1, <1>2, <2>1 DEF DepthFirst, Walking
  <2> QED BY <2>2, <2>3
<1>7. \A i \in 0 .. N - 1 :
         f[i] = LET n == N - i
                    kids == Listed(n, rank)
                IN  <<n>> \o FlattenSeq([k \in DOMAIN kids |-> f[N - kids[k]]])
  BY <1>1, <1>6, Zenon DEF Walking
<1> DEFINE T == {n \in Nat : n <= N - 1 => f[n] = FromTo(N - n, N)}
<1>8. 0 \in T
  <2>1. 0 \in 0 .. N - 1 /\ \A j \in 0 .. N - 1 : j # 0 - 1 BY <1>1
  <2> QED BY <1>4, <1>7, <2>1
<1>9. ASSUME NEW n \in T PROVE n + 1 \in T
  <2>1. SUFFICES ASSUME n + 1 <= N - 1 PROVE f[n + 1] = FromTo(N - (n + 1), N) OBVIOUS
  <2>2. PICK i \in 0 .. N - 1 : i = n + 1
    <3>1. n + 1 \in 0 .. N - 1 BY <2>1
    <3> QED BY <3>1
  <2>3. \A j \in 0 .. N - 1 : j = i - 1 => f[j] = FromTo(N - j, N)
    <3>1. f[n] = FromTo(N - n, N) BY <2>1
    <3>2. i - 1 = n BY <2>2
    <3> QED BY <3>1, <3>2
  <2>4. f[i] = FromTo(N - i, N) BY <1>4, <1>7, <2>3
  <2> QED BY <2>2, <2>4
<1>10. T = Nat
  <2> HIDE DEF T
  <2>1. T \in SUBSET Nat BY DEF T
  <2> QED BY <1>8, <1>9, <2>1, InductionOnNat
<1>11. f[N - 1] = FromTo(N - (N - 1), N)
  <2>1. N - 1 \in Nat BY <1>1
  <2>2. N - 1 \in T BY <1>10, <2>1
  <2> QED BY <2>1, <2>2
<1>12. N - (N - 1) = 1 OBVIOUS
<1> QED BY <1>1, <1>6, <1>11, <1>12

\* range_get, along a chain.
Climbing(f, first) ==
    f = [n \in Rows |-> IF n = first \/ source[n].parent = 0 THEN <<n>>
                        ELSE Append(f[source[n].parent], n)]

LEMMA RangeOfChain ==
  ASSUME GrownSource, Straight, NEW first \in Rows, NEW last \in Rows, first <= last
  PROVE  RangeGet(first, last) = FromTo(first, last)
<1>1. PICK N \in Nat : N = Len(source) /\ Rows = 1 .. N /\ source[1].parent = 0 BY SourceRows
<1>2. \A n \in Rows : source[n].parent = n - 1
  <2>1. \A n \in Rows : n # 1 => source[n].parent = n - 1 BY DEF Straight, Rows
  <2> QED BY <1>1, <2>1
<1>3. first \in Nat /\ last \in Nat /\ first >= 1 BY <1>1
<1>4. ASSUME NEW a \in Nat, NEW n \in Nat, n >= 1, a <= n
      PROVE  FromTo(a, n) = IF n = a THEN <<n>> ELSE Append(FromTo(a, n - 1), n)
  <2>1. CASE n = a BY <2>1, FromToOne
  <2>2. CASE n # a
    <3>1. PICK m \in Nat : m = n - 1 /\ m + 1 = n
      <4>1. n - 1 \in Nat /\ (n - 1) + 1 = n BY <1>4
      <4> QED BY <4>1
    <3>2. a <= m + 1 /\ m <= n BY <2>2, <1>4, <3>1
    <3>3. FromTo(a, m) \in Seq(Nat) /\ FromTo(a, m) \o FromTo(m + 1, n) = FromTo(a, n)
      BY <3>2, FromToGrows
    <3>4. FromTo(m + 1, n) = <<n>> BY <3>1, FromToOne
    <3>5. PICK x \in Seq(Nat) : x = FromTo(a, m) BY <3>3
    <3>6. x \o <<n>> = Append(x, n) OBVIOUS
    <3> QED BY <2>2, <3>1, <3>3, <3>4, <3>5, <3>6
  <2> QED BY <2>1, <2>2
<1>5. PICK g : g = [n \in 1 .. N |-> IF n < first THEN FromTo(1, n) ELSE FromTo(first, n)] OBVIOUS
<1>6. ASSUME NEW n \in 1 .. N
      PROVE  g[n] = IF n = first \/ source[n].parent = 0 THEN <<n>> ELSE Append(g[source[n].parent], n)
  <2>1. source[n].parent = n - 1 /\ n \in Nat /\ n >= 1 BY <1>1, <1>2
  <2>2. CASE n < first
    <3>1. g[n] = FromTo(1, n) BY <1>5, <2>2
    <3>2. FromTo(1, n) = IF n = 1 THEN <<n>> ELSE Append(FromTo(1, n - 1), n) BY <1>4, <2>1
    <3>3. n # 1 => n - 1 \in 1 .. N /\ g[n - 1] = FromTo(1, n - 1)
      <4>1. SUFFICES ASSUME n # 1 PROVE n - 1 \in 1 .. N /\ g[n - 1] = FromTo(1, n - 1) OBVIOUS
      <4>2. n - 1 \in 1 .. N /\ n - 1 < first BY <1>3, <2>1, <2>2, <4>1
      <4> QED BY <1>5, <4>2
    <3>4. n - 1 = 0 <=> n = 1 BY <2>1
    <3>5. n # first BY <1>3, <2>2
    <3> QED BY <2>1, <3>1, <3>2, <3>3, <3>4, <3>5
  <2>3. CASE ~(n < first)
    <3>1. g[n] = FromTo(first, n) BY <1>5, <2>3
    <3>2. first <= n BY <1>3, <2>3
    <3>3. FromTo(first, n) = IF n = first THEN <<n>> ELSE Append(FromTo(first, n - 1), n)
      BY <1>3, <1>4, <2>1, <3>2
    <3>4. n # first => g[n - 1] = FromTo(first, n - 1) /\ n - 1 # 0
      <4>1. SUFFICES ASSUME n # first PROVE g[n - 1] = FromTo(first, n - 1) /\ n - 1 # 0 OBVIOUS
      <4>2. n - 1 \in 1 .. N /\ ~(n - 1 < first) BY <1>3, <3>2, <4>1
      <4> QED BY <1>5, <4>2
    <3> QED BY <2>1, <3>1, <3>3, <3>4
  <2> QED BY <2>2, <2>3
<1>7. Climbing(g, first)
  <2>1. g = [n \in 1 .. N |-> g[n]] BY <1>5
  <2> QED BY <1>1, <1>6, <2>1 DEF Climbing
<1>8. PICK f : Climbing(f, first) /\ RangeGet(first, last) = f[last]
  <2>1. PICK c : c = CHOOSE h : Climbing(h, first) OBVIOUS
  <2>2. Climbing(c, first) BY <1>7, <2>1
  <2>3. RangeGet(first, last) = c[last] BY <2>1 DEF RangeGet, Climbing
  <2> QED BY <2>2, <2>3
<1>9. \A n \in 1 .. N : f[n] = IF n = first \/ n - 1 = 0 THEN <<n>> ELSE Append(f[n - 1], n)
  <2>1. \A n \in Rows : f[n] = IF n = first \/ source[n].parent = 0 THEN <<n>>
                               ELSE Append(f[source[n].parent], n)
    BY <1>8 DEF Climbing
  <2> QED BY <1>1, <1>2, <2>1
<1> DEFINE T == {d \in Nat : first + d <= N => f[first + d] = FromTo(first, first + d)}
<1>10. 0 \in T
  <2>1. first + 0 = first /\ first \in 1 .. N BY <1>1, <1>3
  <2>2. f[first] = <<first>> BY <1>9, <2>1
  <2> QED BY <1>3, <2>1, <2>2, FromToOne
<1>11. ASSUME NEW d \in T PROVE d + 1 \in T
  <2>1. SUFFICES ASSUME first + (d + 1) <= N PROVE f[first + (d + 1)] = FromTo(first, first + (d + 1))
    OBVIOUS
  <2>2. PICK n : n = first + (d + 1) OBVIOUS
  <2>3. n \in 1 .. N /\ n \in Nat /\ n >= 1 /\ first <= n /\ n # first /\ n - 1 # 0 /\ n - 1 = first + d
    BY <1>3, <2>1, <2>2
  <2>4. f[n] = Append(f[n - 1], n) BY <1>9, <2>3
  <2>5. f[first + d] = FromTo(first, first + d) BY <1>3, <2>1
  <2>6. FromTo(first, n) = Append(FromTo(first, n - 1), n) BY <1>3, <1>4, <2>3
  <2> QED BY <2>2, <2>3, <2>4, <2>5, <2>6
<1>12. T = Nat
  <2> HIDE DEF T
  <2>1. T \in SUBSET Nat BY DEF T
  <2> QED BY <1>10, <1>11, <2>1, InductionOnNat
<1>13. f[last] = FromTo(first, last)
  <2>1. last - first \in Nat /\ first + (last - first) = last /\ last <= N BY <1>1, <1>3
  <2>2. last - first \in T BY <1>12, <2>1
  <2> QED BY <2>1, <2>2
<1> QED BY <1>8, <1>13

\* By way of first children, along a chain.
Following(f, run, walk) ==
    f = [i \in DOMAIN walk |->
            IF walk[i] = run.end \/ Kids(walk[i]) = {} THEN {walk[i]} ELSE {walk[i]} \cup f[i + 1]]

LEMMA FollowedOfChain ==
  ASSUME GrownSource, Straight, NEW run, run.start \in Rows, run.end \in Rows, run.start <= run.end
  PROVE  Followed(run, FromTo(1, Len(source))) = run.start .. run.end
<1>1. PICK N \in Nat : N = Len(source) /\ N >= 1 /\ Rows = 1 .. N BY SourceRows
<1>2. PICK first \in 1 .. N, last \in 1 .. N : first = run.start /\ last = run.end BY <1>1
<1>3. PICK walk : walk = FromTo(1, N) OBVIOUS
<1>4. DOMAIN walk = 1 .. N /\ \A i \in 1 .. N : walk[i] = i
  <2>1. N - 1 + 1 = N /\ \A i \in 1 .. N : 1 + i - 1 = i OBVIOUS
  <2> QED BY <1>3, <2>1 DEF FromTo
<1>5. \A i \in 1 .. N : Kids(walk[i]) = {} <=> i = N
  <2>1. \A i \in 1 .. N : Kids(i) = IF i = N THEN {} ELSE {i + 1} BY <1>1, KidsOfChain
  <2> QED BY <1>4, <2>1
<1>6. PICK g : g = [i \in 1 .. N |-> IF i <= last THEN i .. last ELSE i .. N] OBVIOUS
<1>7. ASSUME NEW i \in 1 .. N
      PROVE  g[i] = IF i = last \/ i = N THEN {i} ELSE {i} \cup g[i + 1]
  <2>1. CASE i = last \/ i = N
    <3>1. i .. i = {i} OBVIOUS
    <3>2. g[i] = i .. i
      <4>1. CASE i = last BY <1>6, <4>1
      <4>2. CASE i # last /\ i = N
        <5>1. ~(i <= last) BY <4>2
        <5> QED BY <1>6, <4>2, <5>1
      <4> QED BY <2>1, <4>1, <4>2
    <3> QED BY <2>1, <3>1, <3>2
  <2>2. CASE ~(i = last \/ i = N)
    <3>1. i + 1 \in 1 .. N BY <2>2
    <3>2. i <= last <=> i + 1 <= last BY <2>2
    <3>3. i <= last => i .. last = {i} \cup (i + 1) .. last BY <2>2
    <3>4. i .. N = {i} \cup (i + 1) .. N BY <2>2
    <3> QED BY <1>6, <2>2, <3>1, <3>2, <3>3, <3>4
  <2> QED BY <2>1, <2>2
<1>8. Following(g, run, walk)
  <2>1. g = [i \in 1 .. N |-> g[i]] BY <1>6
  <2>2. \A i \in 1 .. N : g[i] = IF walk[i] = run.end \/ Kids(walk[i]) = {} THEN {walk[i]}
                                 ELSE {walk[i]} \cup g[i + 1]
    BY <1>2, <1>4, <1>5, <1>7
  <2> QED BY <1>4, <2>1, <2>2, Zenon DEF Following
<1>9. PICK f : Following(f, run, walk) /\ Followed(run, walk) = f[first]
  <2>1. PICK c : c = CHOOSE h : Following(h, run, walk) OBVIOUS
  <2>2. Following(c, run, walk) BY <1>8, <2>1
  <2>3. PICK i : i = CHOOSE k \in DOMAIN walk : walk[k] = run.start OBVIOUS
  <2>4. i = first BY <1>2, <1>4, <2>3
  <2>5. Followed(run, walk) = c[i] BY <2>1, <2>3 DEF Followed, Following
  <2> QED BY <2>2, <2>4, <2>5
<1>10. \A i \in 1 .. N : f[i] = IF i = last \/ i = N THEN {i} ELSE {i} \cup f[i + 1]
  BY <1>2, <1>4, <1>5, <1>9 DEF Following
<1> DEFINE T == {d \in Nat : d < last => f[last - d] = (last - d) .. last}
<1>11. 0 \in T
  <2>1. last - 0 = last /\ last .. last = {last} OBVIOUS
  <2> QED BY <1>10, <2>1
<1>12. ASSUME NEW d \in T PROVE d + 1 \in T
  <2>1. SUFFICES ASSUME d + 1 < last PROVE f[last - (d + 1)] = (last - (d + 1)) .. last OBVIOUS
  <2>2. PICK i : i = last - (d + 1) OBVIOUS
  <2>3. i \in 1 .. N /\ i # last /\ i # N /\ i + 1 = last - d BY <2>1, <2>2
  <2>4. f[i] = {i} \cup f[i + 1] BY <1>10, <2>3
  <2>5. f[last - d] = (last - d) .. last BY <2>1
  <2>6. {i} \cup (i + 1) .. last = i .. last BY <2>2, <2>3
  <2> QED BY <2>2, <2>3, <2>4, <2>5, <2>6
<1>13. T = Nat
  <2> HIDE DEF T
  <2>1. T \in SUBSET Nat BY DEF T
  <2> QED BY <1>11, <1>12, <2>1, InductionOnNat
<1>14. f[first] = first .. last
  <2>1. last - first \in Nat /\ last - first < last /\ last - (last - first) = first BY <1>2
  <2>2. last - first \in T BY <1>13, <2>1
  <2> QED BY <2>1, <2>2
<1> QED BY <1>1, <1>2, <1>3, <1>9, <1>14

\* Runs that do not meet, the earlier first, below the root.
RunRow == [start : Nat, end : Nat, length : Nat]
Intervals(rs, N) ==
    /\ rs \in Seq(RunRow)
    /\ \A i \in DOMAIN rs : 2 <= rs[i].start /\ rs[i].start <= rs[i].end /\ rs[i].end <= N
    /\ \A i, j \in DOMAIN rs : i < j => rs[i].end < rs[j].start

LEMMA IntervalsGrow ==
  ASSUME NEW N \in Nat, NEW M \in Nat, N <= M, NEW rs, Intervals(rs, N)
  PROVE  /\ Intervals(rs, M)
         /\ \A r \in RunRow :
               (2 <= r.start /\ r.start <= r.end /\ r.end <= M /\ \A i \in DOMAIN rs : rs[i].end < r.start)
               => Intervals(Append(rs, r), M)
<1>1. rs \in Seq(RunRow) BY DEF Intervals
<1>2. \A i \in DOMAIN rs : rs[i].start \in Nat /\ rs[i].end \in Nat
  <2>1. \A i \in DOMAIN rs : rs[i] \in RunRow BY <1>1
  <2> QED BY <2>1 DEF RunRow
<1>3. Intervals(rs, M) BY <1>2 DEF Intervals
<1>4. ASSUME NEW r \in RunRow, 2 <= r.start, r.start <= r.end, r.end <= M,
             \A i \in DOMAIN rs : rs[i].end < r.start
      PROVE  Intervals(Append(rs, r), M)
  <2>1. PICK L \in Nat, t \in Seq(RunRow) : L = Len(rs) /\ t = Append(rs, r)
    <3>1. Len(rs) \in Nat /\ Append(rs, r) \in Seq(RunRow) BY <1>1
    <3> QED BY <3>1
  <2>2. DOMAIN rs = 1 .. L /\ DOMAIN t = 1 .. (L + 1) /\ t[L + 1] = r /\ \A i \in 1 .. L : t[i] = rs[i]
    BY <1>1, <2>1
  <2>3. \A i \in 1 .. (L + 1) : i = L + 1 \/ i \in 1 .. L OBVIOUS
  <2>4. \A i \in 1 .. L : 2 <= rs[i].start /\ rs[i].start <= rs[i].end /\ rs[i].end <= M
    BY <1>3, <2>2 DEF Intervals
  <2>5. \A i \in 1 .. (L + 1) : 2 <= t[i].start /\ t[i].start <= t[i].end /\ t[i].end <= M
    BY <1>4, <2>2, <2>3, <2>4
  <2>6. ASSUME NEW i \in 1 .. (L + 1), NEW j \in 1 .. (L + 1), i < j PROVE t[i].end < t[j].start
    <3>1. i \in 1 .. L BY <2>6
    <3>2. CASE j = L + 1 BY <1>4, <2>2, <3>1, <3>2
    <3>3. CASE j \in 1 .. L
      <4>1. rs[i].end < rs[j].start BY <2>2, <2>6, <3>1, <3>3 DEF Intervals
      <4> QED BY <2>2, <3>1, <3>3, <4>1
    <3> QED BY <2>3, <3>2, <3>3
  <2> QED BY <2>1, <2>2, <2>5, <2>6 DEF Intervals
<1> QED BY <1>3, <1>4

\* After the first k nodes of the walk: the runs that ended, and one that may go on.
Detect_State == [open : RunRow, runs : Seq(RunRow)]
Detected(acc, k) ==
    /\ acc \in Detect_State
    /\ Intervals(acc.runs, k)
    /\ acc.open # NoRun =>
          /\ 2 <= acc.open.start /\ acc.open.start <= acc.open.end /\ acc.open.end = k
          /\ \A i \in DOMAIN acc.runs : acc.runs[i].end < acc.open.start

LEMMA ClosedTyped ==
  ASSUME NEW acc \in Detect_State
  PROVE  Closed(acc) \in Detect_State /\ Closed(acc).open = NoRun
<1>1. NoRun \in RunRow BY DEF NoRun, RunRow
<1>2. acc.open \in RunRow /\ acc.runs \in Seq(RunRow) BY DEF Detect_State
<1>3. Append(acc.runs, acc.open) \in Seq(RunRow) BY <1>2
<1> QED BY <1>1, <1>2, <1>3 DEF Closed, Detect_State

LEMMA ClosedDetected ==
  ASSUME NEW k \in Nat, NEW acc, Detected(acc, k)
  PROVE  /\ Closed(acc) \in Detect_State /\ Closed(acc).open = NoRun
         /\ Intervals(Closed(acc).runs, k)
<1>1. PICK rs, open : rs = acc.runs /\ open = acc.open OBVIOUS
<1>2. acc \in Detect_State /\ Intervals(rs, k) /\ open \in RunRow BY <1>1 DEF Detected, Detect_State
<1>3. PICK t : t = Closed(acc).runs OBVIOUS
<1>4. t = rs \/ (open # NoRun /\ t = Append(rs, open)) BY <1>1, <1>3 DEF Closed
<1>5. CASE open # NoRun
  <2>1. /\ 2 <= open.start /\ open.start <= open.end /\ open.end <= k
        /\ \A i \in DOMAIN rs : rs[i].end < open.start
    <3>1. 2 <= open.start /\ open.start <= open.end /\ open.end = k BY <1>1, <1>5 DEF Detected
    <3> QED BY <1>1, <1>5, <3>1 DEF Detected
  <2>2. k <= k OBVIOUS
  <2>3. Intervals(Append(rs, open), k) BY <1>2, <2>1, <2>2, IntervalsGrow
  <2> QED BY <1>2, <1>3, <1>4, <2>3, ClosedTyped
<1>6. CASE open = NoRun BY <1>2, <1>3, <1>4, <1>6, ClosedTyped
<1> QED BY <1>5, <1>6

LEMMA ScanTyped ==
  ASSUME NEW acc \in Detect_State, NEW n \in Nat
  PROVE  Scan(acc, n) \in Detect_State
<1>1. PICK c : c = Closed(acc) OBVIOUS
<1>2. c \in Detect_State BY <1>1, ClosedTyped
<1>3. acc.open \in RunRow /\ acc.runs \in Seq(RunRow) /\ c.runs \in Seq(RunRow) BY <1>2 DEF Detect_State
<1>4. PICK a, b : a = [start |-> acc.open.start, end |-> n, length |-> acc.open.length + 1]
                  /\ b = [start |-> n, end |-> n, length |-> 1]
  OBVIOUS
<1>5. a \in RunRow /\ b \in RunRow
  <2>1. acc.open.start \in Nat /\ acc.open.length \in Nat BY <1>3 DEF RunRow
  <2>2. acc.open.length + 1 \in Nat BY <2>1
  <2> QED BY <1>4, <2>1, <2>2 DEF RunRow
<1>6. \/ Scan(acc, n) = c \/ Scan(acc, n) = [acc EXCEPT !.open = a] \/ Scan(acc, n) = [c EXCEPT !.open = b]
  BY <1>1, <1>4 DEF Scan
<1>7. [acc EXCEPT !.open = a] \in Detect_State BY <1>5 DEF Detect_State
<1>8. [c EXCEPT !.open = b] \in Detect_State BY <1>2, <1>5 DEF Detect_State
<1> QED BY <1>2, <1>6, <1>7, <1>8

LEMMA ScanDetects ==
  ASSUME GrownSource, Straight, NEW k \in Nat, NEW n \in Rows, n = k + 1, NEW acc, Detected(acc, k)
  PROVE  Detected(Scan(acc, n), n)
<1>1. n \in Nat /\ k <= n /\ k < n /\ (n # 1 => n >= 2) /\ source[1].kind = "root" BY SourceRows
<1>2. PICK c : c = Closed(acc) OBVIOUS
<1>3. c \in Detect_State /\ c.open = NoRun /\ Intervals(c.runs, k) BY <1>2, ClosedDetected
<1>4. Intervals(c.runs, n) BY <1>1, <1>3, IntervalsGrow
<1>5. acc \in Detect_State /\ Intervals(acc.runs, k) BY DEF Detected
<1>6. PICK s : s = Scan(acc, n) OBVIOUS
<1>7. s \in Detect_State BY <1>1, <1>5, <1>6, ScanTyped
<1>8. CASE ~IsText(n)
  <2>1. s = c BY <1>2, <1>6, <1>8 DEF Scan
  <2> QED BY <1>3, <1>4, <1>6, <1>7, <2>1 DEF Detected
<1>9. CASE IsText(n)
  <2>1. n # 1 BY <1>1, <1>9 DEF IsText
  <2>2. source[n].parent = k
    <3>1. source[n].parent = n - 1 BY <2>1 DEF Straight, Rows
    <3> QED BY <3>1
  <2>3. CASE acc.open # NoRun
    <3>1. /\ 2 <= acc.open.start /\ acc.open.start <= acc.open.end /\ acc.open.end = k
          /\ \A i \in DOMAIN acc.runs : acc.runs[i].end < acc.open.start
      BY <2>3 DEF Detected
    <3>2. Continues(acc, n) BY <2>2, <2>3, <3>1 DEF Continues
    <3>3. PICK a : a = [start |-> acc.open.start, end |-> n, length |-> acc.open.length + 1] OBVIOUS
    <3>4. s = [acc EXCEPT !.open = a] BY <1>6, <1>9, <3>2, <3>3 DEF Scan
    <3>5. s.open = a /\ s.runs = acc.runs BY <1>5, <3>4 DEF Detect_State
    <3>6. a.start = acc.open.start /\ a.end = n BY <3>3
    <3>7. acc.open.start \in Nat BY <1>5 DEF Detect_State, RunRow
    <3>8. acc.open.start <= n BY <1>1, <3>1, <3>7
    <3>9. Intervals(s.runs, n) BY <1>1, <1>5, <3>5, IntervalsGrow
    <3> QED BY <1>6, <1>7, <3>1, <3>5, <3>6, <3>8, <3>9 DEF Detected
  <2>4. CASE acc.open = NoRun
    <3>1. ~Continues(acc, n) BY <2>4 DEF Continues
    <3>2. PICK b : b = [start |-> n, end |-> n, length |-> 1] OBVIOUS
    <3>3. s = [c EXCEPT !.open = b] BY <1>2, <1>6, <1>9, <3>1, <3>2 DEF Scan
    <3>4. s.open = b /\ s.runs = c.runs BY <1>3, <3>3 DEF Detect_State
    <3>5. b.start = n /\ b.end = n BY <3>2
    <3>6. \A i \in DOMAIN c.runs : c.runs[i].end < n
      <4>1. c.runs \in Seq(RunRow) BY <1>3 DEF Detect_State
      <4>2. ASSUME NEW i \in DOMAIN c.runs PROVE c.runs[i].end < n
        <5>1. c.runs[i] \in RunRow BY <4>1
        <5>2. c.runs[i].end \in Nat BY <5>1 DEF RunRow
        <5>3. c.runs[i].end <= k BY <1>3 DEF Intervals
        <5> QED BY <1>1, <5>2, <5>3
      <4> QED BY <4>2
    <3> QED BY <1>1, <1>4, <1>6, <1>7, <2>1, <3>4, <3>5, <3>6 DEF Detected
  <2> QED BY <2>3, <2>4
<1> QED BY <1>8, <1>9

\* The first N numbers, as a walk.
LEMMA Counting ==
  ASSUME NEW N \in Nat
  PROVE  Len(FromTo(1, N)) = N /\ DOMAIN FromTo(1, N) = 1 .. N /\ \A i \in 1 .. N : FromTo(1, N)[i] = i
<1>1. N - 1 + 1 = N /\ \A i \in 1 .. N : 1 + i - 1 = i OBVIOUS
<1>2. PICK w : w = FromTo(1, N) OBVIOUS
<1>3. w = [i \in 1 .. N |-> i] BY <1>1, <1>2 DEF FromTo
<1>4. w \in Seq(Nat) /\ Len(w) = N BY <1>3
<1> QED BY <1>2, <1>3, <1>4

\* The runs of text among the first k nodes.
RunAmong(a, b, k) ==
    /\ 2 <= a /\ a <= b /\ b <= k /\ b - a + 1 >= MinRun
    /\ \A n \in a .. b : IsText(n)
    /\ ~IsText(a - 1) /\ (b < k => ~IsText(b + 1))
IsRun(r, a, b) == r.start = a /\ r.end = b
Matches(rs, k) ==
    /\ \A i \in DOMAIN rs : RunAmong(rs[i].start, rs[i].end, k)
    /\ \A a, b \in Nat : RunAmong(a, b, k) => \E i \in DOMAIN rs : IsRun(rs[i], a, b)

\* After k nodes: the runs that ended before the last of them, and the one that reaches it.
Ended(rs, k) ==
    /\ \A i \in DOMAIN rs : rs[i].end < k /\ RunAmong(rs[i].start, rs[i].end, k)
    /\ \A a, b \in Nat : b < k /\ RunAmong(a, b, k) => \E i \in DOMAIN rs : IsRun(rs[i], a, b)
Tracks(acc, k) ==
    /\ Ended(acc.runs, k)
    /\ acc.open # NoRun =>
          /\ acc.open.length = k - acc.open.start + 1
          /\ \A n \in acc.open.start .. k : IsText(n)
          /\ ~IsText(acc.open.start - 1)
    /\ acc.open = NoRun => k = 0 \/ ~IsText(k)

LEMMA ClosedMatches ==
  ASSUME TreeViewsAssumption, NEW k \in Nat, NEW acc, Detected(acc, k), Tracks(acc, k)
  PROVE  Matches(Closed(acc).runs, k)
<1>1. PICK rs, open, t : rs = acc.runs /\ open = acc.open /\ t = Closed(acc).runs OBVIOUS
<1>2. rs \in Seq(RunRow) /\ open \in RunRow /\ Ended(rs, k) BY <1>1 DEF Detected, Detect_State, Tracks
<1>3. MinRun \in Nat BY DEF TreeViewsAssumption
<1>4. CASE open # NoRun
  <2>1. /\ 2 <= open.start /\ open.start <= open.end /\ open.end = k
        /\ open.length = k - open.start + 1
        /\ \A n \in open.start .. k : IsText(n)
        /\ ~IsText(open.start - 1)
    BY <1>1, <1>4 DEF Detected, Tracks
  <2>2. open.start \in Nat BY <1>2 DEF RunRow
  <2>3. ASSUME NEW a \in Nat, RunAmong(a, k, k) PROVE a = open.start /\ open.length >= MinRun
    <3>1. /\ 2 <= a /\ a <= k /\ k - a + 1 >= MinRun /\ \A n \in a .. k : IsText(n) /\ ~IsText(a - 1)
      BY <2>3 DEF RunAmong
    <3>2. ~(a < open.start)
      <4>1. SUFFICES ASSUME a < open.start PROVE FALSE OBVIOUS
      <4>2. open.start - 1 \in a .. k BY <2>1, <2>2, <4>1
      <4> QED BY <2>1, <3>1, <4>2
    <3>3. ~(open.start < a)
      <4>1. SUFFICES ASSUME open.start < a PROVE FALSE OBVIOUS
      <4>2. a - 1 \in open.start .. k BY <2>2, <3>1, <4>1
      <4> QED BY <2>1, <3>1, <4>2
    <3>4. a = open.start BY <2>2, <3>2, <3>3
    <3> QED BY <2>1, <3>1, <3>4
  <2>4. CASE open.length < MinRun
    <3>1. t = rs BY <1>1, <1>2, <1>3, <2>4 DEF Closed, RunRow
    <3>2. ASSUME NEW a \in Nat, NEW b \in Nat, RunAmong(a, b, k) PROVE b < k
      <4>1. b <= k /\ (b = k => a = open.start /\ open.length >= MinRun) BY <2>3, <3>2 DEF RunAmong
      <4>2. open.length \in Nat BY <1>2 DEF RunRow
      <4> QED BY <1>3, <2>4, <4>1, <4>2
    <3> QED BY <1>1, <1>2, <3>1, <3>2 DEF Ended, Matches
  <2>5. CASE ~(open.length < MinRun)
    <3>1. open.length \in Nat /\ open.length >= MinRun BY <1>2, <1>3, <2>5 DEF RunRow
    <3>2. t = Append(rs, open) BY <1>1, <1>4, <3>1 DEF Closed
    <3>3. PICK L \in Nat : L = Len(rs) /\ DOMAIN rs = 1 .. L BY <1>2
    <3>4. DOMAIN t = 1 .. (L + 1) /\ t[L + 1] = open /\ \A i \in 1 .. L : t[i] = rs[i] BY <1>2, <3>2, <3>3
    <3>5. RunAmong(open.start, open.end, k)
      <4>1. k - open.start + 1 >= MinRun BY <2>1, <3>1
      <4> QED BY <2>1, <4>1 DEF RunAmong
    <3>6. \A i \in 1 .. (L + 1) : i = L + 1 \/ i \in 1 .. L OBVIOUS
    <3>7. \A i \in DOMAIN t : RunAmong(t[i].start, t[i].end, k) BY <1>2, <3>3, <3>4, <3>5, <3>6 DEF Ended
    <3>8. ASSUME NEW a \in Nat, NEW b \in Nat, RunAmong(a, b, k) PROVE \E i \in DOMAIN t : IsRun(t[i], a, b)
      <4>1. b <= k BY <3>8 DEF RunAmong
      <4>2. CASE b < k
        <5>1. PICK i \in 1 .. L : IsRun(rs[i], a, b) BY <1>2, <3>3, <3>8, <4>2 DEF Ended
        <5>2. i \in 1 .. (L + 1) OBVIOUS
        <5> QED BY <3>4, <5>1, <5>2
      <4>3. CASE b = k
        <5>1. a = open.start BY <2>3, <3>8, <4>3
        <5>2. L + 1 \in 1 .. (L + 1) OBVIOUS
        <5> QED BY <2>1, <3>4, <4>3, <5>1, <5>2 DEF IsRun
      <4> QED BY <4>1, <4>2, <4>3
    <3> QED BY <1>1, <3>7, <3>8 DEF Matches
  <2> QED BY <2>4, <2>5
<1>5. CASE open = NoRun
  <2>1. t = rs /\ (k = 0 \/ ~IsText(k)) BY <1>1, <1>5 DEF Closed, Tracks
  <2>2. ASSUME NEW a \in Nat, NEW b \in Nat, RunAmong(a, b, k) PROVE b < k
    <3>1. 2 <= a /\ a <= b /\ b <= k /\ \A n \in a .. b : IsText(n) BY <2>2 DEF RunAmong
    <3>2. b \in a .. b BY <3>1
    <3> QED BY <2>1, <3>1, <3>2
  <2> QED BY <1>1, <1>2, <2>1, <2>2 DEF Ended, Matches
<1> QED BY <1>4, <1>5

\* One node more: whether a run ended at the node before it is known now.
LEMMA ScanTracks ==
  ASSUME TreeViewsAssumption, GrownSource, Straight, NEW k \in Nat, NEW n \in Rows, n = k + 1,
         NEW acc, Detected(acc, k), Tracks(acc, k)
  PROVE  Tracks(Scan(acc, n), n)
<1>1. n \in Nat /\ k < n /\ (n # 1 => n >= 2) /\ source[1].kind = "root" /\ n - 1 = k BY SourceRows
<1>2. PICK c, rs, s : c = Closed(acc) /\ rs = acc.runs /\ s = Scan(acc, n) OBVIOUS
<1>3. acc \in Detect_State /\ rs \in Seq(RunRow) /\ Ended(rs, k) /\ c.open = NoRun
  <2>1. acc \in Detect_State /\ Ended(rs, k) BY <1>2 DEF Detected, Tracks
  <2> QED BY <1>2, <2>1, ClosedTyped DEF Detect_State
<1>4. \A i \in DOMAIN rs : rs[i].start \in Nat /\ rs[i].end \in Nat
  <2>1. \A i \in DOMAIN rs : rs[i] \in RunRow BY <1>3
  <2> QED BY <2>1 DEF RunRow
<1>5. \A a, b \in Nat : b < k => (RunAmong(a, b, k) <=> RunAmong(a, b, n)) BY <1>1 DEF RunAmong
<1>6. IsText(n) => Ended(rs, n)
  <2>1. SUFFICES ASSUME IsText(n) PROVE Ended(rs, n) OBVIOUS
  <2>2. ASSUME NEW i \in DOMAIN rs PROVE rs[i].end < n /\ RunAmong(rs[i].start, rs[i].end, n)
    <3>1. rs[i].end < k /\ RunAmong(rs[i].start, rs[i].end, k) BY <1>3 DEF Ended
    <3> QED BY <1>1, <1>4, <1>5, <3>1
  <2>3. ASSUME NEW a \in Nat, NEW b \in Nat, b < n, RunAmong(a, b, n)
        PROVE  \E i \in DOMAIN rs : IsRun(rs[i], a, b)
    <3>1. b # k BY <1>1, <2>1, <2>3 DEF RunAmong
    <3>2. b < k BY <2>3, <3>1
    <3> QED BY <1>3, <1>5, <2>3, <3>2 DEF Ended
  <2> QED BY <2>2, <2>3 DEF Ended
<1>7. CASE ~IsText(n)
  <2>1. s = c BY <1>2, <1>7 DEF Scan
  <2>2. Matches(c.runs, k) BY <1>2, ClosedMatches
  <2>3. c.runs \in Seq(RunRow) BY <1>2, <1>3, ClosedTyped DEF Detect_State
  <2>4. \A a, b \in Nat : b <= k => (RunAmong(a, b, k) <=> RunAmong(a, b, n)) BY <1>1, <1>7 DEF RunAmong
  <2>5. ASSUME NEW i \in DOMAIN c.runs PROVE c.runs[i].end < n /\ RunAmong(c.runs[i].start, c.runs[i].end, n)
    <3>1. c.runs[i] \in RunRow BY <2>3
    <3>2. c.runs[i].start \in Nat /\ c.runs[i].end \in Nat BY <3>1 DEF RunRow
    <3>3. RunAmong(c.runs[i].start, c.runs[i].end, k) BY <2>2 DEF Matches
    <3>4. c.runs[i].end <= k BY <3>3 DEF RunAmong
    <3> QED BY <1>1, <2>4, <3>2, <3>3, <3>4
  <2>6. ASSUME NEW a \in Nat, NEW b \in Nat, b < n, RunAmong(a, b, n)
        PROVE  \E i \in DOMAIN c.runs : IsRun(c.runs[i], a, b)
    <3>1. b <= k BY <2>6
    <3> QED BY <2>2, <2>4, <2>6, <3>1 DEF Matches
  <2> QED BY <1>2, <1>3, <1>7, <2>1, <2>5, <2>6 DEF Tracks, Ended
<1>8. CASE IsText(n)
  <2>1. n # 1 BY <1>1, <1>8 DEF IsText
  <2>2. source[n].parent = k
    <3>1. source[n].parent = n - 1 BY <2>1 DEF Straight, Rows
    <3> QED BY <1>1, <3>1
  <2>3. CASE acc.open # NoRun
    <3>1. /\ acc.open.start <= k /\ acc.open.end = k /\ acc.open.length = k - acc.open.start + 1
          /\ \A m \in acc.open.start .. k : IsText(m)
          /\ ~IsText(acc.open.start - 1)
      BY <2>3 DEF Detected, Tracks
    <3>2. Continues(acc, n) BY <2>2, <2>3, <3>1 DEF Continues
    <3>3. PICK a : a = [start |-> acc.open.start, end |-> n, length |-> acc.open.length + 1] OBVIOUS
    <3>4. s = [acc EXCEPT !.open = a] BY <1>2, <1>8, <3>2, <3>3 DEF Scan
    <3>5. s.open = a /\ s.runs = rs BY <1>2, <1>3, <3>4 DEF Detect_State
    <3>6. acc.open.start \in Nat BY <1>3 DEF Detect_State, RunRow
    <3>7. a.start = acc.open.start /\ a.length = n - a.start + 1 BY <3>1, <3>3, <3>6
    <3>8. \A m \in a.start .. n : m = n \/ m \in a.start .. k BY <1>1, <3>6, <3>7
    <3>9. s.open # NoRun BY <1>1, <3>3, <3>5 DEF NoRun
    <3> QED BY <1>2, <1>6, <1>8, <3>1, <3>5, <3>7, <3>8, <3>9 DEF Tracks
  <2>4. CASE acc.open = NoRun
    <3>1. ~Continues(acc, n) BY <2>4 DEF Continues
    <3>2. PICK b : b = [start |-> n, end |-> n, length |-> 1] OBVIOUS
    <3>3. s = [c EXCEPT !.open = b] /\ c.runs = rs BY <1>2, <1>8, <2>4, <3>1, <3>2 DEF Scan, Closed
    <3>4. c \in Detect_State BY <1>2, <1>3, ClosedTyped
    <3>5. s.open = b /\ s.runs = rs BY <3>3, <3>4 DEF Detect_State
    <3>6. ~IsText(n - 1) BY <1>1, <2>1, <2>4 DEF Tracks
    <3>7. b.start = n /\ b.length = n - n + 1 BY <1>1, <3>2
    <3>8. \A m \in n .. n : m = n BY <1>1
    <3>9. s.open # NoRun BY <1>1, <3>2, <3>5 DEF NoRun
    <3> QED BY <1>2, <1>6, <1>8, <3>5, <3>6, <3>7, <3>8, <3>9 DEF Tracks
  <2> QED BY <2>3, <2>4
<1> QED BY <1>7, <1>8

FirstSeen == [open |-> NoRun, runs |-> <<>>]
Detecting(f, walk) == f = [k \in 0 .. Len(walk) |-> IF k = 0 THEN FirstSeen ELSE Scan(f[k - 1], walk[k])]

LEMMA RunsOfChain ==
  ASSUME GrownSource, Straight
  PROVE  /\ Intervals(TextRuns(FromTo(1, Len(source))), Len(source))
         /\ Matches(TextRuns(FromTo(1, Len(source))), Len(source))
<1>1. PICK N \in Nat : N = Len(source) /\ Rows = 1 .. N BY SourceRows
<1>2. PICK walk : walk = FromTo(1, N) OBVIOUS
<1>3. Len(walk) = N /\ \A i \in 1 .. N : walk[i] = i BY <1>2, Counting
<1>4. PICK Q, b : Q = Detect_State /\ b = FirstSeen OBVIOUS
<1>5. b \in Q
  <2>1. NoRun \in RunRow /\ <<>> \in Seq(RunRow) BY DEF NoRun, RunRow
  <2> QED BY <1>4, <2>1 DEF FirstSeen, Detect_State
<1>6. PICK st : st = [p \in Q \X (1 .. N) |-> Scan(p[1], p[2])] OBVIOUS
<1>7. st \in [Q \X (1 .. N) -> Q]
  <2>1. \A p \in Q \X (1 .. N) : p[1] \in Detect_State /\ p[2] \in Nat BY <1>4
  <2>2. \A p \in Q \X (1 .. N) : Scan(p[1], p[2]) \in Q BY <1>4, <2>1, ScanTyped
  <2> QED BY <1>6, <2>2
<1>8. PICK g : Stepping(g, Q, N, b, st) BY <1>5, <1>7, Stepwise
<1>9. g \in [0 .. N -> Q] /\ g[0] = b /\ \A k \in 1 .. N : g[k] = st[<<g[k - 1], k>>]
  BY <1>8 DEF Stepping
<1>10. Detecting(g, walk)
  <2>1. ASSUME NEW k \in 1 .. N PROVE g[k] = Scan(g[k - 1], walk[k])
    <3>1. k - 1 \in 0 .. N OBVIOUS
    <3> QED BY <1>3, <1>6, <1>9, <3>1
  <2>2. \A k \in 0 .. N : k # 0 => k \in 1 .. N OBVIOUS
  <2>3. \A k \in 0 .. N : g[k] = IF k = 0 THEN FirstSeen ELSE Scan(g[k - 1], walk[k])
    BY <1>4, <1>9, <2>1, <2>2
  <2>4. g = [k \in 0 .. N |-> g[k]] BY <1>9
  <2> QED BY <1>3, <2>3, <2>4 DEF Detecting
<1>11. PICK f : Detecting(f, walk) /\ TextRuns(walk) = Closed(f[N]).runs
  <2>1. PICK c : c = CHOOSE h : Detecting(h, walk) OBVIOUS
  <2>2. Detecting(c, walk) BY <1>10, <2>1
  <2>3. TextRuns(walk) = Closed(c[N]).runs BY <1>3, <2>1 DEF TextRuns, LastSeen, Detecting, FirstSeen
  <2> QED BY <2>2, <2>3
<1> DEFINE T == {n \in Nat : n <= N => Detected(f[n], n) /\ Tracks(f[n], n)}
<1>12. 0 \in T
  <2>1. f[0] = FirstSeen BY <1>3, <1>11 DEF Detecting
  <2>2. FirstSeen.open = NoRun /\ FirstSeen.runs = <<>> BY DEF FirstSeen
  <2>3. Intervals(<<>>, 0) BY DEF Intervals
  <2>4. FirstSeen \in Detect_State BY <1>4, <1>5
  <2>5. Detected(FirstSeen, 0) BY <2>2, <2>3, <2>4 DEF Detected
  <2>6. Tracks(FirstSeen, 0) BY <2>2 DEF Tracks, Ended, RunAmong
  <2> QED BY <2>1, <2>5, <2>6
<1>13. ASSUME NEW n \in T PROVE n + 1 \in T
  <2>1. SUFFICES ASSUME n + 1 <= N PROVE Detected(f[n + 1], n + 1) /\ Tracks(f[n + 1], n + 1) OBVIOUS
  <2>2. PICK k : k = n + 1 OBVIOUS
  <2>3. k \in 1 .. N /\ k \in 0 .. N /\ k # 0 /\ k - 1 = n /\ n \in Nat BY <2>1, <2>2
  <2>4. f[k] = Scan(f[n], k) BY <1>3, <1>11, <2>3 DEF Detecting
  <2>5. Detected(f[n], n) /\ Tracks(f[n], n) BY <2>1
  <2>6. Detected(Scan(f[n], k), k) /\ Tracks(Scan(f[n], k), k)
    BY <1>1, <2>2, <2>3, <2>5, ScanDetects, ScanTracks, TreeViewsAssumption
  <2> QED BY <2>2, <2>4, <2>6
<1>14. T = Nat
  <2> HIDE DEF T
  <2>1. T \in SUBSET Nat BY DEF T
  <2> QED BY <1>12, <1>13, <2>1, InductionOnNat
<1>15. Detected(f[N], N) /\ Tracks(f[N], N) BY <1>14
<1>16. Intervals(Closed(f[N]).runs, N) /\ Matches(Closed(f[N]).runs, N)
  BY <1>15, ClosedDetected, ClosedMatches, TreeViewsAssumption
<1> QED BY <1>1, <1>2, <1>11, <1>16

-----------------------------------------------------------------------------
\* The nodes that a view shows, one node of the view after the other.
ViewRow == [parent : Nat, shown : Seq(Nat)]
ShownBy(v) == FlattenSeq([i \in DOMAIN v |-> v[i].shown])

LEMMA ShownTyped ==
  ASSUME NEW v \in Seq(ViewRow)
  PROVE  /\ ShownBy(v) \in Seq(Nat)
         /\ \A r \in ViewRow : ShownBy(Append(v, r)) = ShownBy(v) \o r.shown
<1>1. PICK N \in Nat : N = Len(v) /\ DOMAIN v = 1 .. N
  <2>1. DOMAIN v = 1 .. Len(v) /\ Len(v) \in Nat OBVIOUS
  <2> QED BY <2>1
<1>2. PICK q : q = [i \in DOMAIN v |-> v[i].shown] OBVIOUS
<1>3. q \in Seq(Seq(Nat)) /\ Len(q) = N /\ DOMAIN q = 1 .. N
  <2>1. \A i \in DOMAIN v : v[i] \in ViewRow OBVIOUS
  <2>2. \A i \in DOMAIN v : v[i].shown \in Seq(Nat) BY <2>1 DEF ViewRow
  <2> QED BY <1>1, <1>2, <2>2
<1>4. ASSUME NEW r \in ViewRow PROVE ShownBy(Append(v, r)) = ShownBy(v) \o r.shown
  <2>1. PICK long, b : long = Append(v, r) /\ b = r.shown OBVIOUS
  <2>2. b \in Seq(Nat) BY <2>1 DEF ViewRow
  <2>3. DOMAIN long = 1 .. (N + 1) /\ long[N + 1] = r /\ \A i \in 1 .. N : long[i] = v[i]
    BY <1>1, <2>1
  <2>4. PICK Q : Q = Seq(Nat) OBVIOUS
  <2>5. PICK u : u = Append(q, b) OBVIOUS
  <2>6. u \in Seq(Q) /\ Len(u) = N + 1 /\ u[N + 1] = b /\ \A i \in 1 .. N : u[i] = q[i]
    <3>1. q \in Seq(Q) /\ b \in Q BY <1>3, <2>2, <2>4
    <3> QED BY <1>3, <2>5, <3>1
  <2>7. PICK w : w = [i \in DOMAIN long |-> long[i].shown] OBVIOUS
  <2>8. \A i \in 1 .. (N + 1) : i = N + 1 \/ i \in 1 .. N OBVIOUS
  <2>9. \A i \in 1 .. (N + 1) : w[i] = u[i] BY <1>1, <1>2, <2>1, <2>3, <2>6, <2>7, <2>8
  <2>10. DOMAIN u = 1 .. (N + 1) /\ u = [i \in 1 .. (N + 1) |-> u[i]] BY <2>6
  <2>11. w = u
    <3>1. w = [i \in 1 .. (N + 1) |-> w[i]] BY <2>3, <2>7
    <3> QED BY <2>9, <2>10, <3>1
  <2>12. FlattenSeq(u) = FlattenSeq(q) \o b BY <1>3, <2>2, <2>5, FlattenAppend
  <2> QED BY <1>2, <2>1, <2>7, <2>11, <2>12 DEF ShownBy
<1>5. FlattenSeq(q) \in Seq(Nat) BY <1>3, FlattenPlaces
<1> QED BY <1>2, <1>4, <1>5 DEF ShownBy

\* What view_collapse_text_runs has copied, and where it has put it.
Mapping == UNION {[D -> Nat] : D \in SUBSET Nat}
Copy_State == [view : Seq(ViewRow), mapped : Mapping]

\* A node is in one run at most.
LEMMA RunAt ==
  ASSUME NEW N \in Nat, Intervals(runs, N), NEW i \in DOMAIN runs, NEW j \in DOMAIN runs,
         NEW n \in Nat, runs[i].start <= n, n <= runs[i].end, runs[j].start <= n, n <= runs[j].end
  PROVE  i = j
<1>1. runs \in Seq(RunRow) BY DEF Intervals
<1>2. i \in Nat /\ j \in Nat BY <1>1
<1>3. runs[i] \in RunRow /\ runs[j] \in RunRow BY <1>1
<1>4. runs[i].start \in Nat /\ runs[i].end \in Nat /\ runs[j].start \in Nat /\ runs[j].end \in Nat
  BY <1>3 DEF RunRow
<1>5. ~(i < j)
  <2>1. SUFFICES ASSUME i < j PROVE FALSE OBVIOUS
  <2>2. runs[i].end < runs[j].start BY <2>1 DEF Intervals
  <2> QED BY <1>4, <2>2
<1>6. ~(j < i)
  <2>1. SUFFICES ASSUME j < i PROVE FALSE OBVIOUS
  <2>2. runs[j].end < runs[i].start BY <2>1 DEF Intervals
  <2> QED BY <1>4, <2>2
<1> QED BY <1>2, <1>5, <1>6

\* What is shown of a node: the run that starts there, or itself.
ShownAt(n) ==
    IF n \in Starts THEN FromTo(n, runs[CHOOSE i \in DOMAIN runs : runs[i].start = n].end)
    ELSE IF source[n].kind = "root" THEN <<>> ELSE <<n>>

\* One node more, which shows n.
Shows(new, acc, n) ==
    \E p \in Nat, m \in Mapping :
        new = [view |-> Append(acc.view, [parent |-> p, shown |-> ShownAt(n)]), mapped |-> m]

LEMMA PlacedOnChain ==
  ASSUME GrownSource, Straight, Intervals(runs, Len(source)), NEW n \in Rows, NEW acc \in Copy_State, NEW c
  PROVE  /\ n \in Starts => \E i \in DOMAIN runs : runs[i].start = n /\ ShownAt(n) = FromTo(n, runs[i].end)
         /\ ShownAt(n) \in Seq(Nat)
         /\ n \in c /\ n \notin Starts => Placed(acc, n, c) = acc
         /\ ~(n \in c /\ n \notin Starts) => Shows(Placed(acc, n, c), acc, n)
<1>1. PICK N \in Nat : N = Len(source) /\ Rows = 1 .. N BY SourceRows
<1>2. n \in Nat BY <1>1
<1>3. PICK r : r = CHOOSE i \in DOMAIN runs : runs[i].start = n OBVIOUS
<1>4. ASSUME n \in Starts
      PROVE  r \in DOMAIN runs /\ runs[r].start = n /\ runs[r].end \in Rows /\ n <= runs[r].end
  <2>1. \E i \in DOMAIN runs : runs[i].start = n BY <1>4 DEF Starts
  <2>2. r \in DOMAIN runs /\ runs[r].start = n BY <1>3, <2>1
  <2>3. runs \in Seq(RunRow) BY DEF Intervals
  <2>4. runs[r] \in RunRow BY <2>2, <2>3
  <2>5. runs[r].end \in Nat BY <2>4 DEF RunRow
  <2>6. n <= runs[r].end /\ runs[r].end <= N BY <1>1, <2>2 DEF Intervals
  <2> QED BY <1>1, <1>2, <2>2, <2>5, <2>6
<1>5. n \in Starts => ShownAt(n) = FromTo(n, runs[r].end) BY <1>3 DEF ShownAt
<1>6. n \in Starts => RangeGet(n, runs[r].end) = ShownAt(n) BY <1>4, <1>5, RangeOfChain
<1>7. ShownAt(n) \in Seq(Nat)
  <2>1. CASE n \in Starts
    <3>1. PICK e \in Nat : e = runs[r].end /\ n <= e + 1 /\ e <= e
      <4>1. runs[r].end \in Nat /\ n <= runs[r].end + 1 BY <1>1, <1>2, <1>4, <2>1
      <4> QED BY <4>1
    <3>2. FromTo(n, e) \in Seq(Nat) BY <1>2, <3>1, FromToGrows
    <3> QED BY <1>5, <2>1, <3>1, <3>2
  <2>2. CASE n \notin Starts
    <3>1. <<>> \in Seq(Nat) /\ <<n>> \in Seq(Nat) BY <1>2
    <3> QED BY <2>2, <3>1 DEF ShownAt
  <2> QED BY <2>1, <2>2
<1>8. n \in c /\ n \notin Starts => Placed(acc, n, c) = acc BY DEF Placed
<1>9. ASSUME ~(n \in c /\ n \notin Starts)
      PROVE  Shows(Placed(acc, n, c), acc, n)
  <2>1. acc.view \in Seq(ViewRow) /\ acc.mapped \in Mapping BY DEF Copy_State
  <2>2. PICK D \in SUBSET Nat : acc.mapped \in [D -> Nat] BY <2>1 DEF Mapping
  <2>3. PICK above : above = IF source[n].parent \in DOMAIN acc.mapped THEN acc.mapped[source[n].parent] ELSE 0
    OBVIOUS
  <2>4. above \in Nat BY <2>2, <2>3
  <2>5. PICK p : p = IF n \in Starts /\ above = 0 THEN 1 ELSE above OBVIOUS
  <2>6. p \in Nat BY <2>4, <2>5
  <2>7. PICK m : m = [x \in DOMAIN acc.mapped \cup {n} |-> IF x = n THEN Len(acc.view) + 1 ELSE acc.mapped[x]]
    OBVIOUS
  <2>8. m \in Mapping
    <3>1. Len(acc.view) + 1 \in Nat BY <2>1
    <3>2. D \cup {n} \in SUBSET Nat BY <1>2
    <3>3. m \in [D \cup {n} -> Nat] BY <2>2, <2>7, <3>1
    <3> QED BY <3>2, <3>3 DEF Mapping
  <2>9. PICK shown : shown = IF n \in Starts THEN RangeGet(n, runs[r].end)
                             ELSE IF source[n].kind = "root" THEN <<>> ELSE <<n>>
    OBVIOUS
  <2>10. shown = ShownAt(n) BY <1>6, <2>9 DEF ShownAt
  <2>11. Placed(acc, n, c) = [view |-> Append(acc.view, [parent |-> p, shown |-> shown]), mapped |-> m]
    BY <1>3, <1>9, <2>3, <2>5, <2>7, <2>9 DEF Placed
  <2> QED BY <2>6, <2>8, <2>10, <2>11 DEF Shows
<1> QED BY <1>4, <1>5, <1>7, <1>8, <1>9

\* After k nodes of the walk, the view shows all up to e: to the end of a run of
\* which it has reached a node.
Reaches(k, e) ==
    \/ \E i \in DOMAIN runs : runs[i].start <= k /\ k <= runs[i].end /\ e = runs[i].end
    \/ /\ e = (IF k = 0 THEN 1 ELSE k)
       /\ \A i \in DOMAIN runs : ~(runs[i].start <= k /\ k < runs[i].end)
Covered(acc, k) ==
    /\ acc \in Copy_State
    /\ \E e \in Nat : Reaches(k, e) /\ ShownBy(acc.view) = FromTo(2, e)

LEMMA PlacedCovers ==
  ASSUME GrownSource, Straight, Intervals(runs, Len(source)),
         NEW c, c = UNION {runs[i].start .. runs[i].end : i \in DOMAIN runs},
         NEW k \in Nat, NEW n \in Rows, n = k + 1, NEW acc, Covered(acc, k)
  PROVE  Covered(Placed(acc, n, c), n)
<1>1. n \in Nat /\ n # 0 /\ k <= n /\ k < n /\ (k # 0 => 2 <= n /\ n # 1) /\ (k = 0 => n = 1)
  BY SourceRows
<1>2. PICK N \in Nat : N = Len(source) /\ Rows = 1 .. N /\ source[1].kind = "root" BY SourceRows
<1>3. \A i \in DOMAIN runs :
         /\ runs[i].start \in Nat /\ runs[i].end \in Nat
         /\ 2 <= runs[i].start /\ runs[i].start <= runs[i].end
  <2>1. runs \in Seq(RunRow) BY DEF Intervals
  <2>2. \A i \in DOMAIN runs : runs[i] \in RunRow BY <2>1
  <2> QED BY <2>2 DEF Intervals, RunRow
<1>4. n \in c <=> \E i \in DOMAIN runs : runs[i].start <= n /\ n <= runs[i].end
  <2>1. \A i \in DOMAIN runs : n \in runs[i].start .. runs[i].end
                                  <=> runs[i].start <= n /\ n <= runs[i].end
    BY <1>1, <1>3
  <2> QED BY <2>1
<1>5. n \in Starts <=> \E i \in DOMAIN runs : runs[i].start = n BY DEF Starts
<1>6. acc \in Copy_State BY DEF Covered
<1>7. PICK e \in Nat : Reaches(k, e) /\ ShownBy(acc.view) = FromTo(2, e) BY DEF Covered
<1>8. PICK s : s = Placed(acc, n, c) OBVIOUS
<1>9. CASE n \in c /\ n \notin Starts
  <2>1. s = acc BY <1>6, <1>8, <1>9, PlacedOnChain
  <2>2. PICK i \in DOMAIN runs : runs[i].start <= n /\ n <= runs[i].end BY <1>4, <1>9
  <2>3. runs[i].start <= k /\ k <= runs[i].end /\ k < runs[i].end
    <3>1. runs[i].start # n BY <1>5, <1>9
    <3> QED BY <1>3, <2>2, <3>1
  <2>4. e = runs[i].end
    <3>1. PICK j \in DOMAIN runs : runs[j].start <= k /\ k <= runs[j].end /\ e = runs[j].end
      BY <1>7, <2>3 DEF Reaches
    <3>2. i = j BY <1>2, <2>3, <3>1, RunAt
    <3> QED BY <3>1, <3>2
  <2>5. Reaches(n, e) BY <2>2, <2>4 DEF Reaches
  <2> QED BY <1>6, <1>7, <1>8, <2>1, <2>5 DEF Covered
<1>10. CASE ~(n \in c /\ n \notin Starts)
  <2>1. PICK p \in Nat, m \in Mapping :
           Placed(acc, n, c) = [view |-> Append(acc.view, [parent |-> p, shown |-> ShownAt(n)]), mapped |-> m]
    <3>1. Shows(Placed(acc, n, c), acc, n) BY <1>6, <1>10, PlacedOnChain
    <3> QED BY <3>1 DEF Shows
  <2>2. PICK v, x, r : v = acc.view /\ x = ShownAt(n) /\ r = [parent |-> p, shown |-> x] OBVIOUS
  <2>3. x \in Seq(Nat) BY <1>6, <2>2, PlacedOnChain
  <2>4. v \in Seq(ViewRow) /\ r \in ViewRow /\ r.shown = x BY <1>6, <2>2, <2>3 DEF Copy_State, ViewRow
  <2>5. s = [view |-> Append(v, r), mapped |-> m] BY <1>8, <2>1, <2>2
  <2>6. s \in Copy_State /\ s.view = Append(v, r)
    <3>1. Append(v, r) \in Seq(ViewRow) BY <2>4
    <3> QED BY <2>5, <3>1 DEF Copy_State
  <2>7. ShownBy(s.view) = FromTo(2, e) \o x BY <1>7, <2>2, <2>4, <2>6, ShownTyped
  <2>8. e = IF k = 0 THEN 1 ELSE k
    <3>1. ASSUME NEW i \in DOMAIN runs, runs[i].start <= k, k <= runs[i].end, e = runs[i].end
          PROVE  e = IF k = 0 THEN 1 ELSE k
      <4>1. k # 0 BY <1>3, <3>1
      <4>2. SUFFICES ASSUME k # runs[i].end PROVE FALSE BY <3>1, <4>1
      <4>3. runs[i].start <= n /\ n <= runs[i].end BY <1>1, <1>3, <3>1, <4>2
      <4>4. n \in c BY <1>4, <4>3
      <4>5. PICK j \in DOMAIN runs : runs[j].start = n BY <1>5, <1>10, <4>4
      <4>6. runs[j].start <= n /\ n <= runs[j].end BY <1>1, <1>3, <4>5
      <4>7. i = j BY <1>1, <1>2, <4>3, <4>6, RunAt
      <4> QED BY <1>1, <3>1, <4>5, <4>7
    <3> QED BY <1>7, <3>1 DEF Reaches
  <2>9. CASE n \in Starts
    <3>1. PICK i \in DOMAIN runs : runs[i].start = n /\ x = FromTo(n, runs[i].end)
      BY <1>6, <2>2, <2>9, PlacedOnChain
    <3>2. PICK f \in Nat : f = runs[i].end /\ n <= f BY <1>3, <3>1
    <3>3. 2 <= n BY <1>3, <3>1
    <3>4. e = k /\ 2 <= k + 1 /\ k <= f BY <1>1, <2>8, <3>2, <3>3
    <3>5. FromTo(2, k) \o FromTo(k + 1, f) = FromTo(2, f) BY <3>4, FromToGrows
    <3>6. ShownBy(s.view) = FromTo(2, f) BY <2>7, <3>1, <3>2, <3>4, <3>5
    <3>7. Reaches(n, f) BY <1>1, <3>1, <3>2 DEF Reaches
    <3> QED BY <1>8, <2>6, <3>6, <3>7 DEF Covered
  <2>10. CASE n \notin Starts
    <3>1. Reaches(n, n)
      <4>1. n \notin c BY <1>10, <2>10
      <4>2. \A i \in DOMAIN runs : ~(runs[i].start <= n /\ n < runs[i].end) BY <1>1, <1>3, <1>4, <4>1
      <4> QED BY <1>1, <4>2 DEF Reaches
    <3>2. ShownBy(s.view) = FromTo(2, n)
      <4>1. CASE k = 0
        <5>1. n = 1 /\ e = 1 BY <1>1, <2>8, <4>1
        <5>2. x = <<>> BY <1>2, <2>2, <2>10, <5>1 DEF ShownAt
        <5>3. FromTo(1 + 1, 1) = <<>> BY FromToOne
        <5>4. FromTo(2, 1) = <<>> BY <5>3
        <5> QED BY <2>7, <5>1, <5>2, <5>4
      <4>2. CASE k # 0
        <5>1. e = k /\ n # 1 BY <1>1, <2>8, <4>2
        <5>2. x = <<n>>
          <6>1. source[n].kind # "root" BY <5>1 DEF GrownSource, Rows
          <6> QED BY <2>2, <2>10, <6>1 DEF ShownAt
        <5>3. FromTo(n, n) = <<n>> BY <1>1, FromToOne
        <5>4. 2 <= k + 1 /\ k <= n BY <1>1, <4>2
        <5>5. FromTo(2, k) \o FromTo(k + 1, n) = FromTo(2, n) BY <1>1, <5>4, FromToGrows
        <5> QED BY <2>7, <5>1, <5>2, <5>3, <5>5
      <4> QED BY <4>1, <4>2
    <3> QED BY <1>1, <1>8, <2>6, <3>1, <3>2 DEF Covered
  <2> QED BY <2>9, <2>10
<1> QED BY <1>9, <1>10

\* Every run that the walk has reached is a row, and no other row shows two nodes.
IsRow(x, i) == x = FromTo(runs[i].start, runs[i].end)
Merged(v, k) ==
    /\ \A j \in DOMAIN v : Len(v[j].shown) > 1 => \E i \in DOMAIN runs : IsRow(v[j].shown, i)
    /\ \A i \in DOMAIN runs : runs[i].start <= k => \E j \in DOMAIN v : IsRow(v[j].shown, i)

LEMMA PlacedMerges ==
  ASSUME GrownSource, Straight, Intervals(runs, Len(source)), NEW c,
         NEW k \in Nat, NEW n \in Rows, n = k + 1, NEW acc \in Copy_State, Merged(acc.view, k)
  PROVE  Merged(Placed(acc, n, c).view, n)
<1>1. n \in Nat BY SourceRows
<1>2. PICK N \in Nat : N = Len(source) BY SourceRows
<1>3. \A i \in DOMAIN runs : runs[i].start \in Nat /\ runs[i].end \in Nat /\ runs[i].start <= runs[i].end
  <2>1. runs \in Seq(RunRow) BY DEF Intervals
  <2>2. \A i \in DOMAIN runs : runs[i] \in RunRow BY <2>1
  <2> QED BY <2>2 DEF Intervals, RunRow
<1>4. \A i \in DOMAIN runs : runs[i].start <= n => runs[i].start <= k \/ runs[i].start = n BY <1>3
<1>5. n \in Starts <=> \E i \in DOMAIN runs : runs[i].start = n BY DEF Starts
<1>6. CASE n \in c /\ n \notin Starts
  <2>1. Placed(acc, n, c) = acc BY <1>6, PlacedOnChain
  <2> QED BY <1>4, <1>5, <1>6, <2>1 DEF Merged
<1>7. CASE ~(n \in c /\ n \notin Starts)
  <2>1. PICK p \in Nat, m \in Mapping :
           Placed(acc, n, c) = [view |-> Append(acc.view, [parent |-> p, shown |-> ShownAt(n)]), mapped |-> m]
    <3>1. Shows(Placed(acc, n, c), acc, n) BY <1>7, PlacedOnChain
    <3> QED BY <3>1 DEF Shows
  <2>2. PICK v, x, r, t : v = acc.view /\ x = ShownAt(n) /\ r = [parent |-> p, shown |-> x] /\ t = Append(v, r)
    OBVIOUS
  <2>3. v \in Seq(ViewRow) /\ Placed(acc, n, c).view = t /\ r.shown = x BY <2>1, <2>2 DEF Copy_State
  <2>4. PICK L \in Nat : L = Len(v) /\ DOMAIN v = 1 .. L BY <2>3
  <2>5. DOMAIN t = 1 .. (L + 1) /\ t[L + 1] = r /\ \A j \in 1 .. L : t[j] = v[j] BY <2>2, <2>3, <2>4
  <2>6. \A j \in 1 .. (L + 1) : j = L + 1 \/ j \in 1 .. L OBVIOUS
  <2>7. (\A j \in 1 .. L : j \in 1 .. (L + 1)) /\ L + 1 \in 1 .. (L + 1) OBVIOUS
  <2>8. \A i \in DOMAIN runs : runs[i].start = n => IsRow(x, i)
    <3>1. SUFFICES ASSUME NEW i \in DOMAIN runs, runs[i].start = n PROVE IsRow(x, i) OBVIOUS
    <3>2. PICK j \in DOMAIN runs : runs[j].start = n /\ x = FromTo(n, runs[j].end)
      BY <1>5, <2>2, <3>1, PlacedOnChain
    <3>3. runs[i].start <= n /\ n <= runs[i].end /\ runs[j].start <= n /\ n <= runs[j].end
      BY <1>1, <1>3, <3>1, <3>2
    <3>4. i = j BY <1>1, <1>2, <3>3, RunAt
    <3> QED BY <3>2, <3>4 DEF IsRow
  <2>9. Len(x) > 1 => \E i \in DOMAIN runs : IsRow(x, i)
    <3>1. CASE n \in Starts BY <1>5, <2>8, <3>1
    <3>2. CASE n \notin Starts
      <4>1. x = <<>> \/ x = <<n>> BY <2>2, <3>2 DEF ShownAt
      <4>2. CASE x = <<>>
        <5>1. Len(x) = 0 BY <4>2
        <5> QED BY <5>1
      <4>3. CASE x = <<n>>
        <5>1. Len(x) = 1 BY <4>3
        <5> QED BY <5>1
      <4> QED BY <4>1, <4>2, <4>3
    <3> QED BY <3>1, <3>2
  <2>10. \A j \in DOMAIN t : Len(t[j].shown) > 1 => \E i \in DOMAIN runs : IsRow(t[j].shown, i)
    BY <2>2, <2>3, <2>4, <2>5, <2>6, <2>9 DEF Merged
  <2>11. ASSUME NEW i \in DOMAIN runs, runs[i].start <= n PROVE \E j \in DOMAIN t : IsRow(t[j].shown, i)
    <3>1. CASE runs[i].start <= k
      <4>1. PICK j \in 1 .. L : IsRow(v[j].shown, i) BY <2>2, <2>4, <3>1 DEF Merged
      <4> QED BY <2>5, <2>7, <4>1
    <3>2. CASE runs[i].start = n BY <2>3, <2>5, <2>7, <2>8, <3>2
    <3> QED BY <1>4, <2>11, <3>1, <3>2
  <2> QED BY <2>3, <2>10, <2>11 DEF Merged
<1> QED BY <1>6, <1>7

FirstCopied == [view |-> <<[parent |-> 0, shown |-> <<>>]>>, mapped |-> [n \in {1} |-> 1]]
Copying(f, walk) ==
    f = [k \in 0 .. Len(walk) |-> IF k = 0 THEN FirstCopied ELSE Placed(f[k - 1], walk[k], Collapsed(walk))]

LEMMA CopyOfChain ==
  ASSUME GrownSource, Straight, Intervals(runs, Len(source))
  PROVE  /\ ShownBy(Copied(FromTo(1, Len(source)))) = FromTo(2, Len(source))
         /\ Merged(Copied(FromTo(1, Len(source))), Len(source))
<1>1. PICK N \in Nat : N = Len(source) /\ Rows = 1 .. N /\ N >= 1 BY SourceRows
<1>2. PICK walk : walk = FromTo(1, N) OBVIOUS
<1>3. Len(walk) = N /\ \A i \in 1 .. N : walk[i] = i BY <1>2, Counting
<1>4. PICK c : c = Collapsed(walk) OBVIOUS
<1>5. \A i \in DOMAIN runs :
         runs[i].start \in Rows /\ runs[i].end \in Rows /\ runs[i].start <= runs[i].end
  <2>1. runs \in Seq(RunRow) BY DEF Intervals
  <2>2. \A i \in DOMAIN runs : runs[i] \in RunRow BY <2>1
  <2> QED BY <1>1, <2>2 DEF Intervals, RunRow
<1>6. c = UNION {runs[i].start .. runs[i].end : i \in DOMAIN runs}
  <2>1. ASSUME NEW i \in DOMAIN runs PROVE Followed(runs[i], walk) = runs[i].start .. runs[i].end
    <3>1. PICK run : run = runs[i] OBVIOUS
    <3>2. run.start \in Rows /\ run.end \in Rows /\ run.start <= run.end BY <1>5, <3>1
    <3>3. Followed(run, walk) = run.start .. run.end BY <1>1, <1>2, <3>2, FollowedOfChain
    <3> QED BY <3>1, <3>3
  <2> QED BY <1>4, <2>1 DEF Collapsed
<1>7. PICK Q, b : Q = Copy_State /\ b = FirstCopied OBVIOUS
<1>8. b \in Q
  <2>1. PICK m : m = [n \in {1} |-> 1] OBVIOUS
  <2>2. {1} \in SUBSET Nat /\ m \in [{1} -> Nat] BY <2>1
  <2>3. m \in Mapping BY <2>2 DEF Mapping
  <2>4. PICK r : r = [parent |-> 0, shown |-> <<>>] OBVIOUS
  <2>5. r \in ViewRow
    <3>1. <<>> \in Seq(Nat) OBVIOUS
    <3> QED BY <2>4, <3>1 DEF ViewRow
  <2>6. <<r>> \in Seq(ViewRow) BY <2>5
  <2>7. b = [view |-> <<r>>, mapped |-> m] BY <1>7, <2>1, <2>4 DEF FirstCopied
  <2> QED BY <1>7, <2>3, <2>6, <2>7 DEF Copy_State
<1>9. PICK st : st = [p \in Q \X (1 .. N) |-> Placed(p[1], p[2], c)] OBVIOUS
<1>10. st \in [Q \X (1 .. N) -> Q]
  <2>1. ASSUME NEW acc \in Copy_State, NEW n \in Rows PROVE Placed(acc, n, c) \in Copy_State
    <3>1. CASE n \in c /\ n \notin Starts
      <4>1. Placed(acc, n, c) = acc BY <1>1, <3>1, PlacedOnChain
      <4> QED BY <4>1
    <3>2. CASE ~(n \in c /\ n \notin Starts)
      <4>1. PICK p \in Nat, m \in Mapping :
               Placed(acc, n, c) = [view |-> Append(acc.view, [parent |-> p, shown |-> ShownAt(n)]), mapped |-> m]
        <5>1. Shows(Placed(acc, n, c), acc, n) BY <1>1, <3>2, PlacedOnChain
        <5> QED BY <5>1 DEF Shows
      <4>2. PICK r : r = [parent |-> p, shown |-> ShownAt(n)] OBVIOUS
      <4>3. ShownAt(n) \in Seq(Nat) BY <1>1, PlacedOnChain
      <4>4. r \in ViewRow BY <4>2, <4>3 DEF ViewRow
      <4>5. acc.view \in Seq(ViewRow) BY DEF Copy_State
      <4>6. Append(acc.view, r) \in Seq(ViewRow) BY <4>4, <4>5
      <4> QED BY <4>1, <4>2, <4>6 DEF Copy_State
    <3> QED BY <3>1, <3>2
  <2>2. \A p \in Q \X (1 .. N) : p[1] \in Copy_State /\ p[2] \in Rows BY <1>1, <1>7
  <2>3. \A p \in Q \X (1 .. N) : Placed(p[1], p[2], c) \in Q BY <1>7, <2>1, <2>2
  <2> QED BY <1>9, <2>3
<1>11. PICK g : Stepping(g, Q, N, b, st) BY <1>8, <1>10, Stepwise
<1>12. g \in [0 .. N -> Q] /\ g[0] = b /\ \A k \in 1 .. N : g[k] = st[<<g[k - 1], k>>]
  BY <1>11 DEF Stepping
<1>13. Copying(g, walk)
  <2>1. ASSUME NEW k \in 1 .. N PROVE g[k] = Placed(g[k - 1], walk[k], c)
    <3>1. k - 1 \in 0 .. N OBVIOUS
    <3> QED BY <1>3, <1>9, <1>12, <3>1
  <2>2. \A k \in 0 .. N : k # 0 => k \in 1 .. N OBVIOUS
  <2>3. \A k \in 0 .. N : g[k] = IF k = 0 THEN FirstCopied ELSE Placed(g[k - 1], walk[k], c)
    BY <1>7, <1>12, <2>1, <2>2
  <2>4. g = [k \in 0 .. N |-> g[k]] BY <1>12
  <2> QED BY <1>3, <1>4, <2>3, <2>4 DEF Copying
<1>14. PICK f : Copying(f, walk) /\ Copied(walk) = f[N].view
  <2>1. PICK h : h = CHOOSE y : Copying(y, walk) OBVIOUS
  <2>2. Copying(h, walk) BY <1>13, <2>1
  <2>3. Copied(walk) = h[N].view BY <1>3, <2>1 DEF Copied, Copying, FirstCopied
  <2> QED BY <2>2, <2>3
<1> DEFINE T == {n \in Nat : n <= N => Covered(f[n], n) /\ Merged(f[n].view, n)}
<1>15. 0 \in T
  <2>1. f[0] = FirstCopied BY <1>3, <1>14 DEF Copying
  <2>2. FirstCopied \in Copy_State BY <1>7, <1>8
  <2>3. PICK r : r = [parent |-> 0, shown |-> <<>>] OBVIOUS
  <2>4. FirstCopied.view = <<r>> BY <2>3 DEF FirstCopied
  <2>5. ShownBy(<<r>>) = <<>>
    <3>1. PICK e, v : e = <<>> /\ v = <<>> OBVIOUS
    <3>2. r \in ViewRow /\ r.shown = e
      <4>1. <<>> \in Seq(Nat) OBVIOUS
      <4> QED BY <2>3, <3>1, <4>1 DEF ViewRow
    <3>3. v \in Seq(ViewRow) /\ Append(v, r) = <<r>> BY <3>1
    <3>4. ShownBy(v) \in Seq(Nat) /\ ShownBy(Append(v, r)) = ShownBy(v) \o e BY <3>2, <3>3, ShownTyped
    <3>5. ShownBy(v) = <<>>
      <4>1. [i \in DOMAIN v |-> v[i].shown] = v BY <3>1
      <4>2. FlattenSeq(v) = v BY <3>1 DEF FlattenSeq
      <4> QED BY <3>1, <4>1, <4>2 DEF ShownBy
    <3>6. <<>> \o <<>> = <<>> OBVIOUS
    <3> QED BY <3>1, <3>3, <3>4, <3>5, <3>6
  <2>6. FromTo(2, 1) = <<>>
    <3>1. FromTo(1 + 1, 1) = <<>> BY FromToOne
    <3> QED BY <3>1
  <2>7. Reaches(0, 1)
    <3>1. \A i \in DOMAIN runs : ~(runs[i].start <= 0)  BY <1>1, <1>5
    <3> QED BY <3>1 DEF Reaches
  <2>8. Covered(FirstCopied, 0) BY <2>2, <2>4, <2>5, <2>6, <2>7 DEF Covered
  <2>9. Merged(<<r>>, 0)
    <3>1. DOMAIN <<r>> = {1} /\ <<r>>[1] = r /\ Len(<<>>) = 0 OBVIOUS
    <3>2. \A i \in DOMAIN runs : ~(runs[i].start <= 0)  BY <1>1, <1>5
    <3> QED BY <2>3, <3>1, <3>2 DEF Merged
  <2> QED BY <2>1, <2>4, <2>8, <2>9
<1>16. ASSUME NEW n \in T PROVE n + 1 \in T
  <2>1. SUFFICES ASSUME n + 1 <= N PROVE Covered(f[n + 1], n + 1) /\ Merged(f[n + 1].view, n + 1) OBVIOUS
  <2>2. PICK k : k = n + 1 OBVIOUS
  <2>3. k \in 1 .. N /\ k \in 0 .. N /\ k # 0 /\ k - 1 = n /\ n \in Nat BY <2>1, <2>2
  <2>4. f[k] = Placed(f[n], k, c) BY <1>3, <1>4, <1>14, <2>3 DEF Copying
  <2>5. Covered(f[n], n) /\ Merged(f[n].view, n) BY <2>1
  <2>6. Covered(Placed(f[n], k, c), k) BY <1>1, <1>6, <2>2, <2>3, <2>5, PlacedCovers
  <2>7. f[n] \in Copy_State BY <2>5 DEF Covered
  <2>8. Merged(Placed(f[n], k, c).view, k) BY <1>1, <2>2, <2>3, <2>5, <2>7, PlacedMerges
  <2> QED BY <2>2, <2>4, <2>6, <2>8
<1>17. T = Nat
  <2> HIDE DEF T
  <2>1. T \in SUBSET Nat BY DEF T
  <2> QED BY <1>15, <1>16, <2>1, InductionOnNat
<1>18. Covered(f[N], N) /\ Merged(f[N].view, N) BY <1>17
<1>19. PICK e \in Nat : Reaches(N, e) /\ ShownBy(f[N].view) = FromTo(2, e) BY <1>18 DEF Covered
<1>20. e = N
  <2>1. \A i \in DOMAIN runs : N <= runs[i].end => runs[i].end = N BY <1>1, <1>5
  <2> QED BY <1>1, <1>19, <2>1 DEF Reaches
<1> QED BY <1>1, <1>2, <1>14, <1>18, <1>19, <1>20

\* Between the readings, the runs are those of what the source was.
Ready == Intervals(runs, Len(source)) /\ known \in 1 .. Len(source) /\ Matches(runs, known)
ViewsIInv ==
    /\ GrownSource
    /\ stage = "detected" /\ Straight => Ready
    /\ stage = "done" /\ Straight =>
          Ready /\ ShownBy(view) = FromTo(2, Len(source)) /\ Merged(view, Len(source))

\* What text is among the nodes that were known does not change as others are added.
LEMMA SameRuns ==
  ASSUME NEW N \in Nat, known \in 1 .. N, known' = known, \A m \in 1 .. N : IsText(m)' <=> IsText(m)
  PROVE  \A a, b \in Nat : RunAmong(a, b, known)' <=> RunAmong(a, b, known)
<1> SUFFICES ASSUME NEW a \in Nat, NEW b \in Nat, 2 <= a, a <= b, b <= known
             PROVE  RunAmong(a, b, known)' <=> RunAmong(a, b, known)
  BY DEF RunAmong
<1>1. /\ a - 1 \in 1 .. N /\ (b < known => b + 1 \in 1 .. N)
      /\ \A n \in a .. b : n \in 1 .. N
  OBVIOUS
<1>2. (\A n \in a .. b : IsText(n))' <=> \A n \in a .. b : IsText(n) BY <1>1
<1>3. IsText(a - 1)' <=> IsText(a - 1) BY <1>1
<1>4. b < known => (IsText(b + 1)' <=> IsText(b + 1)) BY <1>1
<1> QED BY <1>2, <1>3, <1>4 DEF RunAmong

LEMMA ViewsInductive == ViewSpec => []ViewsIInv
<1>1. ViewInit => ViewsIInv
  <2>1. SUFFICES ASSUME ViewInit PROVE ViewsIInv OBVIOUS
  <2>2. PICK r : r = [parent |-> 0, kind |-> "root"] OBVIOUS
  <2>3. source = <<r>> /\ stage = "grow" BY <2>1, <2>2 DEF ViewInit
  <2>4. r \in SourceRow BY <2>2 DEF SourceRow
  <2>5. source \in Seq(SourceRow) /\ source # <<>> /\ source[1] = r /\ DOMAIN source = {1} BY <2>3, <2>4
  <2>6. GrownSource BY <2>2, <2>5 DEF GrownSource
  <2> QED BY <2>3, <2>6 DEF ViewsIInv
<1>2. ViewsIInv /\ [ViewNext]_viewVars => ViewsIInv'
  <2> SUFFICES ASSUME ViewsIInv, [ViewNext]_viewVars PROVE ViewsIInv' OBVIOUS
  <2>1. PICK N \in Nat : N = Len(source) /\ Rows = 1 .. N /\ N >= 1 BY SourceRows DEF ViewsIInv
  <2>2. ASSUME NEW p \in Rows, NEW kind \in {"text", "handle"}, GrowSource(p, kind) PROVE ViewsIInv'
    <3>1. PICK r, t : r = [parent |-> p, kind |-> kind] /\ t = Append(source, r) OBVIOUS
    <3>2. source' = t /\ UNCHANGED <<runs, view, stage, known>> /\ stage # "done"
      BY <2>2, <3>1 DEF GrowSource
    <3>3. r \in SourceRow /\ r.parent = p /\ r.kind = kind BY <2>1, <3>1 DEF SourceRow
    <3>4. source \in Seq(SourceRow) BY DEF ViewsIInv, GrownSource
    <3>5. /\ t \in Seq(SourceRow) /\ Len(t) = N + 1 /\ t # <<>>
          /\ DOMAIN t = 1 .. (N + 1) /\ DOMAIN source = 1 .. N
          /\ t[N + 1] = r /\ \A n \in 1 .. N : t[n] = source[n]
      BY <2>1, <3>1, <3>3, <3>4
    <3>6. \A n \in 1 .. (N + 1) : n = N + 1 \/ n \in 1 .. N OBVIOUS
    <3>7. GrownSource'
      <4>1. 1 \in 1 .. N BY <2>1
      <4>2. t[1] = [parent |-> 0, kind |-> "root"] BY <3>5, <4>1 DEF ViewsIInv, GrownSource
      <4>3. ASSUME NEW n \in 1 .. (N + 1), n # 1
            PROVE  t[n].parent \in 1 .. (n - 1) /\ t[n].kind \in {"text", "handle"}
        <5>1. CASE n = N + 1
          <6>1. n - 1 = N BY <5>1
          <6> QED BY <2>1, <3>3, <3>5, <5>1, <6>1
        <5>2. CASE n \in 1 .. N BY <3>5, <4>3, <5>2 DEF ViewsIInv, GrownSource
        <5> QED BY <3>6, <5>1, <5>2
      <4> QED BY <3>2, <3>5, <4>2, <4>3 DEF GrownSource
    <3>8. Straight' => Straight
      <4>1. \A n \in 1 .. N : n \in 1 .. (N + 1) OBVIOUS
      <4> QED BY <3>2, <3>5, <4>1 DEF Straight
    <3>9. ASSUME stage = "detected", Straight' PROVE Ready'
      <4>1. Intervals(runs, N) /\ known \in 1 .. N /\ Matches(runs, known) BY <2>1, <3>8, <3>9 DEF ViewsIInv, Ready
      <4>2. N + 1 \in Nat /\ N <= N + 1 OBVIOUS
      <4>3. Intervals(runs, N + 1) BY <4>1, <4>2, IntervalsGrow
      <4>4. Intervals(runs, Len(source))' BY <3>2, <3>5, <4>3 DEF Intervals
      <4>5. \A m \in 1 .. N : IsText(m)' <=> IsText(m) BY <3>2, <3>5 DEF IsText
      <4>6. \A a, b \in Nat : RunAmong(a, b, known)' <=> RunAmong(a, b, known)
        BY <2>1, <3>2, <4>1, <4>5, SameRuns
      <4>7. \A i \in DOMAIN runs : runs[i].start \in Nat /\ runs[i].end \in Nat
        <5>1. runs \in Seq(RunRow) BY <4>1 DEF Intervals
        <5>2. \A i \in DOMAIN runs : runs[i] \in RunRow BY <5>1
        <5> QED BY <5>2 DEF RunRow
      <4>8. Matches(runs, known)' BY <3>2, <4>1, <4>6, <4>7 DEF Matches, IsRun
      <4>9. known' \in 1 .. Len(source') BY <2>1, <3>2, <3>5, <4>1
      <4> QED BY <4>4, <4>8, <4>9 DEF Ready
    <3>10. (stage = "detected" /\ Straight => Ready)' BY <3>2, <3>9
    <3> QED BY <3>2, <3>7, <3>10 DEF ViewsIInv
  <2>3. CASE DetectTextRuns
    <3>1. PICK walk \in Walks : runs' = TextRuns(walk) BY <2>3 DEF DetectTextRuns
    <3>2. stage' = "detected" /\ UNCHANGED source /\ known' = Len(source) BY <2>3 DEF DetectTextRuns
    <3>3. GrownSource BY DEF ViewsIInv
    <3>4. GrownSource' BY <3>2, <3>3 DEF GrownSource
    <3>5. Straight => Intervals(runs', Len(source)) /\ Matches(runs', Len(source))
      <4>1. SUFFICES ASSUME Straight PROVE Intervals(runs', Len(source)) /\ Matches(runs', Len(source)) OBVIOUS
      <4>2. walk = FromTo(1, Len(source)) BY <3>3, <4>1, WalkOfChain
      <4> QED BY <3>1, <3>3, <4>1, <4>2, RunsOfChain
    <3>6. Straight' => Straight BY <3>2 DEF Straight
    <3>7. (Straight => Ready)'
      <4>1. SUFFICES ASSUME Straight' PROVE Ready' OBVIOUS
      <4>2. Intervals(runs', Len(source)) /\ Matches(runs', Len(source)) BY <3>5, <3>6, <4>1
      <4>3. Intervals(runs, Len(source))' BY <3>2, <4>2 DEF Intervals
      <4>4. Matches(runs, known)' BY <3>2, <4>2 DEF Matches, IsRun, RunAmong, IsText
      <4>5. known' \in 1 .. Len(source') BY <2>1, <3>2
      <4> QED BY <4>3, <4>4, <4>5 DEF Ready
    <3> QED BY <3>2, <3>4, <3>7 DEF ViewsIInv
  <2>4. CASE CollapseTextRuns
    <3>1. PICK walk \in Walks : view' = Copied(walk) BY <2>4 DEF CollapseTextRuns
    <3>2. stage = "detected" /\ stage' = "done" /\ UNCHANGED <<source, runs, known>> BY <2>4 DEF CollapseTextRuns
    <3>3. GrownSource BY DEF ViewsIInv
    <3>4. GrownSource' BY <3>2, <3>3 DEF GrownSource
    <3>5. Straight => ShownBy(view') = FromTo(2, Len(source)) /\ Merged(view', Len(source)) /\ Ready
      <4>1. SUFFICES ASSUME Straight
                     PROVE  ShownBy(view') = FromTo(2, Len(source)) /\ Merged(view', Len(source)) /\ Ready
        OBVIOUS
      <4>2. walk = FromTo(1, Len(source)) BY <3>3, <4>1, WalkOfChain
      <4>3. Ready /\ Intervals(runs, Len(source)) BY <3>2, <4>1 DEF ViewsIInv, Ready
      <4> QED BY <3>1, <3>3, <4>1, <4>2, <4>3, CopyOfChain
    <3>6. Straight' => Straight BY <3>2 DEF Straight
    <3>7. (Straight => Ready /\ ShownBy(view) = FromTo(2, Len(source)) /\ Merged(view, Len(source)))'
      <4>1. SUFFICES ASSUME Straight'
                     PROVE  (Ready /\ ShownBy(view) = FromTo(2, Len(source)) /\ Merged(view, Len(source)))'
        OBVIOUS
      <4>2. ShownBy(view') = FromTo(2, Len(source)) /\ Merged(view', Len(source)) /\ Ready BY <3>5, <3>6, <4>1
      <4>3. Ready' BY <3>2, <4>2 DEF Ready, Intervals, Matches, IsRun, RunAmong, IsText
      <4>4. Merged(view, Len(source))' BY <3>2, <4>2 DEF Merged, IsRow, FromTo
      <4> QED BY <3>2, <4>2, <4>3, <4>4 DEF ShownBy, FromTo
    <3> QED BY <3>2, <3>4, <3>7 DEF ViewsIInv
  <2>5. CASE UNCHANGED viewVars
    <3>1. UNCHANGED <<source, runs, view, stage, known>> BY <2>5 DEF viewVars
    <3>2. GrownSource' /\ (Straight' <=> Straight) BY <3>1 DEF ViewsIInv, GrownSource, Straight
    <3>3. Ready' <=> Ready BY <3>1 DEF Ready, Intervals, Matches, IsRun, RunAmong, IsText
    <3>4. Merged(view, Len(source))' <=> Merged(view, Len(source)) BY <3>1 DEF Merged, IsRow, FromTo
    <3>5. (ShownBy(view) = FromTo(2, Len(source)))' <=> ShownBy(view) = FromTo(2, Len(source))
      BY <3>1 DEF ShownBy, FromTo
    <3> QED BY <3>1, <3>2, <3>3, <3>4, <3>5 DEF ViewsIInv
  <2> QED BY <2>2, <2>3, <2>4, <2>5 DEF ViewNext
<1> QED BY <1>1, <1>2, PTL DEF ViewSpec

\* view_collapse_text_runs: for every conversation without branches, also one that goes
\* on between the two readings, the rows of the view are all of it once and in order,
\* the runs of text that were known merged and nothing else.
THEOREM ViewsMergeTheText == ViewSpec => []ChainIsMerged
<1>1. ViewsIInv => ChainIsMerged
  <2>1. SUFFICES ASSUME ViewsIInv, stage = "done", IsChain
                 PROVE  /\ ShownBy(view) = FromTo(2, Len(source))
                        /\ \A a, b \in Rows : TextRun(a, b) => \E v \in DOMAIN view : view[v].shown = FromTo(a, b)
                        /\ \A v \in DOMAIN view :
                              Len(view[v].shown) > 1
                              => \E a, b \in Rows : TextRun(a, b) /\ view[v].shown = FromTo(a, b)
    BY DEF ChainIsMerged, ShownBy
  <2>2. Straight BY <2>1, ChainIsStraight DEF ViewsIInv
  <2>3. Ready /\ ShownBy(view) = FromTo(2, Len(source)) /\ Merged(view, Len(source))
    BY <2>1, <2>2 DEF ViewsIInv
  <2>4. PICK N \in Nat : N = Len(source) /\ Rows = 1 .. N BY <2>1, SourceRows DEF ViewsIInv
  <2>5. Matches(runs, known) /\ known \in 1 .. N BY <2>3, <2>4 DEF Ready
  <2>6. \A a, b : TextRun(a, b) <=> RunAmong(a, b, known) BY DEF TextRun, RunAmong
  <2>7. ASSUME NEW a \in Rows, NEW b \in Rows, TextRun(a, b)
        PROVE  \E v \in DOMAIN view : view[v].shown = FromTo(a, b)
    <3>1. a \in Nat /\ b \in Nat /\ a <= N BY <2>4
    <3>2. PICK i \in DOMAIN runs : runs[i].start = a /\ runs[i].end = b
      BY <2>5, <2>6, <2>7, <3>1 DEF Matches, IsRun
    <3> QED BY <2>3, <2>4, <3>1, <3>2 DEF Merged, IsRow
  <2>8. ASSUME NEW v \in DOMAIN view, Len(view[v].shown) > 1
        PROVE  \E a, b \in Rows : TextRun(a, b) /\ view[v].shown = FromTo(a, b)
    <3>1. PICK i \in DOMAIN runs : view[v].shown = FromTo(runs[i].start, runs[i].end)
      BY <2>3, <2>8 DEF Merged, IsRow
    <3>2. TextRun(runs[i].start, runs[i].end) BY <2>5, <2>6 DEF Matches
    <3>3. runs[i].start \in Rows /\ runs[i].end \in Rows
      <4>1. runs \in Seq(RunRow) BY <2>3 DEF Ready, Intervals
      <4>2. runs[i] \in RunRow BY <4>1
      <4>3. runs[i].start \in Nat /\ runs[i].end \in Nat BY <4>2 DEF RunRow
      <4> QED BY <2>4, <2>5, <3>2, <4>3 DEF TextRun
    <3> QED BY <3>1, <3>2, <3>3
  <2> QED BY <2>3, <2>7, <2>8
<1> QED BY <1>1, ViewsInductive, PTL
=============================================================================
