------------------------- MODULE MeasuredRecursion -------------------------
(***************************************************************************)
(* Recursion and induction by a measure: over any set whose elements have  *)
(* a natural number that falls at every recursive call. The step of a      *)
(* recursion is given as a function, not as an operator, so that the       *)
(* lemmas can be used for a definition like any other fact.                *)
(***************************************************************************)
EXTENDS Naturals, WellFoundedInduction, TLAPS

\* Of the elements of a nonempty set, one has the least measure: an induction
\* is the absence of a least counterexample.
LEMMA LeastMeasure ==
  ASSUME NEW S, NEW m \in [S -> Nat], NEW T \in SUBSET S, T # {}
  PROVE  \E x \in T : \A y \in T : m[x] <= m[y]
<1> DEFINE R == OpToRel(<, Nat)
           M == {m[x] : x \in T}
<1>1. IsWellFoundedOn(R, Nat)
  BY NatLessThanWellFounded
<1>2. M \subseteq Nat /\ M # {}
  OBVIOUS
<1>3. PICK n \in M : \A k \in M : <<k, n>> \notin R
  <2> HIDE DEF M, R
  <2> QED BY <1>1, <1>2, WFMin
<1>4. PICK x \in T : m[x] = n
  BY <1>3
<1>5. ASSUME NEW y \in T PROVE m[x] <= m[y]
  <2>1. ~(m[y] < n)
    BY <1>3 DEF OpToRel
  <2> QED BY <2>1, <1>4
<1> QED BY <1>5

-----------------------------------------------------------------------------
\* A step of a recursion over S: from the values of a function below x to its
\* value at x.
IsStep(D, S, V) == D \in [S -> [[S -> V] -> V]]

\* It looks at no value but those of smaller measure.
IsLocal(D, S, V, m) ==
  \A x \in S : \A g, h \in [S -> V] :
    (\A y \in S : m[y] < m[x] => g[y] = h[y]) => D[x][g] = D[x][h]

\* g is the function the step defines, as far as measure n.
Upto(g, D, S, m, n) == \A x \in S : m[x] < n => g[x] = D[x][g]

\* The functions up to a measure agree below it.
LEMMA UptoUnique ==
  ASSUME NEW S, NEW V, NEW D, IsStep(D, S, V),
         NEW m \in [S -> Nat], IsLocal(D, S, V, m),
         NEW g \in [S -> V], NEW h \in [S -> V], NEW n \in Nat, NEW k \in Nat,
         Upto(g, D, S, m, n), Upto(h, D, S, m, k)
  PROVE  \A x \in S : m[x] < n /\ m[x] < k => g[x] = h[x]
<1> DEFINE T == {x \in S : m[x] < n /\ m[x] < k /\ g[x] # h[x]}
<1> SUFFICES ASSUME T # {} PROVE FALSE
  OBVIOUS
<1>1. PICK x \in T : \A y \in T : m[x] <= m[y]
  <2> HIDE DEF T
  <2>1. T \in SUBSET S
    BY DEF T
  <2> QED BY <2>1, LeastMeasure
<1>2. \A y \in S : m[y] < m[x] => g[y] = h[y]
  BY <1>1
<1>3. D[x][g] = D[x][h]
  BY <1>2 DEF IsLocal
<1> QED BY <1>3 DEF Upto

\* Up to every measure there is such a function.
LEMMA UptoExists ==
  ASSUME NEW S, NEW V, V # {}, NEW D, IsStep(D, S, V),
         NEW m \in [S -> Nat], IsLocal(D, S, V, m), NEW n \in Nat
  PROVE  \E g \in [S -> V] : Upto(g, D, S, m, n)
<1> DEFINE None == {k \in Nat : ~ \E g \in [S -> V] : Upto(g, D, S, m, k)}
<1> SUFFICES ASSUME None # {} PROVE FALSE
  OBVIOUS
<1>1. PICK k \in None : \A j \in None : k <= j
  <2> DEFINE id == [j \in Nat |-> j]
  <2>1. None \in SUBSET Nat /\ id \in [Nat -> Nat]
    OBVIOUS
  <2>2. \E x \in None : \A y \in None : id[x] <= id[y]
    <3> HIDE DEF None, id
    <3> QED BY <2>1, LeastMeasure
  <2> QED BY <2>2
<1>2. PICK v : v \in V
  OBVIOUS
<1>3. CASE k = 0
  <2>1. [x \in S |-> v] \in [S -> V] /\ Upto([x \in S |-> v], D, S, m, 0)
    BY <1>2 DEF Upto
  <2> QED BY <2>1, <1>3
<1>4. CASE k # 0
  <2>1. k - 1 \in Nat /\ k - 1 \notin None
    BY <1>1, <1>4
  <2>2. PICK g \in [S -> V] : Upto(g, D, S, m, k - 1)
    BY <2>1
  <2> DEFINE h == [x \in S |-> IF m[x] < k - 1 THEN g[x] ELSE D[x][g]]
  <2>3. \A x \in S : D[x][g] \in V
    BY DEF IsStep
  <2>4. h \in [S -> V]
    BY <2>3
  <2>5. ASSUME NEW x \in S, m[x] < k PROVE h[x] = D[x][h]
    <3>1. \A y \in S : m[y] < m[x] => g[y] = h[y]
      BY <2>5, <2>1
    <3>2. D[x][g] = D[x][h]
      <4> HIDE DEF h
      <4> QED BY <3>1, <2>4 DEF IsLocal
    <3>3. h[x] = D[x][g]
      BY <2>2 DEF Upto
    <3> QED BY <3>2, <3>3
  <2>6. Upto(h, D, S, m, k)
    BY <2>5 DEF Upto
  <2> HIDE DEF h
  <2> QED BY <2>4, <2>6, <1>1
<1> QED BY <1>3, <1>4

\* A step that only looks below defines a function on all of S.
LEMMA RecursionExists ==
  ASSUME NEW S, NEW V, V # {}, NEW D, IsStep(D, S, V),
         NEW m \in [S -> Nat], IsLocal(D, S, V, m)
  PROVE  \E f \in [S -> V] : f = [x \in S |-> D[x][f]]
<1> DEFINE G(n) == CHOOSE g \in [S -> V] : Upto(g, D, S, m, n)
<1>1. \A n \in Nat : G(n) \in [S -> V] /\ Upto(G(n), D, S, m, n)
  BY UptoExists
<1> DEFINE f == [x \in S |-> G(m[x] + 1)[x]]
<1> HIDE DEF G
<1>2. f \in [S -> V]
  BY <1>1
<1>3. ASSUME NEW x \in S PROVE f[x] = D[x][f]
  <2> DEFINE n == m[x] + 1
  <2>1. n \in Nat /\ m[x] < n
    OBVIOUS
  <2>2. ASSUME NEW y \in S, m[y] < m[x] PROVE G(n)[y] = f[y]
    <3>1. m[y] + 1 \in Nat /\ m[y] < m[y] + 1 /\ m[y] < n
      BY <2>2
    <3>2. G(n)[y] = G(m[y] + 1)[y]
      BY <1>1, <2>1, <3>1, UptoUnique
    <3> QED BY <3>2
  <2>3. D[x][G(n)] = D[x][f]
    <3> HIDE DEF f, n
    <3> QED BY <2>1, <2>2, <1>1, <1>2 DEF IsLocal
  <2>4. G(n)[x] = D[x][G(n)]
    BY <1>1, <2>1 DEF Upto
  <2> QED BY <2>3, <2>4
<1>4. f = [x \in S |-> D[x][f]]
  <2>1. \A x \in S : f[x] = D[x][f]
    BY <1>3
  <2> HIDE DEF f
  <2>2. f = [x \in S |-> f[x]]
    BY <1>2
  <2> QED BY <2>1, <2>2
<1> HIDE DEF f
<1> QED BY <1>2, <1>4
=============================================================================
