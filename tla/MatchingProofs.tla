--------------------------- MODULE MatchingProofs ---------------------------
(***************************************************************************)
(* The theorems of QueryByExample matching.                                *)
(*                                                                         *)
(* Subset, Extends, Relaxes, Opened and Within are defined by recursion on *)
(* JSON values: that each is the function its equation describes follows   *)
(* from RecursionExists, with the nesting of the values as the measure.    *)
(* What they do for every value is shown from a least counterexample: a    *)
(* value, pair or triple that nests least among those that refute the      *)
(* claim, whose parts are smaller and meet it (LeastMeasure).              *)
(***************************************************************************)
EXTENDS Matching, MeasuredRecursion

\* The parts of a value are values that nest less deep.
LEMMA PartsBelow ==
  ASSUME NEW t \in Values
  PROVE  /\ \A u \in Items(t) : u \in Values /\ Depth[u] < Depth[t]
         /\ \A u \in Elements(t) : u \in Values /\ Depth[u] <= Depth[t]
         /\ IsArray(t) => \A u \in Elements(t) : Depth[u] < Depth[t]
         /\ \A k \in Keys(t) : t.object[k] \in Values /\ Depth[t.object[k]] < Depth[t]
<1>1. Items(t) \subseteq Values
  BY JsonAssumption DEF Items, ToSet, IsLeaf, IsArray, IsObject
<1>2. \A k \in Keys(t) : t.object[k] \in Values
  BY JsonAssumption DEF Keys, IsLeaf, IsArray, IsObject
<1> QED
  BY <1>1, <1>2, JsonAssumption DEF Parts, Elements

\* The measure of a recursion over pairs.
Sum == [p \in Pairs |-> Depth[p[1]] + Depth[p[2]]]

\* Sum is a number for every pair, the sum of what the two nest.
LEMMA SumType ==
  /\ Sum \in [Pairs -> Nat]
  /\ \A w, h \in Values : Sum[<<w, h>>] = Depth[w] + Depth[h]
BY JsonAssumption DEF Sum, Pairs

\* One step of value_is_subset (matching.rs 16), with f for the recursive call.
SubsetStep(f, w, h) ==
  \/ w = AnyValue
  \/ IsObject(w) /\ IsObject(h) /\
       \A k \in Keys(w) : k \in Keys(h) /\ f[<<w.object[k], h.object[k]>>]
  \/ ~IsArray(w) /\ IsArray(h) /\ \E he \in Elements(h) : f[<<w, he>>]
  \/ IsArray(w) /\ \A we \in Elements(w) : \E he \in Elements(h) : f[<<we, he>>]
  \/ IsLeaf(w) /\ w = h

\* Subset is the function its equation describes: value_is_subset only calls
\* itself with one side or both nested less deep, and so ends.
LEMMA SubsetFcn ==
  /\ Subset = [p \in Pairs |-> SubsetStep(Subset, p[1], p[2])]
  /\ Subset \in [Pairs -> BOOLEAN]
<1> DEFINE D == [p \in Pairs |-> [f \in [Pairs -> BOOLEAN] |-> SubsetStep(f, p[1], p[2])]]
           P(f) == f = [p \in Pairs |-> SubsetStep(f, p[1], p[2])]
<1>1. IsStep(D, Pairs, BOOLEAN)
  BY DEF IsStep, SubsetStep
<1>2. IsLocal(D, Pairs, BOOLEAN, Sum)
  <2> SUFFICES ASSUME NEW p \in Pairs, NEW f \in [Pairs -> BOOLEAN], NEW g \in [Pairs -> BOOLEAN],
                      \A q \in Pairs : Sum[q] < Sum[p] => f[q] = g[q]
               PROVE  D[p][f] = D[p][g]
    BY DEF IsLocal
  <2> DEFINE w == p[1]
             h == p[2]
  <2>1. w \in Values /\ h \in Values /\ Sum[p] = Depth[w] + Depth[h] /\ p = <<w, h>>
    BY SumType DEF Pairs
  <2>2. \A a, b \in Values : Depth[a] + Depth[b] < Depth[w] + Depth[h] => f[<<a, b>>] = g[<<a, b>>]
    BY <2>1, SumType DEF Pairs
  <2> HIDE DEF w, h
  <2>3. \A k \in Keys(w) : k \in Keys(h) => f[<<w.object[k], h.object[k]>>] = g[<<w.object[k], h.object[k]>>]
    BY <2>1, <2>2, PartsBelow, JsonAssumption
  <2>4. IsArray(h) => \A he \in Elements(h) : f[<<w, he>>] = g[<<w, he>>]
    BY <2>1, <2>2, PartsBelow, JsonAssumption
  <2>5. IsArray(w) => \A we \in Elements(w), he \in Elements(h) : f[<<we, he>>] = g[<<we, he>>]
    <3> SUFFICES ASSUME IsArray(w), NEW we \in Elements(w), NEW he \in Elements(h)
                 PROVE  f[<<we, he>>] = g[<<we, he>>]
      OBVIOUS
    <3>1. we \in Values /\ Depth[we] < Depth[w]
      BY <2>1, PartsBelow
    <3>2. he \in Values /\ Depth[he] <= Depth[h]
      BY <2>1, PartsBelow
    <3> QED BY <2>1, <2>2, <3>1, <3>2, JsonAssumption
  <2>6. SubsetStep(f, w, h) = SubsetStep(g, w, h)
    BY <2>3, <2>4, <2>5 DEF SubsetStep
  <2> QED BY <2>1, <2>6 DEF w, h
<1>3. \E f : P(f)
  <2>1. PICK f \in [Pairs -> BOOLEAN] : f = [p \in Pairs |-> D[p][f]]
    <3>1. BOOLEAN # {}
      OBVIOUS
    <3> HIDE DEF D
    <3> QED BY <3>1, <1>1, <1>2, SumType, RecursionExists
  <2>2. \A p \in Pairs : D[p][f] = SubsetStep(f, p[1], p[2])
    BY <2>1
  <2> QED BY <2>1, <2>2
<1>4. Subset = CHOOSE f : P(f)
  BY DEF Subset, SubsetStep
<1>5. P(Subset)
  <2> HIDE DEF P
  <2> QED BY <1>3, <1>4
<1>6. Subset \in [Pairs -> BOOLEAN]
  <2>1. [p \in Pairs |-> SubsetStep(Subset, p[1], p[2])] \in [Pairs -> BOOLEAN]
    BY DEF SubsetStep
  <2> QED BY <1>5, <2>1
<1> QED BY <1>5, <1>6

\* One step of Extends, with f for the recursive call.
ExtendsStep(f, h, g) ==
  \/ h = g
  \/ IsObject(h) /\ IsObject(g) /\
       \A k \in Keys(h) : k \in Keys(g) /\ f[<<h.object[k], g.object[k]>>]
  \/ IsArray(g) /\ \A he \in Elements(h) : \E ge \in Elements(g) : f[<<he, ge>>]

\* Extends is the function its equation describes.
LEMMA ExtendsFcn ==
  /\ Extends = [p \in Pairs |-> ExtendsStep(Extends, p[1], p[2])]
  /\ Extends \in [Pairs -> BOOLEAN]
<1> DEFINE D == [p \in Pairs |-> [f \in [Pairs -> BOOLEAN] |-> ExtendsStep(f, p[1], p[2])]]
           P(f) == f = [p \in Pairs |-> ExtendsStep(f, p[1], p[2])]
<1>1. IsStep(D, Pairs, BOOLEAN)
  BY DEF IsStep, ExtendsStep
<1>2. IsLocal(D, Pairs, BOOLEAN, Sum)
  <2> SUFFICES ASSUME NEW p \in Pairs, NEW f \in [Pairs -> BOOLEAN], NEW g \in [Pairs -> BOOLEAN],
                      \A q \in Pairs : Sum[q] < Sum[p] => f[q] = g[q]
               PROVE  D[p][f] = D[p][g]
    BY DEF IsLocal
  <2> DEFINE a == p[1]
             b == p[2]
  <2>1. a \in Values /\ b \in Values /\ Sum[p] = Depth[a] + Depth[b] /\ p = <<a, b>>
    BY SumType DEF Pairs
  <2>2. \A c, d \in Values : Depth[c] + Depth[d] < Depth[a] + Depth[b] => f[<<c, d>>] = g[<<c, d>>]
    BY <2>1, SumType DEF Pairs
  <2> HIDE DEF a, b
  <2>3. \A k \in Keys(a) : k \in Keys(b) => f[<<a.object[k], b.object[k]>>] = g[<<a.object[k], b.object[k]>>]
    BY <2>1, <2>2, PartsBelow, JsonAssumption
  <2>4. IsArray(b) => \A ae \in Elements(a), be \in Elements(b) : f[<<ae, be>>] = g[<<ae, be>>]
    <3> SUFFICES ASSUME IsArray(b), NEW ae \in Elements(a), NEW be \in Elements(b)
                 PROVE  f[<<ae, be>>] = g[<<ae, be>>]
      OBVIOUS
    <3>1. ae \in Values /\ Depth[ae] <= Depth[a]
      BY <2>1, PartsBelow
    <3>2. be \in Values /\ Depth[be] < Depth[b]
      BY <2>1, PartsBelow
    <3> QED BY <2>1, <2>2, <3>1, <3>2, JsonAssumption
  <2>6. ExtendsStep(f, a, b) = ExtendsStep(g, a, b)
    BY <2>3, <2>4 DEF ExtendsStep
  <2> QED BY <2>1, <2>6 DEF a, b
<1>3. \E f : P(f)
  <2>1. PICK f \in [Pairs -> BOOLEAN] : f = [p \in Pairs |-> D[p][f]]
    <3>1. BOOLEAN # {}
      OBVIOUS
    <3> HIDE DEF D
    <3> QED BY <3>1, <1>1, <1>2, SumType, RecursionExists
  <2>2. \A p \in Pairs : D[p][f] = ExtendsStep(f, p[1], p[2])
    BY <2>1
  <2> QED BY <2>1, <2>2
<1>4. Extends = CHOOSE f : P(f)
  BY DEF Extends, ExtendsStep
<1>5. P(Extends)
  <2> HIDE DEF P
  <2> QED BY <1>3, <1>4
<1>6. Extends \in [Pairs -> BOOLEAN]
  <2>1. [p \in Pairs |-> ExtendsStep(Extends, p[1], p[2])] \in [Pairs -> BOOLEAN]
    BY DEF ExtendsStep
  <2> QED BY <1>5, <2>1
<1> QED BY <1>5, <1>6

\* One step of Relaxes, with f for the recursive call.
RelaxesStep(f, w, v) ==
  \/ v = AnyValue
  \/ v = w
  \/ IsObject(w) /\ IsObject(v) /\
       \A k \in Keys(v) : k \in Keys(w) /\ f[<<w.object[k], v.object[k]>>]
  \/ IsArray(w) /\ IsArray(v) /\
       \A ve \in Items(v) : \E we \in Items(w) : f[<<we, ve>>]

\* Relaxes is the function its equation describes.
LEMMA RelaxesFcn ==
  /\ Relaxes = [p \in Pairs |-> RelaxesStep(Relaxes, p[1], p[2])]
  /\ Relaxes \in [Pairs -> BOOLEAN]
<1> DEFINE D == [p \in Pairs |-> [f \in [Pairs -> BOOLEAN] |-> RelaxesStep(f, p[1], p[2])]]
           P(f) == f = [p \in Pairs |-> RelaxesStep(f, p[1], p[2])]
<1>1. IsStep(D, Pairs, BOOLEAN)
  BY DEF IsStep, RelaxesStep
<1>2. IsLocal(D, Pairs, BOOLEAN, Sum)
  <2> SUFFICES ASSUME NEW p \in Pairs, NEW f \in [Pairs -> BOOLEAN], NEW g \in [Pairs -> BOOLEAN],
                      \A q \in Pairs : Sum[q] < Sum[p] => f[q] = g[q]
               PROVE  D[p][f] = D[p][g]
    BY DEF IsLocal
  <2> DEFINE a == p[1]
             b == p[2]
  <2>1. a \in Values /\ b \in Values /\ Sum[p] = Depth[a] + Depth[b] /\ p = <<a, b>>
    BY SumType DEF Pairs
  <2>2. \A c, d \in Values : Depth[c] + Depth[d] < Depth[a] + Depth[b] => f[<<c, d>>] = g[<<c, d>>]
    BY <2>1, SumType DEF Pairs
  <2> HIDE DEF a, b
  <2>3. \A k \in Keys(b) : k \in Keys(a) => f[<<a.object[k], b.object[k]>>] = g[<<a.object[k], b.object[k]>>]
    BY <2>1, <2>2, PartsBelow, JsonAssumption
  <2>4. \A ae \in Items(a), be \in Items(b) : f[<<ae, be>>] = g[<<ae, be>>]
    <3> SUFFICES ASSUME NEW ae \in Items(a), NEW be \in Items(b)
                 PROVE  f[<<ae, be>>] = g[<<ae, be>>]
      OBVIOUS
    <3>1. ae \in Values /\ Depth[ae] < Depth[a]
      BY <2>1, PartsBelow
    <3>2. be \in Values /\ Depth[be] < Depth[b]
      BY <2>1, PartsBelow
    <3> QED BY <2>1, <2>2, <3>1, <3>2, JsonAssumption
  <2>6. RelaxesStep(f, a, b) = RelaxesStep(g, a, b)
    BY <2>3, <2>4 DEF RelaxesStep
  <2> QED BY <2>1, <2>6 DEF a, b
<1>3. \E f : P(f)
  <2>1. PICK f \in [Pairs -> BOOLEAN] : f = [p \in Pairs |-> D[p][f]]
    <3>1. BOOLEAN # {}
      OBVIOUS
    <3> HIDE DEF D
    <3> QED BY <3>1, <1>1, <1>2, SumType, RecursionExists
  <2>2. \A p \in Pairs : D[p][f] = RelaxesStep(f, p[1], p[2])
    BY <2>1
  <2> QED BY <2>1, <2>2
<1>4. Relaxes = CHOOSE f : P(f)
  BY DEF Relaxes, RelaxesStep
<1>5. P(Relaxes)
  <2> HIDE DEF P
  <2> QED BY <1>3, <1>4
<1>6. Relaxes \in [Pairs -> BOOLEAN]
  <2>1. [p \in Pairs |-> RelaxesStep(Relaxes, p[1], p[2])] \in [Pairs -> BOOLEAN]
    BY DEF RelaxesStep
  <2> QED BY <1>5, <2>1
<1> QED BY <1>5, <1>6

\* A node: a path of keys and a value.
Node == Seq(Names) \X Values

\* The path to a value itself is a path.
LEMMA EmptyPath == <<>> \in Seq(Names)
OBVIOUS

\* Keys are names.
LEMMA KeysNamed ==
  ASSUME NEW t \in Values
  PROVE  Keys(t) \subseteq Names
BY JsonAssumption DEF Keys, IsLeaf, IsArray, IsObject

\* Below a key, nodes are nodes.
LEMMA UnderType ==
  ASSUME NEW k \in Names, NEW nodes \in SUBSET Node
  PROVE  Under(k, nodes) \in SUBSET Node
<1> SUFFICES ASSUME NEW n \in nodes PROVE <<<<k>> \o n[1], n[2]>> \in Node
  BY DEF Under
<1>1. n[1] \in Seq(Names) /\ n[2] \in Values
  BY DEF Node
<1>2. <<k>> \o n[1] \in Seq(Names)
  BY <1>1
<1> QED BY <1>1, <1>2 DEF Node

\* One step of Opened, with f for the recursive call.
OpenedStep(f, t) ==
  {<<<<>>, t>>} \cup UNION {Under(k, f[t.object[k]]) : k \in Keys(t)}

\* Opened is the function its equation describes.
LEMMA OpenedFcn ==
  /\ Opened = [t \in Values |-> OpenedStep(Opened, t)]
  /\ Opened \in [Values -> SUBSET Node]
<1> DEFINE D == [t \in Values |-> [f \in [Values -> SUBSET Node] |-> OpenedStep(f, t)]]
           P(f) == f = [t \in Values |-> OpenedStep(f, t)]
<1>1. \A f \in [Values -> SUBSET Node] : \A t \in Values : OpenedStep(f, t) \in SUBSET Node
  <2> SUFFICES ASSUME NEW f \in [Values -> SUBSET Node], NEW t \in Values
               PROVE  OpenedStep(f, t) \in SUBSET Node
    OBVIOUS
  <2>1. <<<<>>, t>> \in Node
    BY EmptyPath DEF Node
  <2>2. \A k \in Keys(t) : Under(k, f[t.object[k]]) \in SUBSET Node
    BY PartsBelow, KeysNamed, UnderType
  <2> QED BY <2>1, <2>2 DEF OpenedStep
<1>2. IsStep(D, Values, SUBSET Node)
  BY <1>1 DEF IsStep
<1>3. IsLocal(D, Values, SUBSET Node, Depth)
  <2> SUFFICES ASSUME NEW t \in Values, NEW f \in [Values -> SUBSET Node], NEW g \in [Values -> SUBSET Node],
                      \A u \in Values : Depth[u] < Depth[t] => f[u] = g[u]
               PROVE  D[t][f] = D[t][g]
    BY DEF IsLocal
  <2>1. \A k \in Keys(t) : f[t.object[k]] = g[t.object[k]]
    BY PartsBelow
  <2>2. OpenedStep(f, t) = OpenedStep(g, t)
    BY <2>1 DEF OpenedStep
  <2> QED BY <2>2
<1>4. \E f : f \in [Values -> SUBSET Node] /\ P(f)
  <2>1. PICK f \in [Values -> SUBSET Node] : f = [t \in Values |-> D[t][f]]
    <3> DEFINE V == SUBSET Node
    <3>1. V # {} /\ Depth \in [Values -> Nat]
      BY JsonAssumption
    <3>2. IsStep(D, Values, V) /\ IsLocal(D, Values, V, Depth)
      BY <1>2, <1>3
    <3> HIDE DEF D, V
    <3>3. \E f \in [Values -> V] : f = [t \in Values |-> D[t][f]]
      BY <3>1, <3>2, RecursionExists
    <3> QED BY <3>3 DEF V
  <2>2. \A t \in Values : D[t][f] = OpenedStep(f, t)
    BY <2>1
  <2> QED BY <2>1, <2>2
<1>5. Opened = CHOOSE f : P(f)
  BY DEF Opened, OpenedStep
<1>6. P(Opened)
  <2> HIDE DEF P
  <2> QED BY <1>4, <1>5
<1>7. ASSUME NEW t \in Values PROVE Opened[t] \in SUBSET Node
  <2> DEFINE T == {u \in Values : Opened[u] \notin SUBSET Node}
  <2> SUFFICES ASSUME T # {} PROVE FALSE
    OBVIOUS
  <2>1. PICK u \in T : \A v \in T : Depth[u] <= Depth[v]
    <3>1. T \in SUBSET Values /\ Depth \in [Values -> Nat]
      BY JsonAssumption
    <3> HIDE DEF T
    <3> QED BY <3>1, LeastMeasure
  <2> DEFINE f == [v \in Values |-> IF v \in T THEN {} ELSE Opened[v]]
  <2>2. f \in [Values -> SUBSET Node]
    OBVIOUS
  <2>3. \A v \in Values : Depth[v] < Depth[u] => f[v] = Opened[v]
    BY <2>1, JsonAssumption
  <2>4. \A k \in Keys(u) : f[u.object[k]] = Opened[u.object[k]]
    BY <2>3, PartsBelow
  <2> HIDE DEF f
  <2>5. Opened[u] = OpenedStep(f, u)
    <3>1. Opened[u] = OpenedStep(Opened, u)
      BY <1>6
    <3>2. OpenedStep(Opened, u) = OpenedStep(f, u)
      BY <2>4 DEF OpenedStep
    <3> QED BY <3>1, <3>2
  <2> QED BY <1>1, <2>2, <2>5
<1>8. Opened = [t \in Values |-> Opened[t]]
  BY <1>6
<1> HIDE DEF P
<1>9. Opened \in [Values -> SUBSET Node]
  BY <1>7, <1>8
<1> QED BY <1>6, <1>9 DEF P

\* One step of Within, with f for the recursive call.
WithinStep(f, t) ==
  {<<<<>>, t>>}
  \cup (UNION {f[u] : u \in Items(t)})
  \cup (UNION {Under(k, f[t.object[k]]) : k \in Keys(t)})

\* Within is the function its equation describes.
LEMMA WithinFcn ==
  /\ Within = [t \in Values |-> WithinStep(Within, t)]
  /\ Within \in [Values -> SUBSET Node]
<1> DEFINE D == [t \in Values |-> [f \in [Values -> SUBSET Node] |-> WithinStep(f, t)]]
           P(f) == f = [t \in Values |-> WithinStep(f, t)]
<1>1. \A f \in [Values -> SUBSET Node] : \A t \in Values : WithinStep(f, t) \in SUBSET Node
  <2> SUFFICES ASSUME NEW f \in [Values -> SUBSET Node], NEW t \in Values
               PROVE  WithinStep(f, t) \in SUBSET Node
    OBVIOUS
  <2>1. <<<<>>, t>> \in Node
    BY EmptyPath DEF Node
  <2>2. \A k \in Keys(t) : Under(k, f[t.object[k]]) \in SUBSET Node
    BY PartsBelow, KeysNamed, UnderType
  <2>3. \A u \in Items(t) : f[u] \in SUBSET Node
    BY PartsBelow
  <2>4. UNION {f[u] : u \in Items(t)} \in SUBSET Node
    BY <2>3
  <2>5. UNION {Under(k, f[t.object[k]]) : k \in Keys(t)} \in SUBSET Node
    BY <2>2
  <2>6. {<<<<>>, t>>} \in SUBSET Node
    BY <2>1
  <2> QED
    <3> DEFINE A == UNION {f[u] : u \in Items(t)}
               B == UNION {Under(k, f[t.object[k]]) : k \in Keys(t)}
               C == {<<<<>>, t>>}
    <3>1. A \in SUBSET Node /\ B \in SUBSET Node /\ C \in SUBSET Node
      BY <2>4, <2>5, <2>6
    <3>2. WithinStep(f, t) = C \cup A \cup B
      BY DEF WithinStep
    <3> HIDE DEF A, B, C
    <3> QED BY <3>1, <3>2
<1>2. IsStep(D, Values, SUBSET Node)
  BY <1>1 DEF IsStep
<1>3. IsLocal(D, Values, SUBSET Node, Depth)
  <2> SUFFICES ASSUME NEW t \in Values, NEW f \in [Values -> SUBSET Node], NEW g \in [Values -> SUBSET Node],
                      \A u \in Values : Depth[u] < Depth[t] => f[u] = g[u]
               PROVE  D[t][f] = D[t][g]
    BY DEF IsLocal
  <2>1. \A k \in Keys(t) : f[t.object[k]] = g[t.object[k]]
    BY PartsBelow
  <2>2. \A u \in Items(t) : f[u] = g[u]
    BY PartsBelow
  <2>3. WithinStep(f, t) = WithinStep(g, t)
    BY <2>1, <2>2 DEF WithinStep
  <2> QED BY <2>3
<1>4. \E f : f \in [Values -> SUBSET Node] /\ P(f)
  <2>1. PICK f \in [Values -> SUBSET Node] : f = [t \in Values |-> D[t][f]]
    <3> DEFINE V == SUBSET Node
    <3>1. V # {} /\ Depth \in [Values -> Nat]
      BY JsonAssumption
    <3>2. IsStep(D, Values, V) /\ IsLocal(D, Values, V, Depth)
      BY <1>2, <1>3
    <3> HIDE DEF D, V
    <3>3. \E f \in [Values -> V] : f = [t \in Values |-> D[t][f]]
      BY <3>1, <3>2, RecursionExists
    <3> QED BY <3>3 DEF V
  <2>2. \A t \in Values : D[t][f] = WithinStep(f, t)
    BY <2>1
  <2> QED BY <2>1, <2>2
<1>5. Within = CHOOSE f : P(f)
  BY DEF Within, WithinStep
<1>6. P(Within)
  <2> HIDE DEF P
  <2> QED BY <1>4, <1>5
<1>7. ASSUME NEW t \in Values PROVE Within[t] \in SUBSET Node
  <2> DEFINE T == {u \in Values : Within[u] \notin SUBSET Node}
  <2> SUFFICES ASSUME T # {} PROVE FALSE
    OBVIOUS
  <2>1. PICK u \in T : \A v \in T : Depth[u] <= Depth[v]
    <3>1. T \in SUBSET Values /\ Depth \in [Values -> Nat]
      BY JsonAssumption
    <3> HIDE DEF T
    <3> QED BY <3>1, LeastMeasure
  <2> DEFINE f == [v \in Values |-> IF v \in T THEN {} ELSE Within[v]]
  <2>2. f \in [Values -> SUBSET Node]
    OBVIOUS
  <2>3. \A v \in Values : Depth[v] < Depth[u] => f[v] = Within[v]
    BY <2>1, JsonAssumption
  <2>4. \A k \in Keys(u) : f[u.object[k]] = Within[u.object[k]]
    BY <2>3, PartsBelow
  <2>5. \A v \in Items(u) : f[v] = Within[v]
    BY <2>3, PartsBelow
  <2> HIDE DEF f
  <2>6. Within[u] = WithinStep(f, u)
    <3>1. Within[u] = WithinStep(Within, u)
      BY <1>6
    <3>2. WithinStep(Within, u) = WithinStep(f, u)
      BY <2>4, <2>5 DEF WithinStep
    <3> QED BY <3>1, <3>2
  <2> QED BY <1>1, <2>2, <2>6
<1>8. Within = [t \in Values |-> Within[t]]
  BY <1>6
<1> HIDE DEF P
<1>9. Within \in [Values -> SUBSET Node]
  BY <1>7, <1>8
<1> QED BY <1>6, <1>9 DEF P

-----------------------------------------------------------------------------
(* The matcher as a relation.                                              *)

\* value_is_subset of two values, by its equation.
LEMMA SubsetDef ==
  ASSUME NEW w \in Values, NEW h \in Values
  PROVE  Subset[<<w, h>>] <=> SubsetStep(Subset, w, h)
<1>1. <<w, h>> \in Pairs
  BY DEF Pairs
<1>2. Subset[<<w, h>>] = SubsetStep(Subset, w, h)
  BY <1>1, SubsetFcn
<1> QED BY <1>2

\* Extends of two values, by its equation.
LEMMA ExtendsDef ==
  ASSUME NEW h \in Values, NEW g \in Values
  PROVE  Extends[<<h, g>>] <=> ExtendsStep(Extends, h, g)
<1>1. <<h, g>> \in Pairs
  BY DEF Pairs
<1>2. Extends[<<h, g>>] = ExtendsStep(Extends, h, g)
  BY <1>1, ExtendsFcn
<1> QED BY <1>2

\* Relaxes of two values, by its equation.
LEMMA RelaxesDef ==
  ASSUME NEW w \in Values, NEW v \in Values
  PROVE  Relaxes[<<w, v>>] <=> RelaxesStep(Relaxes, w, v)
<1>1. <<w, v>> \in Pairs
  BY DEF Pairs
<1>2. Relaxes[<<w, v>>] = RelaxesStep(Relaxes, w, v)
  BY <1>1, RelaxesFcn
<1> QED BY <1>2

\* What a value is, it is not otherwise.
LEMMA OneKind ==
  ASSUME NEW t \in Values
  PROVE  /\ IsLeaf(t) \/ IsArray(t) \/ IsObject(t)
         /\ ~(IsLeaf(t) /\ IsArray(t)) /\ ~(IsLeaf(t) /\ IsObject(t))
         /\ ~(IsArray(t) /\ IsObject(t))
<1>1. {"leaf"} # {"array"} /\ {"leaf"} # {"object"} /\ {"array"} # {"object"}
  <2>1. "leaf" # "array" /\ "leaf" # "object" /\ "array" # "object"
    OBVIOUS
  <2> QED BY <2>1
<1> QED BY <1>1, JsonAssumption DEF IsLeaf, IsArray, IsObject

\* The empty string and null are neither arrays nor objects.
LEMMA AnyIsLeaf == IsLeaf(AnyValue) /\ IsLeaf(Null)
BY DEF IsLeaf, AnyValue, Null, Leaf

\* Every value asks for no more than itself.
LEMMA SubsetReflexive == \A t \in Values : Subset[<<t, t>>]
<1> DEFINE T == {t \in Values : ~Subset[<<t, t>>]}
<1> SUFFICES ASSUME T # {} PROVE FALSE
  OBVIOUS
<1>1. PICK t \in T : \A u \in T : Depth[t] <= Depth[u]
  <2>1. T \in SUBSET Values /\ Depth \in [Values -> Nat]
    BY JsonAssumption
  <2> HIDE DEF T
  <2> QED BY <2>1, LeastMeasure
<1>2. t \in Values /\ ~Subset[<<t, t>>]
  OBVIOUS
<1>3. \A u \in Values : Depth[u] < Depth[t] => Subset[<<u, u>>]
  BY <1>1, JsonAssumption
<1> HIDE DEF T
<1>4. CASE IsLeaf(t)
  BY <1>2, <1>4, SubsetDef DEF SubsetStep
<1>5. CASE IsArray(t)
  <2>1. \A u \in Elements(t) : Subset[<<u, u>>]
    BY <1>2, <1>3, <1>5, PartsBelow
  <2> QED BY <1>2, <1>5, <2>1, SubsetDef DEF SubsetStep
<1>6. CASE IsObject(t)
  <2>1. \A k \in Keys(t) : Subset[<<t.object[k], t.object[k]>>]
    BY <1>2, <1>3, PartsBelow
  <2> QED BY <1>2, <1>6, <2>1, SubsetDef DEF SubsetStep
<1> QED BY <1>2, <1>4, <1>5, <1>6, OneKind

\* The measure of an induction over three values at once.
Triples == Values \X Values \X Values

\* What the three of a triple nest together.
Sum3 == [p \in Triples |-> Depth[p[1]] + Depth[p[2]] + Depth[p[3]]]

\* Of a nonempty set of triples, one nests least.
LeastIn(T, a, b, c) ==
  /\ <<a, b, c>> \in T
  /\ \A x, y, z \in Values :
       <<x, y, z>> \in T =>
         Depth[a] + Depth[b] + Depth[c] <= Depth[x] + Depth[y] + Depth[z]

\* There is such a triple.
LEMMA LeastTriple ==
  ASSUME NEW T \in SUBSET Triples, T # {}
  PROVE  \E a, b, c \in Values : LeastIn(T, a, b, c)
<1>1. /\ Sum3 \in [Triples -> Nat]
      /\ \A x, y, z \in Values : Sum3[<<x, y, z>>] = Depth[x] + Depth[y] + Depth[z]
  BY JsonAssumption DEF Sum3, Triples
<1>2. PICK p \in T : \A q \in T : Sum3[p] <= Sum3[q]
  BY <1>1, LeastMeasure
<1>3. PICK a, b, c \in Values : p = <<a, b, c>>
  BY <1>2 DEF Triples
<1>4. ASSUME NEW x \in Values, NEW y \in Values, NEW z \in Values, <<x, y, z>> \in T
      PROVE  Depth[a] + Depth[b] + Depth[c] <= Depth[x] + Depth[y] + Depth[z]
  <2>1. Sum3[p] <= Sum3[<<x, y, z>>]
    BY <1>2, <1>4
  <2> QED BY <2>1, <1>1, <1>3
<1>5. <<a, b, c>> \in T
  BY <1>2, <1>3
<1>6. LeastIn(T, a, b, c)
  BY <1>4, <1>5 DEF LeastIn
<1> QED BY <1>6

\* What is asked of a value is met by one that says more.
THEOREM ExtendsKeeps ==
  \A w, h, g \in Values : Subset[<<w, h>>] /\ Extends[<<h, g>>] => Subset[<<w, g>>]
<1> DEFINE Bad(w, h, g) == Subset[<<w, h>>] /\ Extends[<<h, g>>] /\ ~Subset[<<w, g>>]
           T == {p \in Triples : Bad(p[1], p[2], p[3])}
<1>1. \A a, b, c \in Values : <<a, b, c>> \in T <=> Bad(a, b, c)
  BY DEF Triples
<1> SUFFICES ASSUME T # {} PROVE FALSE
  BY <1>1
<1>2. PICK w, h, g \in Values : LeastIn(T, w, h, g)
  <2>1. T \in SUBSET Triples
    OBVIOUS
  <2> HIDE DEF T
  <2> QED BY <2>1, LeastTriple
<1>3. Subset[<<w, h>>] /\ Extends[<<h, g>>] /\ ~Subset[<<w, g>>]
  BY <1>1, <1>2 DEF LeastIn
<1>4. ASSUME NEW x \in Values, NEW y \in Values, NEW z \in Values,
             Subset[<<x, y>>], Extends[<<y, z>>],
             Depth[x] + Depth[y] + Depth[z] < Depth[w] + Depth[h] + Depth[g]
      PROVE  Subset[<<x, z>>]
  <2>1. Depth[x] \in Nat /\ Depth[y] \in Nat /\ Depth[z] \in Nat
        /\ Depth[w] \in Nat /\ Depth[h] \in Nat /\ Depth[g] \in Nat
    BY JsonAssumption
  <2>2. <<x, y, z>> \notin T
    BY <1>2, <1>4, <2>1 DEF LeastIn
  <2> QED BY <1>1, <1>4, <2>2
<1> HIDE DEF T, Bad
<1>9. /\ Depth[w] \in Nat /\ Depth[h] \in Nat /\ Depth[g] \in Nat
  BY JsonAssumption
<1>5. w # AnyValue
  BY <1>3, SubsetDef DEF SubsetStep
<1>6. CASE IsObject(h) /\ IsObject(g) /\
             \A k \in Keys(h) : k \in Keys(g) /\ Extends[<<h.object[k], g.object[k]>>]
  <2>1. CASE IsObject(w)
    <3>1. \A k \in Keys(w) : k \in Keys(h) /\ Subset[<<w.object[k], h.object[k]>>]
      BY <1>3, <1>5, <1>6, <2>1, OneKind, SubsetDef DEF SubsetStep
    <3>2. ASSUME NEW k \in Keys(w) PROVE k \in Keys(g) /\ Subset[<<w.object[k], g.object[k]>>]
      <4>1. k \in Keys(h) /\ k \in Keys(g)
        BY <3>1, <1>6
      <4>2. /\ w.object[k] \in Values /\ Depth[w.object[k]] < Depth[w]
            /\ h.object[k] \in Values /\ Depth[h.object[k]] < Depth[h]
            /\ g.object[k] \in Values /\ Depth[g.object[k]] < Depth[g]
        BY <4>1, PartsBelow
      <4>3. Subset[<<w.object[k], h.object[k]>>] /\ Extends[<<h.object[k], g.object[k]>>]
        BY <3>1, <1>6, <4>1
      <4>4. Depth[w.object[k]] + Depth[h.object[k]] + Depth[g.object[k]] < Depth[w] + Depth[h] + Depth[g]
        BY <1>9, <4>2, JsonAssumption
      <4> QED BY <1>4, <4>1, <4>2, <4>3, <4>4
    <3> QED BY <1>3, <1>6, <2>1, <3>2, SubsetDef DEF SubsetStep
  <2>2. CASE IsArray(w)
    <3>1. \A we \in Elements(w) : Subset[<<we, h>>]
      BY <1>3, <1>5, <1>6, <2>2, OneKind, SubsetDef DEF SubsetStep, Elements
    <3>2. ASSUME NEW we \in Elements(w) PROVE Subset[<<we, g>>]
      <4>1. we \in Values /\ Depth[we] < Depth[w]
        BY <2>2, PartsBelow
      <4>2. Depth[we] + Depth[h] + Depth[g] < Depth[w] + Depth[h] + Depth[g]
        BY <1>9, <4>1, JsonAssumption
      <4> QED BY <1>3, <1>4, <3>1, <4>1, <4>2
    <3>3. g \in Elements(g)
      BY <1>6, OneKind DEF Elements
    <3> QED BY <1>3, <2>2, <3>2, <3>3, SubsetDef DEF SubsetStep
  <2>3. CASE IsLeaf(w)
    BY <1>3, <1>5, <1>6, <2>3, OneKind, SubsetDef DEF SubsetStep
  <2> QED BY <2>1, <2>2, <2>3, OneKind
<1>7. CASE IsArray(g) /\ \A he \in Elements(h) : \E ge \in Elements(g) : Extends[<<he, ge>>]
  <2>1. ASSUME NEW x \in Values, Depth[x] <= Depth[w],
               NEW he \in Elements(h), Subset[<<x, he>>]
        PROVE  \E ge \in Elements(g) : Subset[<<x, ge>>]
    <3>1. PICK ge \in Elements(g) : Extends[<<he, ge>>]
      BY <1>7
    <3>2. he \in Values /\ Depth[he] <= Depth[h] /\ ge \in Values /\ Depth[ge] < Depth[g]
      BY <1>7, PartsBelow
    <3>3. Depth[x] + Depth[he] + Depth[ge] < Depth[w] + Depth[h] + Depth[g]
      BY <1>9, <2>1, <3>2, JsonAssumption
    <3> QED BY <1>4, <2>1, <3>1, <3>2, <3>3
  <2>2. CASE IsArray(w)
    <3>1. \A we \in Elements(w) : \E he \in Elements(h) : Subset[<<we, he>>]
      BY <1>3, <1>5, <2>2, OneKind, SubsetDef DEF SubsetStep
    <3>2. \A we \in Elements(w) : \E ge \in Elements(g) : Subset[<<we, ge>>]
      BY <2>1, <3>1, PartsBelow
    <3> QED BY <1>3, <2>2, <3>2, SubsetDef DEF SubsetStep
  <2>3. CASE ~IsArray(w)
    <3>1. \E he \in Elements(h) : Subset[<<w, he>>]
      <4>1. CASE IsArray(h)
        BY <1>3, <1>5, <2>3, <4>1, OneKind, SubsetDef DEF SubsetStep
      <4>2. CASE ~IsArray(h)
        BY <1>3, <4>2 DEF Elements
      <4> QED BY <4>1, <4>2
    <3>2. \E ge \in Elements(g) : Subset[<<w, ge>>]
      BY <1>9, <2>1, <3>1
    <3> QED BY <1>3, <1>7, <2>3, <3>2, SubsetDef DEF SubsetStep
  <2> QED BY <2>2, <2>3
<1>8. h # g
  BY <1>3
<1> QED BY <1>3, <1>6, <1>7, <1>8, ExtendsDef DEF ExtendsStep

\* What meets a request meets one that asks for no more.
THEOREM RelaxesKeeps ==
  \A w, v, h \in Values : Subset[<<w, h>>] /\ Relaxes[<<w, v>>] => Subset[<<v, h>>]
<1> DEFINE Bad(w, v, h) == Subset[<<w, h>>] /\ Relaxes[<<w, v>>] /\ ~Subset[<<v, h>>]
           T == {p \in Triples : Bad(p[1], p[2], p[3])}
<1>1. \A a, b, c \in Values : <<a, b, c>> \in T <=> Bad(a, b, c)
  BY DEF Triples
<1> SUFFICES ASSUME T # {} PROVE FALSE
  BY <1>1
<1>2. PICK w, v, h \in Values : LeastIn(T, w, v, h)
  <2>1. T \in SUBSET Triples
    OBVIOUS
  <2> HIDE DEF T
  <2> QED BY <2>1, LeastTriple
<1>3. Subset[<<w, h>>] /\ Relaxes[<<w, v>>] /\ ~Subset[<<v, h>>]
  BY <1>1, <1>2 DEF LeastIn
<1>4. ASSUME NEW x \in Values, NEW y \in Values, NEW z \in Values,
             Subset[<<x, z>>], Relaxes[<<x, y>>],
             Depth[x] + Depth[y] + Depth[z] < Depth[w] + Depth[v] + Depth[h]
      PROVE  Subset[<<y, z>>]
  <2>1. Depth[x] \in Nat /\ Depth[y] \in Nat /\ Depth[z] \in Nat
        /\ Depth[w] \in Nat /\ Depth[v] \in Nat /\ Depth[h] \in Nat
    BY JsonAssumption
  <2>2. <<x, y, z>> \notin T
    BY <1>2, <1>4, <2>1 DEF LeastIn
  <2> QED BY <1>1, <1>4, <2>2
<1> HIDE DEF T, Bad
<1>5. /\ Depth[w] \in Nat /\ Depth[v] \in Nat /\ Depth[h] \in Nat
  BY JsonAssumption
<1>6. v # AnyValue /\ v # w
  BY <1>3, SubsetDef DEF SubsetStep
<1>7. CASE IsObject(w) /\ IsObject(v) /\
             \A k \in Keys(v) : k \in Keys(w) /\ Relaxes[<<w.object[k], v.object[k]>>]
  <2>1. w # AnyValue
    BY <1>7, AnyIsLeaf, OneKind
  <2>2. CASE IsObject(h)
    <3>1. \A k \in Keys(w) : k \in Keys(h) /\ Subset[<<w.object[k], h.object[k]>>]
      BY <1>3, <1>7, <2>1, <2>2, OneKind, SubsetDef DEF SubsetStep
    <3>2. ASSUME NEW k \in Keys(v) PROVE k \in Keys(h) /\ Subset[<<v.object[k], h.object[k]>>]
      <4>1. k \in Keys(w) /\ k \in Keys(h)
        BY <3>1, <1>7
      <4>2. /\ w.object[k] \in Values /\ Depth[w.object[k]] < Depth[w]
            /\ v.object[k] \in Values /\ Depth[v.object[k]] < Depth[v]
            /\ h.object[k] \in Values /\ Depth[h.object[k]] < Depth[h]
        BY <4>1, PartsBelow
      <4>3. Subset[<<w.object[k], h.object[k]>>] /\ Relaxes[<<w.object[k], v.object[k]>>]
        BY <3>1, <1>7, <4>1
      <4>4. Depth[w.object[k]] + Depth[v.object[k]] + Depth[h.object[k]] < Depth[w] + Depth[v] + Depth[h]
        BY <1>5, <4>2, JsonAssumption
      <4> QED BY <1>4, <4>1, <4>2, <4>3, <4>4
    <3> QED BY <1>3, <1>7, <2>2, <3>2, SubsetDef DEF SubsetStep
  <2>3. CASE ~IsObject(h)
    <3>1. IsArray(h)
      BY <1>3, <1>7, <2>1, <2>3, OneKind, SubsetDef DEF SubsetStep
    <3>2. PICK he \in Elements(h) : Subset[<<w, he>>]
      BY <1>3, <1>7, <2>1, <2>3, OneKind, SubsetDef DEF SubsetStep
    <3>3. he \in Values /\ Depth[he] < Depth[h]
      BY <3>1, PartsBelow
    <3>4. Depth[w] + Depth[v] + Depth[he] < Depth[w] + Depth[v] + Depth[h]
      BY <1>5, <3>3, JsonAssumption
    <3>5. Subset[<<v, he>>]
      BY <1>3, <1>4, <3>2, <3>3, <3>4
    <3> QED BY <1>3, <1>7, <3>1, <3>5, OneKind, SubsetDef DEF SubsetStep
  <2> QED BY <2>2, <2>3
<1>8. CASE IsArray(w) /\ IsArray(v) /\
             \A ve \in Items(v) : \E we \in Items(w) : Relaxes[<<we, ve>>]
  <2>1. w # AnyValue
    BY <1>8, AnyIsLeaf, OneKind
  <2>2. \A we \in Elements(w) : \E he \in Elements(h) : Subset[<<we, he>>]
    BY <1>3, <1>8, <2>1, OneKind, SubsetDef DEF SubsetStep
  <2>3. ASSUME NEW ve \in Elements(v) PROVE \E he \in Elements(h) : Subset[<<ve, he>>]
    <3>1. PICK we \in Elements(w) : Relaxes[<<we, ve>>]
      BY <1>8 DEF Elements
    <3>2. PICK he \in Elements(h) : Subset[<<we, he>>]
      BY <2>2
    <3>3. /\ we \in Values /\ Depth[we] < Depth[w]
          /\ ve \in Values /\ Depth[ve] < Depth[v]
          /\ he \in Values /\ Depth[he] <= Depth[h]
      BY <1>8, PartsBelow
    <3>4. Depth[we] + Depth[ve] + Depth[he] < Depth[w] + Depth[v] + Depth[h]
      BY <1>5, <3>3, JsonAssumption
    <3> QED BY <1>4, <3>1, <3>2, <3>3, <3>4
  <2> QED BY <1>3, <1>8, <2>3, SubsetDef DEF SubsetStep
<1> QED BY <1>6, <1>7, <1>8, <1>3, RelaxesDef DEF RelaxesStep

-----------------------------------------------------------------------------
(* What a value says.                                                      *)

\* The nodes of a value: itself, those of its elements, those below its keys.
LEMMA WithinDef ==
  ASSUME NEW t \in Values
  PROVE  /\ Within[t] = WithinStep(Within, t)
         /\ Within[t] \in SUBSET Node
         /\ <<<<>>, t>> \in Within[t]
         /\ \A u \in Elements(t) : Within[u] \subseteq Within[t]
         /\ \A k \in Keys(t) : Under(k, Within[t.object[k]]) \subseteq Within[t]
<1>1. Within[t] = WithinStep(Within, t) /\ Within[t] \in SUBSET Node
  BY WithinFcn
<1>2. \A u \in Items(t) : Within[u] \subseteq Within[t]
  BY <1>1 DEF WithinStep
<1>3. \A k \in Keys(t) : Under(k, Within[t.object[k]]) \subseteq Within[t]
  BY <1>1 DEF WithinStep
<1>4. <<<<>>, t>> \in Within[t]
  BY <1>1 DEF WithinStep
<1> QED BY <1>1, <1>2, <1>3, <1>4 DEF Elements

\* The nodes reached through objects: the value itself and those below its keys.
LEMMA OpenedDef ==
  ASSUME NEW t \in Values
  PROVE  /\ Opened[t] = OpenedStep(Opened, t)
         /\ Opened[t] \in SUBSET Node
         /\ <<<<>>, t>> \in Opened[t]
         /\ \A k \in Keys(t) : Under(k, Opened[t.object[k]]) \subseteq Opened[t]
<1>1. Opened[t] = OpenedStep(Opened, t) /\ Opened[t] \in SUBSET Node
  BY OpenedFcn
<1>2. \A k \in Keys(t) : Under(k, Opened[t.object[k]]) \subseteq Opened[t]
  BY <1>1 DEF OpenedStep
<1>3. <<<<>>, t>> \in Opened[t]
  BY <1>1 DEF OpenedStep
<1> QED BY <1>1, <1>2, <1>3

\* A leaf of a value is the value itself, a leaf of an element, or one below a
\* key.
LEMMA FactsOf ==
  ASSUME NEW t \in Values, NEW fact \in Facts(t)
  PROVE  \/ IsLeaf(t) /\ fact = <<<<>>, t>>
         \/ IsArray(t) /\ \E u \in Elements(t) : fact \in Facts(u)
         \/ IsObject(t) /\ \E k \in Keys(t) : \E f \in Facts(t.object[k]) :
              fact = <<<<k>> \o f[1], f[2]>>
<1>1. fact \in WithinStep(Within, t) /\ IsLeaf(fact[2])
  BY WithinDef DEF Facts
<1>2. CASE fact = <<<<>>, t>>
  BY <1>1, <1>2
<1>3. CASE \E u \in Items(t) : fact \in Within[u]
  BY <1>1, <1>3 DEF Facts, Elements, Items
<1>4. CASE \E k \in Keys(t) : fact \in Under(k, Within[t.object[k]])
  <2>1. PICK k \in Keys(t) : fact \in Under(k, Within[t.object[k]])
    BY <1>4
  <2>2. PICK f \in Within[t.object[k]] : fact = <<<<k>> \o f[1], f[2]>>
    BY <2>1 DEF Under
  <2>3. f \in Facts(t.object[k])
    BY <1>1, <2>2 DEF Facts
  <2>4. IsObject(t)
    BY DEF Keys
  <2> QED BY <2>2, <2>3, <2>4
<1> QED BY <1>1, <1>2, <1>3, <1>4 DEF WithinStep

\* What an element says, its array says at the same place.
LEMMA FoundInElement ==
  ASSUME NEW t \in Values, NEW u \in Elements(t), NEW fact, Found(fact, u)
  PROVE  Found(fact, t)
BY WithinDef DEF Found

\* What the value of a key says, the object says below that key.
LEMMA FoundUnderKey ==
  ASSUME NEW t \in Values, NEW k \in Keys(t), NEW f, Found(f, t.object[k]),
         f = <<f[1], f[2]>>
  PROVE  Found(<<<<k>> \o f[1], f[2]>>, t)
<1> DEFINE g == <<<<k>> \o f[1], f[2]>>
<1>1. \A n \in Within[t.object[k]] : <<<<k>> \o n[1], n[2]>> \in Within[t]
  <2>1. Under(k, Within[t.object[k]]) \subseteq Within[t]
    BY WithinDef
  <2> QED BY <2>1 DEF Under
<1>2. CASE f[2] = AnyValue
  <2>1. PICK n \in Within[t.object[k]] : n[1] = f[1]
    BY <1>2 DEF Found
  <2>2. <<<<k>> \o n[1], n[2]>> \in Within[t] /\ <<<<k>> \o n[1], n[2]>>[1] = g[1]
    BY <1>1, <2>1
  <2> QED BY <1>2, <2>2 DEF Found
<1>3. CASE f[2] # AnyValue
  <2>1. f \in Within[t.object[k]]
    BY <1>3 DEF Found
  <2>2. g \in Within[t]
    BY <1>1, <2>1
  <2> QED BY <1>3, <2>2 DEF Found
<1> QED BY <1>2, <1>3

\* What is asked of a value that meets it is said there.
THEOREM SubsetSaid ==
  \A w, h \in Values : Subset[<<w, h>>] => \A fact \in Facts(w) : Found(fact, h)
<1> DEFINE Bad(w, h) == Subset[<<w, h>>] /\ ~ \A fact \in Facts(w) : Found(fact, h)
           T == {p \in Pairs : Bad(p[1], p[2])}
<1>1. \A a, b \in Values : <<a, b>> \in T <=> Bad(a, b)
  BY DEF Pairs
<1> SUFFICES ASSUME T # {} PROVE FALSE
  BY <1>1
<1>2. PICK p \in T : \A q \in T : Sum[p] <= Sum[q]
  <2>1. T \in SUBSET Pairs
    OBVIOUS
  <2> HIDE DEF T
  <2> QED BY <2>1, SumType, LeastMeasure
<1>3. PICK w, h \in Values : p = <<w, h>>
  BY <1>2 DEF Pairs
<1>4. Subset[<<w, h>>] /\ \E fact \in Facts(w) : ~Found(fact, h)
  BY <1>1, <1>2, <1>3
<1>5. ASSUME NEW x \in Values, NEW y \in Values, Subset[<<x, y>>],
             Depth[x] + Depth[y] < Depth[w] + Depth[h]
      PROVE  \A fact \in Facts(x) : Found(fact, y)
  <2>1. Sum[p] = Depth[w] + Depth[h] /\ Sum[<<x, y>>] = Depth[x] + Depth[y]
    BY <1>3, SumType
  <2>2. Depth[x] + Depth[y] \in Nat /\ Depth[w] + Depth[h] \in Nat
    BY JsonAssumption
  <2>3. <<x, y>> \notin T
    BY <1>2, <1>5, <2>1, <2>2
  <2> QED BY <1>1, <1>5, <2>3
<1> HIDE DEF T, Bad
<1>6. Depth[w] \in Nat /\ Depth[h] \in Nat
  BY JsonAssumption
<1>7. PICK fact \in Facts(w) : ~Found(fact, h)
  BY <1>4
<1>8. CASE IsLeaf(w)
  <2>1. fact = <<<<>>, w>>
    BY <1>7, <1>8, FactsOf, OneKind
  <2>2. CASE w = AnyValue
    <3>1. <<<<>>, h>> \in Within[h] /\ <<<<>>, h>>[1] = fact[1]
      BY <2>1, WithinDef
    <3> QED BY <1>7, <2>1, <2>2, <3>1 DEF Found
  <2>3. CASE w # AnyValue /\ IsArray(h)
    <3>1. PICK he \in Elements(h) : Subset[<<w, he>>]
      BY <1>4, <1>8, <2>3, OneKind, SubsetDef DEF SubsetStep
    <3>2. he \in Values /\ Depth[he] < Depth[h]
      BY <2>3, PartsBelow
    <3>3. Depth[w] + Depth[he] < Depth[w] + Depth[h]
      BY <1>6, <3>2, JsonAssumption
    <3>4. Found(fact, he)
      BY <1>5, <3>1, <3>2, <3>3
    <3> QED BY <1>7, <3>4, FoundInElement
  <2>4. CASE w # AnyValue /\ ~IsArray(h)
    <3>1. w = h
      BY <1>4, <1>8, <2>4, OneKind, SubsetDef DEF SubsetStep
    <3> QED BY <1>7, <2>1, <2>4, <3>1, WithinDef DEF Found
  <2> QED BY <2>2, <2>3, <2>4
<1>9. CASE IsArray(w)
  <2>1. PICK we \in Elements(w) : fact \in Facts(we)
    BY <1>7, <1>9, FactsOf, OneKind
  <2>0. w # AnyValue
    BY <1>9, AnyIsLeaf, OneKind
  <2>2. PICK he \in Elements(h) : Subset[<<we, he>>]
    BY <1>4, <1>9, <2>0, OneKind, SubsetDef DEF SubsetStep
  <2>3. /\ we \in Values /\ Depth[we] < Depth[w]
        /\ he \in Values /\ Depth[he] <= Depth[h]
    BY <1>9, PartsBelow
  <2>4. Depth[we] + Depth[he] < Depth[w] + Depth[h]
    BY <1>6, <2>3, JsonAssumption
  <2>5. Found(fact, he)
    BY <1>5, <2>1, <2>2, <2>3, <2>4
  <2> QED BY <1>7, <2>5, FoundInElement
<1>10. CASE IsObject(w)
  <2>1. w # AnyValue
    BY <1>10, AnyIsLeaf, OneKind
  <2>2. CASE IsArray(h)
    <3>1. PICK he \in Elements(h) : Subset[<<w, he>>]
      BY <1>4, <1>10, <2>1, <2>2, OneKind, SubsetDef DEF SubsetStep
    <3>2. he \in Values /\ Depth[he] < Depth[h]
      BY <2>2, PartsBelow
    <3>3. Depth[w] + Depth[he] < Depth[w] + Depth[h]
      BY <1>6, <3>2, JsonAssumption
    <3>4. Found(fact, he)
      BY <1>5, <1>7, <3>1, <3>2, <3>3
    <3> QED BY <1>7, <3>4, FoundInElement
  <2>3. CASE ~IsArray(h)
    <3>0. PICK k \in Keys(w) : \E f \in Facts(w.object[k]) : fact = <<<<k>> \o f[1], f[2]>>
      BY <1>7, <1>10, FactsOf, OneKind
    <3>1. PICK f \in Facts(w.object[k]) : fact = <<<<k>> \o f[1], f[2]>>
      BY <3>0
    <3>2. k \in Keys(h) /\ Subset[<<w.object[k], h.object[k]>>]
      BY <1>4, <1>10, <2>1, <2>3, OneKind, SubsetDef DEF SubsetStep
    <3>3. /\ w.object[k] \in Values /\ Depth[w.object[k]] < Depth[w]
          /\ h.object[k] \in Values /\ Depth[h.object[k]] < Depth[h]
      BY <3>2, PartsBelow
    <3>4. Depth[w.object[k]] + Depth[h.object[k]] < Depth[w] + Depth[h]
      BY <1>6, <3>3, JsonAssumption
    <3>5. Found(f, h.object[k])
      BY <1>5, <3>1, <3>2, <3>3, <3>4
    <3>6. f = <<f[1], f[2]>>
      <4>1. f \in Within[w.object[k]] /\ Within[w.object[k]] \in SUBSET Node
        BY <3>1, <3>3, WithinDef DEF Facts
      <4>2. f \in Node
        BY <4>1
      <4> QED BY <4>2 DEF Node
    <3> QED BY <1>7, <3>1, <3>2, <3>5, <3>6, FoundUnderKey
  <2> QED BY <2>2, <2>3
<1> QED BY <1>8, <1>9, <1>10, OneKind

-----------------------------------------------------------------------------
(* The matcher's theorems.                                                 *)

\* The example, the accepted issuers and the credential are of the given sets.
TypeOK ==
  /\ example \in Examples
  /\ accepted \in IssuerFilters
  /\ have \in Documents

\* Every step chooses its inputs from those sets.
LEMMA TypeCorrect == Spec => []TypeOK
<1>1. Init => TypeOK
  BY DEF Init, TypeOK
<1>2. TypeOK /\ [Next]_vars => TypeOK'
  BY DEF TypeOK, Next, Reissue, AskForLess, TrustMore, vars
<1> QED BY <1>1, <1>2, PTL DEF Spec

\* What a key holds is a value, null included.
LEMMA GetType ==
  ASSUME NEW t \in Values, NEW k
  PROVE  Get(t, k) \in Values
BY PartsBelow, JsonAssumption DEF Get

\* The credential is a JSON value, and the example if there is one.
LEMMA TypedValues ==
  TypeOK => /\ have \in Values
            /\ example # None => example \in Values
BY MatchingAssumption DEF TypeOK

\* An example copied from a credential matches it.
THEOREM OwnExample == Spec => []OwnExampleMatches
<1>1. TypeOK => OwnExampleMatches
  <2> SUFFICES ASSUME TypeOK PROVE OwnExampleMatches
    OBVIOUS
  <2>1. have \in Values
    BY TypedValues
  <2>2. \A k \in Keys(have) : Subset[<<have.object[k], have.object[k]>>]
    BY <2>1, PartsBelow, SubsetReflexive
  <2>3. ExampleHolds(have, have)
    BY <2>2 DEF ExampleHolds, ArraySubset, ValueIsSubset, Get
  <2>4. IssuerAccepted(<<>>, have)
    BY DEF IssuerAccepted
  <2> QED BY <2>3, <2>4 DEF OwnExampleMatches, ExampleMatches
<1> QED BY <1>1, TypeCorrect, PTL

\* Whatever a matched example says beside type and @context, the credential
\* says at the same place, an absent credentialSubject counting as null.
THEOREM NamedClaims == Spec => []NamedClaimsArePresent
<1>1. TypeOK => NamedClaimsArePresent
  <2> SUFFICES ASSUME TypeOK, Matches, example # None, NEW k \in OtherKeys(example)
               PROVE  /\ k \in Keys(have) \/ k = "credentialSubject"
                      /\ \A fact \in Facts(example.object[k]) : Found(fact, Get(have, k))
    BY DEF NamedClaimsArePresent
  <2>1. have \in Values /\ example \in Values /\ k \in Keys(example) /\ k \notin StructuralKeys
    BY TypedValues DEF OtherKeys
  <2>2. example.object[k] \in Values /\ Get(have, k) \in Values
    BY <2>1, PartsBelow, GetType
  <2>3. ExampleHolds(example, have)
    BY DEF Matches, ExampleMatches
  <2>4. /\ k \in Keys(have) \/ k = "credentialSubject"
        /\ Subset[<<example.object[k], Get(have, k)>>]
    BY <2>1, <2>3 DEF ExampleHolds, ValueIsSubset, Get
  <2> QED BY <2>2, <2>4, SubsetSaid
<1> QED BY <1>1, TypeCorrect, PTL

\* An issuer that was accepted is accepted by a list that has the entries of
\* the one before.
LEMMA MoreIssuers ==
  ASSUME NEW f, NEW g, NEW vc, IssuerAccepted(f, vc), f # <<>>,
         g # <<>> => ToSet(f) \subseteq ToSet(g)
  PROVE  IssuerAccepted(g, vc)
BY DEF IssuerAccepted

\* A request that is met by a credential is met by one that says more, but for
\* what was met by the null of an absent key.
LEMMA SaysMoreHolds ==
  ASSUME NEW ex \in Values, NEW vc \in Values, NEW new \in Values,
         ExampleHolds(ex, vc), SaysMore(vc, new),
         \A k \in (StructuralKeys \cup {"credentialSubject"}) \cap Keys(ex) :
           k \in Keys(new) \ Keys(vc) => ex.object[k] = AnyValue
  PROVE  ExampleHolds(ex, new)
<1>1. ASSUME NEW k \in StructuralKeys \cap Keys(ex)
      PROVE  ArraySubset(ex.object[k], Get(new, k))
  <2>1. ArraySubset(ex.object[k], Get(vc, k))
    BY DEF ExampleHolds
  <2>2. CASE k \in Keys(vc)
    <3>1. k \in Keys(new) /\ ArraySubset(vc.object[k], new.object[k])
      BY <2>2 DEF SaysMore
    <3> QED BY <2>1, <2>2, <3>1 DEF Get, ArraySubset
  <2>3. CASE k \notin Keys(vc) /\ k \notin Keys(new)
    BY <2>1, <2>3 DEF Get
  <2>4. CASE k \notin Keys(vc) /\ k \in Keys(new)
    <3>1. Elements(AnyValue) = {AnyValue} /\ Elements(Null) = {Null}
      <4>1. "leaf" # "array"
        OBVIOUS
      <4>2. {"leaf"} # {"array"}
        BY <4>1
      <4> QED BY <4>2, AnyIsLeaf DEF Elements, IsArray, IsLeaf
    <3>2. AnyValue.leaf = "" /\ Null.leaf = None
      BY DEF AnyValue, Null, Leaf
    <3>3. AnyValue # Null
      BY <3>2, NoneAssumption
    <3>4. ex.object[k] = AnyValue
      BY <2>4
    <3> QED BY <2>1, <2>4, <3>1, <3>3, <3>4 DEF Get, ArraySubset
  <2> QED BY <2>2, <2>3, <2>4
<1>2. ASSUME NEW k \in Keys(ex) \ StructuralKeys, k \in Keys(vc)
      PROVE  k \in Keys(new) /\ Subset[<<ex.object[k], new.object[k]>>]
  <2>1. k \in Keys(new) /\ Extends[<<vc.object[k], new.object[k]>>]
    BY <1>2 DEF SaysMore
  <2>2. Subset[<<ex.object[k], vc.object[k]>>]
    BY <1>2 DEF ExampleHolds, ValueIsSubset, Get
  <2>3. ex.object[k] \in Values /\ vc.object[k] \in Values /\ new.object[k] \in Values
    BY <1>2, <2>1, PartsBelow
  <2> QED BY <2>1, <2>2, <2>3, ExtendsKeeps
<1>3. ASSUME "credentialSubject" \in Keys(ex)
      PROVE  Subset[<<ex.object["credentialSubject"], Get(new, "credentialSubject")>>]
  <2> DEFINE k == "credentialSubject"
  <2>1. k \notin StructuralKeys
    BY DEF StructuralKeys
  <2>2. CASE k \in Keys(vc)
    BY <1>2, <1>3, <2>1, <2>2 DEF Get
  <2>3. CASE k \notin Keys(vc) /\ k \notin Keys(new)
    BY <1>3, <2>3 DEF Get, ExampleHolds, ValueIsSubset
  <2>4. CASE k \notin Keys(vc) /\ k \in Keys(new)
    <3>1. ex.object[k] = AnyValue /\ ex.object[k] \in Values /\ Get(new, k) \in Values
      BY <1>3, <2>4, PartsBelow, GetType
    <3> QED BY <3>1, SubsetDef DEF SubsetStep
  <2> QED BY <2>2, <2>3, <2>4
<1>4. ASSUME NEW k \in Keys(ex) \ (StructuralKeys \cup {"credentialSubject"})
      PROVE  k \in Keys(vc)
  BY DEF ExampleHolds
<1> QED BY <1>1, <1>2, <1>3, <1>4 DEF ExampleHolds, ValueIsSubset

\* A credential that meets a request meets one that asks for less.
LEMMA AsksLessHolds ==
  ASSUME NEW ex \in Values, NEW new \in Values, NEW vc \in Values,
         ExampleHolds(ex, vc), AsksLess(ex, new)
  PROVE  ExampleHolds(new, vc)
<1>1. ASSUME NEW k \in StructuralKeys \cap Keys(new)
      PROVE  ArraySubset(new.object[k], Get(vc, k))
  <2>1. k \in Keys(ex) /\ ArraySubset(new.object[k], ex.object[k])
    BY DEF AsksLess
  <2>2. ArraySubset(ex.object[k], Get(vc, k))
    BY <2>1 DEF ExampleHolds
  <2> QED BY <2>1, <2>2 DEF ArraySubset
<1>2. ASSUME NEW k \in Keys(new) \ StructuralKeys
      PROVE  /\ k \in Keys(vc) \/ k = "credentialSubject"
             /\ Subset[<<new.object[k], Get(vc, k)>>]
  <2>1. k \in Keys(ex) /\ Relaxes[<<ex.object[k], new.object[k]>>]
    BY DEF AsksLess
  <2>2. /\ k \in Keys(vc) \/ k = "credentialSubject"
        /\ Subset[<<ex.object[k], Get(vc, k)>>]
    BY <2>1 DEF ExampleHolds, ValueIsSubset, Get
  <2>3. ex.object[k] \in Values /\ new.object[k] \in Values /\ Get(vc, k) \in Values
    BY <2>1, PartsBelow, GetType
  <2> QED BY <2>1, <2>2, <2>3, RelaxesKeeps
<1>3. "credentialSubject" \notin StructuralKeys
  BY DEF StructuralKeys
<1> QED BY <1>1, <1>2, <1>3 DEF ExampleHolds, ValueIsSubset, Get

\* A match is kept when the credential says more, the verifier asks for less or
\* trusts more issuers.
THEOREM MoreMatches == Spec => MoreNeverMatchesLess
<1>1. TypeOK /\ TypeOK' /\ [Next]_vars =>
        (Matches => Matches' \/ (example # None /\ NullNoMore))
  <2> SUFFICES ASSUME TypeOK, TypeOK', [Next]_vars, Matches,
                      ~(example # None /\ NullNoMore)
               PROVE  Matches'
    OBVIOUS
  <2>1. /\ have \in Values /\ have' \in Values
        /\ example # None => example \in Values
        /\ example' # None => example' \in Values
    BY MatchingAssumption DEF TypeOK
  <2>2. /\ example # None => ExampleHolds(example, have)
        /\ IssuerAccepted(accepted, have)
    BY DEF Matches, ExampleMatches
  <2>3. CASE Reissue
    <3>1. SaysMore(have, have') /\ example' = example /\ accepted' = accepted
      BY <2>3 DEF Reissue
    <3>2. example # None => ExampleHolds(example, have')
      BY <2>1, <2>2, <3>1, SaysMoreHolds DEF NullNoMore
    <3>3. IssuerAccepted(accepted, have')
      BY <2>2, <3>1 DEF IssuerAccepted, SaysMore
    <3> QED BY <3>1, <3>2, <3>3 DEF Matches, ExampleMatches
  <2>4. CASE AskForLess
    <3>1. /\ example # None /\ have' = have /\ accepted' = accepted
          /\ example' # None => AsksLess(example, example')
      BY <2>4 DEF AskForLess
    <3>2. example' # None => ExampleHolds(example', have)
      BY <2>1, <2>2, <3>1, AsksLessHolds
    <3> QED BY <2>2, <3>1, <3>2 DEF Matches, ExampleMatches
  <2>5. CASE TrustMore
    <3>1. /\ accepted # <<>> /\ have' = have /\ example' = example
          /\ accepted' # <<>> => ToSet(accepted) \subseteq ToSet(accepted')
      BY <2>5 DEF TrustMore
    <3>2. IssuerAccepted(accepted', have)
      BY <2>2, <3>1, MoreIssuers
    <3> QED BY <2>2, <3>1, <3>2 DEF Matches, ExampleMatches
  <2>6. CASE UNCHANGED vars
    BY <2>2, <2>6 DEF vars, Matches, ExampleMatches
  <2> QED BY <2>3, <2>4, <2>5, <2>6 DEF Next
<1> QED BY <1>1, TypeCorrect, PTL DEF Spec, MoreNeverMatchesLess

-----------------------------------------------------------------------------
(* Paths and pointers.                                                     *)

\* A path is a prefix of another when it is no longer and agrees with it.
LEMMA PrefixItems ==
  ASSUME NEW a \in Seq(Names), NEW b \in Seq(Names)
  PROVE  IsPrefix(a, b) <=> Len(a) <= Len(b) /\ \A i \in 1..Len(a) : a[i] = b[i]
<1>1. ASSUME Len(a) <= Len(b)
      PROVE  /\ SubSeq(a, 1, Len(a)) = [i \in 1..Len(a) |-> a[i]]
             /\ SubSeq(b, 1, Len(a)) = [i \in 1..Len(a) |-> b[i]]
  BY <1>1
<1>2. IsPrefix(a, b) => Len(a) <= Len(b) /\ \A i \in 1..Len(a) : a[i] = b[i]
  <2> SUFFICES ASSUME IsPrefix(a, b), NEW i \in 1..Len(a) PROVE a[i] = b[i]
    BY DEF IsPrefix
  <2>1. [j \in 1..Len(a) |-> a[j]] = SubSeq(b, 1, Len(a))
    BY <1>1 DEF IsPrefix
  <2> QED BY <2>1
<1> QED BY <1>1, <1>2 DEF IsPrefix

\* A path below a key starts with that key and goes on as before.
LEMMA UnderKey ==
  ASSUME NEW k \in Names, NEW s \in Seq(Names)
  PROVE  /\ <<k>> \o s \in Seq(Names) /\ Len(<<k>> \o s) = Len(s) + 1
         /\ <<k>> \o s # <<>>
         /\ Head(<<k>> \o s) = k
         /\ (<<k>> \o s)[1] = k
         /\ \A i \in 1..Len(s) : (<<k>> \o s)[i + 1] = s[i]
OBVIOUS

\* Prefixes stay prefixes below a key.
LEMMA PrefixUnderKey ==
  ASSUME NEW k \in Names, NEW a \in Seq(Names), NEW b \in Seq(Names), IsPrefix(a, b)
  PROVE  IsPrefix(<<k>> \o a, <<k>> \o b)
<1> DEFINE ka == <<k>> \o a
           kb == <<k>> \o b
<1>1. Len(a) <= Len(b) /\ \A i \in 1..Len(a) : a[i] = b[i]
  BY PrefixItems
<1>2. /\ ka \in Seq(Names) /\ Len(ka) = Len(a) + 1 /\ ka[1] = k
      /\ \A i \in 1..Len(a) : ka[i + 1] = a[i]
  BY UnderKey
<1>3. /\ kb \in Seq(Names) /\ Len(kb) = Len(b) + 1 /\ kb[1] = k
      /\ \A i \in 1..Len(b) : kb[i + 1] = b[i]
  BY UnderKey
<1> HIDE DEF ka, kb
<1>4. ASSUME NEW i \in 1..Len(ka) PROVE ka[i] = kb[i]
  <2>1. CASE i = 1
    BY <1>2, <1>3, <2>1
  <2>2. CASE i # 1
    <3>1. i - 1 \in 1..Len(a) /\ i - 1 \in 1..Len(b) /\ i = (i - 1) + 1
      BY <1>1, <1>2, <2>2
    <3>2. ka[(i - 1) + 1] = a[i - 1] /\ kb[(i - 1) + 1] = b[i - 1]
      BY <1>2, <1>3, <3>1
    <3> QED BY <1>1, <3>1, <3>2
  <2> QED BY <2>1, <2>2
<1>5. IsPrefix(ka, kb)
  BY <1>1, <1>2, <1>3, <1>4, PrefixItems
<1> QED BY <1>5 DEF ka, kb

\* Strict prefixes stay strict below a key.
LEMMA StrictPrefixUnderKey ==
  ASSUME NEW k \in Names, NEW a \in Seq(Names), NEW b \in Seq(Names), IsStrictPrefix(a, b)
  PROVE  IsStrictPrefix(<<k>> \o a, <<k>> \o b)
<1>1. IsPrefix(<<k>> \o a, <<k>> \o b)
  BY PrefixUnderKey DEF IsStrictPrefix
<1>2. ASSUME <<k>> \o a = <<k>> \o b PROVE FALSE
  <2>1. Len(a) = Len(b)
    BY <1>2, UnderKey
  <2>2. \A i \in 1..Len(a) : a[i] = b[i]
    BY <2>1, PrefixItems DEF IsStrictPrefix
  <2>3. a = b
    BY <2>1, <2>2
  <2> QED BY <2>3 DEF IsStrictPrefix
<1> QED BY <1>1, <1>2 DEF IsStrictPrefix

\* The empty path is a prefix of every path, strictly of every other.
LEMMA EmptyPrefix ==
  ASSUME NEW s \in Seq(Names)
  PROVE  IsPrefix(<<>>, s) /\ (s # <<>> => IsStrictPrefix(<<>>, s))
<1>1. Len(<<>>) = 0 /\ <<>> \in Seq(Names)
  OBVIOUS
<1>2. IsPrefix(<<>>, s)
  <2> DEFINE e == <<>>
  <2>1. /\ e \in Seq(Names) /\ Len(e) <= Len(s)
        /\ \A i \in 1..Len(e) : e[i] = s[i]
    BY <1>1
  <2> HIDE DEF e
  <2>2. IsPrefix(e, s)
    BY <2>1, PrefixItems
  <2> QED BY <2>2 DEF e
<1>3. ASSUME s # <<>> PROVE <<>> # s
  BY <1>3
<1>4. s # <<>> => IsStrictPrefix(<<>>, s)
  <2> HIDE DEF IsPrefix
  <2> QED BY <1>2, <1>3, Zenon DEF IsStrictPrefix
<1> QED BY <1>2, <1>4

\* A path whose keys have no dots is the pointer made of it.
LEMMA PlainPointer ==
  ASSUME NEW p \in Seq(Names), p # <<>>, \A i \in DOMAIN p : Segments[p[i]] = <<p[i]>>
  PROVE  DottedToPointer(p) = p
<1> DEFINE s == [i \in DOMAIN p |-> Segments[p[i]]]
           P(f) == f = [i \in 1..Len(s) |-> IF i = 1 THEN s[i] ELSE f[i - 1] \o s[i]]
           g == [i \in 1..Len(p) |-> SubSeq(p, 1, i)]
           f == CHOOSE x : P(x)
<1>1. s = [i \in 1..Len(p) |-> <<p[i]>>] /\ Len(p) \in Nat \ {0}
  OBVIOUS
<1>2. s \in Seq(Seq(Names)) /\ Len(s) = Len(p) /\ \A i \in 1..Len(p) : s[i] = <<p[i]>>
  <2>1. \A i \in 1..Len(p) : <<p[i]>> \in Seq(Names)
    OBVIOUS
  <2>2. s \in [1..Len(p) -> Seq(Names)]
    BY <1>1, <2>1
  <2>3. s \in Seq(Seq(Names)) /\ Len(s) = Len(p)
    <3> HIDE DEF s
    <3> QED BY <1>1, <2>2
  <2> QED BY <1>1, <2>3
<1>3. FlattenSeq(s) = f[Len(s)]
  <2> HIDE DEF s
  <2> QED BY <1>1, <1>2 DEF FlattenSeq
<1> HIDE DEF s
<1>4. P(g)
  <2>1. ASSUME NEW i \in 1..Len(p), i = 1 PROVE SubSeq(p, 1, i) = s[i]
    BY <1>2, <2>1
  <2>2. ASSUME NEW i \in 1..Len(p), i # 1 PROVE SubSeq(p, 1, i) = g[i - 1] \o s[i]
    <3>1. i - 1 \in 1..Len(p) /\ g[i - 1] = SubSeq(p, 1, i - 1)
      BY <2>2
    <3>2. SubSeq(p, 1, i) = SubSeq(p, 1, i - 1) \o <<p[i]>>
      BY <2>2
    <3> QED BY <1>2, <3>1, <3>2
  <2>3. g = [i \in 1..Len(s) |-> IF i = 1 THEN s[i] ELSE g[i - 1] \o s[i]]
    BY <1>2, <2>1, <2>2
  <2> QED BY <2>3
<1>5. P(f)
  <2> HIDE DEF P, g
  <2> QED BY <1>4
<1> HIDE DEF f
<1>6. \A i \in 1..Len(p) : f[i] = IF i = 1 THEN s[i] ELSE f[i - 1] \o s[i]
  BY <1>2, <1>5
<1>7. \A i \in 1..Len(p) : g[i] = IF i = 1 THEN s[i] ELSE g[i - 1] \o s[i]
  <2> HIDE DEF g
  <2> QED BY <1>2, <1>4
<1> HIDE DEF g, P
<1>8. \A i \in 1..Len(p) : f[i] = g[i]
  <2> DEFINE T == {i \in 1..Len(p) : f[i] # g[i]}
             id == [i \in 1..Len(p) |-> i]
  <2> SUFFICES ASSUME T # {} PROVE FALSE
    OBVIOUS
  <2>1. id \in [1..Len(p) -> Nat] /\ T \in SUBSET (1..Len(p))
    OBVIOUS
  <2>2. PICK i \in T : \A j \in T : id[i] <= id[j]
    <3> HIDE DEF T, id
    <3> QED BY <2>1, LeastMeasure
  <2>3. i # 1 => i - 1 \in 1..Len(p) /\ i - 1 \notin T
    BY <2>2
  <2>4. i # 1 => f[i - 1] = g[i - 1]
    BY <2>3
  <2> QED BY <1>6, <1>7, <2>4
<1>9. g[Len(p)] = p
  BY <1>1 DEF g
<1>10. DottedToPointer(p) = FlattenSeq(s)
  BY DEF DottedToPointer, s
<1> QED BY <1>1, <1>2, <1>3, <1>8, <1>9, <1>10

\* A node reached through objects is the value itself or one below a key.
LEMMA OpenedOf ==
  ASSUME NEW t \in Values, NEW n \in Opened[t]
  PROVE  \/ n = <<<<>>, t>>
         \/ \E k \in Keys(t) : \E m \in Opened[t.object[k]] : n = <<<<k>> \o m[1], m[2]>>
<1>1. n \in OpenedStep(Opened, t)
  BY OpenedDef
<1>2. CASE \E k \in Keys(t) : n \in Under(k, Opened[t.object[k]])
  BY <1>2 DEF Under
<1> QED BY <1>1, <1>2 DEF OpenedStep

\* A node below a key of a value is a node of that value.
LEMMA OpenedUnderKey ==
  ASSUME NEW t \in Values, NEW k \in Keys(t), NEW m \in Opened[t.object[k]]
  PROVE  /\ <<<<k>> \o m[1], m[2]>> \in Opened[t]
         /\ m[1] \in Seq(Names) /\ m[2] \in Values /\ k \in Names
<1>1. Under(k, Opened[t.object[k]]) \subseteq Opened[t]
  BY OpenedDef
<1>2. m \in Node
  BY PartsBelow, OpenedDef
<1> QED BY <1>1, <1>2, KeysNamed DEF Under, Node

\* No array on the way to the end of a path.
Clear(path, t) == \A n \in Opened[t] : IsArray(n[2]) => ~IsStrictPrefix(n[1], path)

\* A path with no array on its way has none below its first key.
LEMMA ClearBelow ==
  ASSUME NEW t \in Values, NEW k \in Keys(t), NEW p \in Seq(Names), Clear(<<k>> \o p, t)
  PROVE  Clear(p, t.object[k]) /\ ~IsArray(t)
<1>1. ASSUME NEW m \in Opened[t.object[k]], IsArray(m[2]) PROVE ~IsStrictPrefix(m[1], p)
  <2> DEFINE n == <<<<k>> \o m[1], m[2]>>
  <2>1. n \in Opened[t] /\ m[1] \in Seq(Names) /\ k \in Names
    BY OpenedUnderKey
  <2>2. n[1] = <<k>> \o m[1] /\ n[2] = m[2]
    OBVIOUS
  <2>3. ~IsStrictPrefix(<<k>> \o m[1], <<k>> \o p)
    <3> HIDE DEF n
    <3> QED BY <1>1, <2>1, <2>2 DEF Clear
  <2> QED BY <2>1, <2>3, StrictPrefixUnderKey
<1> QED BY <1>1, OneKind DEF Clear, Keys

\* Where a request that is met names something outside arrays, the value has
\* something.
THEOREM NamedNodeThere ==
  \A w \in Values : \A n \in Opened[w] : \A h \in Values :
    Subset[<<w, h>>] /\ Clear(n[1], h) => Resolves(n[1], h)
<1> DEFINE Good(w) == \A n \in Opened[w] : \A h \in Values :
                        Subset[<<w, h>>] /\ Clear(n[1], h) => Resolves(n[1], h)
           T == {w \in Values : ~Good(w)}
<1> SUFFICES ASSUME T # {} PROVE FALSE
  OBVIOUS
<1>1. PICK w \in T : \A u \in T : Depth[w] <= Depth[u]
  <2>1. T \in SUBSET Values /\ Depth \in [Values -> Nat]
    BY JsonAssumption
  <2> HIDE DEF T
  <2> QED BY <2>1, LeastMeasure
<1>2. w \in Values /\ ~Good(w)
  OBVIOUS
<1>3. \A u \in Values : Depth[u] < Depth[w] => Good(u)
  <2> HIDE DEF Good
  <2> QED BY <1>1, JsonAssumption
<1> HIDE DEF T
<1>4. SUFFICES ASSUME NEW n \in Opened[w], NEW h \in Values, Subset[<<w, h>>], Clear(n[1], h)
               PROVE  Resolves(n[1], h)
  BY <1>2
<1>5. CASE n = <<<<>>, w>>
  <2>1. <<<<>>, h>> \in Opened[h] /\ <<<<>>, h>>[1] = n[1]
    BY <1>5, OpenedDef
  <2> QED BY <2>1 DEF Resolves
<1>6. CASE \E k \in Keys(w) : \E m \in Opened[w.object[k]] : n = <<<<k>> \o m[1], m[2]>>
  <2>0. PICK k \in Keys(w) : \E m \in Opened[w.object[k]] : n = <<<<k>> \o m[1], m[2]>>
    BY <1>6
  <2>1. PICK m \in Opened[w.object[k]] : n = <<<<k>> \o m[1], m[2]>>
    BY <2>0
  <2>2. m[1] \in Seq(Names) /\ k \in Names /\ n[1] = <<k>> \o m[1]
    BY <1>2, <2>1, OpenedUnderKey
  <2>3. ~IsArray(h)
    <3>1. <<<<>>, h>> \in Opened[h]
      BY OpenedDef
    <3>2. n[1] \in Seq(Names) /\ n[1] # <<>>
      BY <2>2, UnderKey
    <3>3. IsStrictPrefix(<<>>, n[1])
      BY <3>2, EmptyPrefix
    <3> QED BY <1>4, <3>1, <3>3 DEF Clear
  <2>4. IsObject(w) /\ w # AnyValue
    BY <1>2, AnyIsLeaf, OneKind DEF Keys
  <2>5. k \in Keys(h) /\ Subset[<<w.object[k], h.object[k]>>]
    BY <1>2, <1>4, <2>3, <2>4, OneKind, SubsetDef DEF SubsetStep
  <2>6. /\ w.object[k] \in Values /\ Depth[w.object[k]] < Depth[w]
        /\ h.object[k] \in Values
    BY <1>2, <2>5, PartsBelow
  <2>7. Clear(m[1], h.object[k])
    BY <1>4, <2>2, <2>5, ClearBelow
  <2>8. Resolves(m[1], h.object[k])
    BY <1>3, <2>1, <2>5, <2>6, <2>7
  <2>9. PICK x \in Opened[h.object[k]] : x[1] = m[1]
    BY <2>8 DEF Resolves
  <2>10. <<<<k>> \o x[1], x[2]>> \in Opened[h] /\ <<<<k>> \o x[1], x[2]>>[1] = n[1]
    BY <2>2, <2>5, <2>9, OpenedUnderKey
  <2> QED BY <2>10 DEF Resolves
<1> QED BY <1>2, <1>5, <1>6, OpenedOf

\* Whatever a value says is within what one of its paths ends at.
THEOREM FactsUnderPaths ==
  \A t \in Values : \A fact \in Facts(t) :
    \E n \in Opened[t] : ~IsObject(n[2]) /\ IsPrefix(n[1], fact[1])
<1> DEFINE Good(t) == \A fact \in Facts(t) :
                        \E n \in Opened[t] : ~IsObject(n[2]) /\ IsPrefix(n[1], fact[1])
           T == {t \in Values : ~Good(t)}
<1> SUFFICES ASSUME T # {} PROVE FALSE
  OBVIOUS
<1>1. PICK t \in T : \A u \in T : Depth[t] <= Depth[u]
  <2>1. T \in SUBSET Values /\ Depth \in [Values -> Nat]
    BY JsonAssumption
  <2> HIDE DEF T
  <2> QED BY <2>1, LeastMeasure
<1>2. t \in Values /\ ~Good(t)
  OBVIOUS
<1>3. \A u \in Values : Depth[u] < Depth[t] => Good(u)
  <2> HIDE DEF Good
  <2> QED BY <1>1, JsonAssumption
<1> HIDE DEF T
<1>4. SUFFICES ASSUME NEW fact \in Facts(t)
               PROVE  \E n \in Opened[t] : ~IsObject(n[2]) /\ IsPrefix(n[1], fact[1])
  BY <1>2
<1>5. fact[1] \in Seq(Names)
  <2>1. fact \in Node
    BY <1>2, WithinDef DEF Facts
  <2> QED BY <2>1 DEF Node
<1>6. CASE ~IsObject(t)
  <2>1. <<<<>>, t>> \in Opened[t]
    BY <1>2, OpenedDef
  <2>2. IsPrefix(<<>>, fact[1])
    BY <1>5, EmptyPrefix
  <2> QED BY <1>6, <2>1, <2>2
<1>7. CASE IsObject(t)
  <2>0. PICK k \in Keys(t) : \E f \in Facts(t.object[k]) : fact = <<<<k>> \o f[1], f[2]>>
    BY <1>2, <1>7, FactsOf, OneKind
  <2>1. PICK f \in Facts(t.object[k]) : fact = <<<<k>> \o f[1], f[2]>>
    BY <2>0
  <2>2. t.object[k] \in Values /\ Depth[t.object[k]] < Depth[t]
    BY <1>2, PartsBelow
  <2>3. PICK m \in Opened[t.object[k]] : ~IsObject(m[2]) /\ IsPrefix(m[1], f[1])
    BY <1>3, <2>1, <2>2
  <2>4. f[1] \in Seq(Names)
    <3>1. f \in Node
      BY <2>1, <2>2, WithinDef DEF Facts
    <3> QED BY <3>1 DEF Node
  <2>5. /\ <<<<k>> \o m[1], m[2]>> \in Opened[t]
        /\ m[1] \in Seq(Names) /\ k \in Names
    BY <1>2, OpenedUnderKey
  <2>6. IsPrefix(<<k>> \o m[1], <<k>> \o f[1])
    BY <2>3, <2>4, <2>5, PrefixUnderKey
  <2>7. fact[1] = <<k>> \o f[1]
    BY <2>1
  <2> QED BY <2>3, <2>5, <2>6, <2>7
<1> QED BY <1>6, <1>7

\* The paths of an example: its structural keys, and the ends of the others.
LEMMA PathsOf ==
  ASSUME NEW ex
  PROVE  /\ \A p \in ExampleFieldPaths(ex) :
              \/ \E k \in StructuralKeys \cap Keys(ex) : p = <<k>>
              \/ \E k \in OtherKeys(ex) : \E n \in Opened[ex.object[k]] :
                   ~IsObject(n[2]) /\ p = <<k>> \o n[1]
         /\ \A k \in OtherKeys(ex) : \A n \in Opened[ex.object[k]] :
              ~IsObject(n[2]) => <<k>> \o n[1] \in ExampleFieldPaths(ex)
<1>1. \A k : \A p \in CollectSubjectPaths(<<k>>, ex.object[k]) :
        \E n \in Opened[ex.object[k]] : ~IsObject(n[2]) /\ p = <<k>> \o n[1]
  BY DEF CollectSubjectPaths
<1>2. \A k : \A n \in Opened[ex.object[k]] :
        ~IsObject(n[2]) => <<k>> \o n[1] \in CollectSubjectPaths(<<k>>, ex.object[k])
  BY DEF CollectSubjectPaths
<1>3. ASSUME NEW p \in ExampleFieldPaths(ex),
             ~\E k \in StructuralKeys \cap Keys(ex) : p = <<k>>
      PROVE  \E k \in OtherKeys(ex) : \E n \in Opened[ex.object[k]] :
               ~IsObject(n[2]) /\ p = <<k>> \o n[1]
  <2>1. \E k \in OtherKeys(ex) : p \in CollectSubjectPaths(<<k>>, ex.object[k])
    <3> HIDE DEF CollectSubjectPaths
    <3> QED BY <1>3 DEF ExampleFieldPaths, OtherKeys
  <2> QED BY <1>1, <2>1
<1>4. ASSUME NEW k \in OtherKeys(ex), NEW n \in Opened[ex.object[k]], ~IsObject(n[2])
      PROVE  <<k>> \o n[1] \in ExampleFieldPaths(ex)
  <2>1. <<k>> \o n[1] \in CollectSubjectPaths(<<k>>, ex.object[k])
    BY <1>2, <1>4
  <2> QED BY <2>1 DEF ExampleFieldPaths, OtherKeys
<1> QED BY <1>3, <1>4

\* The pointers of a match are exact for named fields that lie outside arrays
\* and have no dots in their keys.
THEOREM PlainPointers == Spec => []PlainPointersAreExact
<1>1. TypeOK => PlainPointersAreExact
  <2> SUFFICES ASSUME TypeOK, Matches, example # None, SubjectIsThere,
                      \A p \in NamedPaths : Plain(p, have)
               PROVE  /\ \A ptr \in Pointers : Resolves(ptr, have)
                      /\ \A k \in OtherKeys(example) : \A fact \in Facts(example.object[k]) :
                           \E ptr \in Pointers : IsPrefix(ptr, <<k>> \o fact[1])
    BY DEF PlainPointersAreExact
  <2>1. have \in Values /\ example \in Values
    BY TypedValues
  <2>2. ASSUME NEW k \in OtherKeys(example)
        PROVE  /\ k \in Names /\ k \notin StructuralKeys /\ k \in Keys(have)
               /\ example.object[k] \in Values /\ have.object[k] \in Values
               /\ Subset[<<example.object[k], have.object[k]>>]
    <3>1. ExampleHolds(example, have)
      BY DEF Matches, ExampleMatches
    <3>2. k \in Keys(example) /\ k \notin StructuralKeys
      BY DEF OtherKeys
    <3>3. k \in Keys(have) /\ Subset[<<example.object[k], have.object[k]>>]
      BY <3>1, <3>2 DEF ExampleHolds, ValueIsSubset, Get, SubjectIsThere
    <3> QED BY <2>1, <3>2, <3>3, PartsBelow, KeysNamed
  <2>3. ASSUME NEW k \in OtherKeys(example), NEW n \in Opened[example.object[k]],
               ~IsObject(n[2])
        PROVE  /\ n[1] \in Seq(Names)
               /\ DottedToPointer(<<k>> \o n[1]) = <<k>> \o n[1]
               /\ <<k>> \o n[1] \in Pointers
               /\ Resolves(<<k>> \o n[1], have)
    <3> DEFINE p == <<k>> \o n[1]
    <3>1. n[1] \in Seq(Names) /\ n[2] \in Values
      BY <2>1, <2>2, OpenedUnderKey DEF OtherKeys
    <3>2. p \in Seq(Names) /\ p # <<>> /\ Head(p) = k
      <4>1. k \in Names
        BY <2>2
      <4> QED BY <3>1, <4>1, UnderKey
    <3>3. p \in ExampleFieldPaths(example)
      BY <2>3, PathsOf
    <3>4. p \in NamedPaths
      BY <2>2, <3>2, <3>3 DEF NamedPaths
    <3> HIDE DEF p
    <3>5. Plain(p, have)
      BY <3>4
    <3>6. DottedToPointer(p) = p
      BY <3>2, <3>5, PlainPointer DEF Plain
    <3>7. p \in Pointers
      BY <2>2, <3>2, <3>3, <3>6 DEF Pointers, SelectivePointersFromPaths
    <3>8. Clear(p, have)
      BY <3>5 DEF Plain, Clear
    <3>9. Clear(n[1], have.object[k])
      BY <2>1, <2>2, <3>1, <3>8, ClearBelow DEF p
    <3>10. Resolves(n[1], have.object[k])
      BY <2>2, <3>9, NamedNodeThere
    <3>11. PICK x \in Opened[have.object[k]] : x[1] = n[1]
      BY <3>10 DEF Resolves
    <3>12. /\ <<<<k>> \o x[1], x[2]>> \in Opened[have]
           /\ <<<<k>> \o x[1], x[2]>>[1] = p
      BY <2>1, <2>2, <3>11, OpenedUnderKey DEF p
    <3>13. Resolves(p, have)
      BY <3>12 DEF Resolves
    <3> QED BY <3>1, <3>6, <3>7, <3>13 DEF p
  <2>4. ASSUME NEW ptr \in Pointers PROVE Resolves(ptr, have)
    <3>1. PICK p \in ExampleFieldPaths(example) : ptr = DottedToPointer(p)
      BY DEF Pointers, SelectivePointersFromPaths
    <3>2. Head(ptr) \notin StructuralKeys
      BY DEF Pointers, SelectivePointersFromPaths
    <3>3. ASSUME NEW k \in StructuralKeys \cap Keys(example), p = <<k>> PROVE FALSE
      <4>1. k \in Names /\ Segments[k] = <<k>>
        BY <2>1, KeysNamed, MatchingAssumption
      <4>2. p \in Seq(Names) /\ p # <<>> /\ Head(p) = k
        BY <3>3, <4>1
      <4>3. \A i \in DOMAIN p : Segments[p[i]] = <<p[i]>>
        BY <3>3, <4>1
      <4>4. ptr = p
        BY <3>1, <4>2, <4>3, PlainPointer
      <4> QED BY <3>2, <4>2, <4>4
    <3>4. \E k \in OtherKeys(example) : \E n \in Opened[example.object[k]] :
            ~IsObject(n[2]) /\ p = <<k>> \o n[1]
      BY <3>3, PathsOf
    <3> QED BY <2>3, <3>1, <3>4
  <2>5. ASSUME NEW k \in OtherKeys(example), NEW fact \in Facts(example.object[k])
        PROVE  \E ptr \in Pointers : IsPrefix(ptr, <<k>> \o fact[1])
    <3>1. PICK n \in Opened[example.object[k]] : ~IsObject(n[2]) /\ IsPrefix(n[1], fact[1])
      BY <2>2, FactsUnderPaths
    <3>2. fact[1] \in Seq(Names)
      <4>1. fact \in Node
        BY <2>2, WithinDef DEF Facts
      <4> QED BY <4>1 DEF Node
    <3>3. IsPrefix(<<k>> \o n[1], <<k>> \o fact[1])
      BY <2>2, <2>3, <3>1, <3>2, PrefixUnderKey
    <3> QED BY <2>3, <3>1, <3>3
  <2> QED BY <2>4, <2>5
<1> QED BY <1>1, TypeCorrect, PTL
=============================================================================
