----------------------------- MODULE ArenaProofs -----------------------------
(***************************************************************************)
(* Proofs about the arenas of all timelines: what an arena says is in use  *)
(* covers what it holds, no statement takes it beyond its capacity, and a  *)
(* merge delivers all that the merging timelines had bound, consumed where *)
(* one of them had consumed it.                                            *)
(*                                                                         *)
(* The weights are sums over trees of fields, defined by recursive         *)
(* functions; they are reasoned about by induction over sets.              *)
(***************************************************************************)
EXTENDS EntangledProperties, FiniteSetTheorems, FunctionTheorems, SequenceLemmas

-----------------------------------------------------------------------------
(* Induction, and sums over finite sets *)

\* Induction over the natural numbers, stated for a set: with it and the next
\* lemma the recursive functions of the arena are reasoned about.
LEMMA NaturalInduction ==
    ASSUME NEW T, 0 \in T, \A n \in Nat : n \in T => n + 1 \in T
    PROVE  Nat \subseteq T
<1> SUFFICES ASSUME Nat \ T # {}
             PROVE  FALSE
  OBVIOUS
<1>1. PICK n \in Nat \ T : \A m \in Nat \ T : ~ (<<m, n>> \in OpToRel(<, Nat))
  <2>1. Nat \ T \subseteq Nat
    OBVIOUS
  <2> QED
    BY <2>1, WFMin, NatLessThanWellFounded
<1>2. n # 0 /\ n - 1 \in Nat
  OBVIOUS
<1>3. <<n - 1, n>> \in OpToRel(<, Nat)
  BY <1>2 DEF OpToRel
<1>4. n - 1 \in T
  BY <1>1, <1>2, <1>3
<1>5. (n - 1) + 1 = n
  BY <1>2
<1> QED
  BY <1>1, <1>2, <1>4, <1>5

\* Induction over the subsets of a finite set, one element more at a time.
LEMMA SubsetInduction ==
    ASSUME NEW S, IsFiniteSet(S), NEW T, {} \in T,
           \A A \in SUBSET S : A # {} /\ (\A x \in A : A \ {x} \in T) => A \in T
    PROVE  \A A \in SUBSET S : A \in T
<1> DEFINE Bad == {A \in SUBSET S : A \notin T}
<1> SUFFICES ASSUME Bad # {}
             PROVE  FALSE
  OBVIOUS
<1>1. IsWellFoundedOn(StrictSubsetOrdering(S), SUBSET S)
  BY FS_StrictSubsetOrderingWellFounded, FS_FiniteSubsetsOfFinite
<1>2. PICK A \in Bad : \A B \in Bad : ~ (<<B, A>> \in StrictSubsetOrdering(S))
  <2>1. Bad \subseteq SUBSET S
    OBVIOUS
  <2> HIDE DEF Bad
  <2> QED
    BY <1>1, <2>1, WFMin
<1>3. PICK x \in A : A \ {x} \notin T
  BY <1>2
<1>4. A \ {x} \in Bad
  BY <1>2, <1>3
<1>5. <<A \ {x}, A>> \in StrictSubsetOrdering(S)
  BY <1>2, <1>3 DEF StrictSubsetOrdering
<1> QED
  BY <1>2, <1>4, <1>5

\* The element that FoldSet and SumFunctionOnSet take from a set first.
Some(s) == CHOOSE x \in s : TRUE

\* A set that is not empty has such an element.
LEMMA SomeIn == \A s : s # {} => Some(s) \in s
  BY DEF Some

\* g sums the weights w over every subset of S, as SumFunctionOnSet does.
IsSum(g, w, S) ==
    g = [s \in SUBSET S |-> IF s = {} THEN 0 ELSE w[Some(s)] + g[s \ {Some(s)}]]

\* The same for the subsets of at most n elements.
SmallSum(g, w, S, n) ==
    g = [s \in {t \in SUBSET S : Cardinality(t) <= n} |->
            IF s = {} THEN 0 ELSE w[Some(s)] + g[s \ {Some(s)}]]

\* The sums over the subsets of at most n elements exist, for every n.
LEMMA SmallSumExists ==
    ASSUME NEW S, IsFiniteSet(S), NEW w, NEW n \in Nat
    PROVE  \E g : SmallSum(g, w, S, n)
<1> DEFINE T == {m \in Nat : \E g : SmallSum(g, w, S, m)}
<1>0. \A t \in SUBSET S : /\ Cardinality(t) \in Nat
                          /\ Cardinality(t) <= 0 <=> t = {}
                          /\ t # {} => Cardinality(t \ {Some(t)}) = Cardinality(t) - 1
  <2> TAKE t \in SUBSET S
  <2>1. IsFiniteSet(t)
    BY FS_Subset
  <2>2. Cardinality(t) \in Nat /\ (Cardinality(t) = 0 <=> t = {})
    BY <2>1, FS_CardinalityType, FS_EmptySet
  <2>3. t # {} => Cardinality(t \ {Some(t)}) = Cardinality(t) - 1
    BY <2>1, SomeIn, FS_RemoveElement
  <2> QED
    BY <2>2, <2>3
<1>1. 0 \in T
  <2> DEFINE g == [s \in {t \in SUBSET S : Cardinality(t) <= 0} |-> 0]
  <2>1. \A s \in {t \in SUBSET S : Cardinality(t) <= 0} : s = {}
    BY <1>0
  <2>2. SmallSum(g, w, S, 0)
    BY <2>1 DEF SmallSum
  <2> QED
    BY <2>2
<1>2. \A m \in Nat : m \in T => m + 1 \in T
  <2> SUFFICES ASSUME NEW m \in Nat, m \in T
               PROVE  \E h : SmallSum(h, w, S, m + 1)
    OBVIOUS
  <2>1. PICK g : SmallSum(g, w, S, m)
    OBVIOUS
  <2> DEFINE h == [s \in {t \in SUBSET S : Cardinality(t) <= m + 1} |->
                     IF s = {} THEN 0 ELSE w[Some(s)] + g[s \ {Some(s)}]]
  <2>2. \A s \in {t \in SUBSET S : Cardinality(t) <= m} : h[s] = g[s]
    <3> TAKE s \in {t \in SUBSET S : Cardinality(t) <= m}
    <3>1. g[s] = IF s = {} THEN 0 ELSE w[Some(s)] + g[s \ {Some(s)}]
      BY <2>1 DEF SmallSum
    <3>2. s \in {t \in SUBSET S : Cardinality(t) <= m + 1}
      <4>1. Cardinality(s) \in Nat /\ Cardinality(s) <= m
        BY <1>0
      <4> QED
        BY <4>1
    <3>3. h[s] = IF s = {} THEN 0 ELSE w[Some(s)] + g[s \ {Some(s)}]
      BY <3>2
    <3> HIDE DEF h
    <3> QED
      BY <3>1, <3>3
  <2>3. \A s \in {t \in SUBSET S : Cardinality(t) <= m + 1} :
          s # {} => s \ {Some(s)} \in {t \in SUBSET S : Cardinality(t) <= m}
    BY <1>0
  <2>4. SmallSum(h, w, S, m + 1)
    <3>1. \A s \in {t \in SUBSET S : Cardinality(t) <= m + 1} :
            h[s] = IF s = {} THEN 0 ELSE w[Some(s)] + h[s \ {Some(s)}]
      BY <2>2, <2>3
    <3> DEFINE D == {t \in SUBSET S : Cardinality(t) <= m + 1}
    <3>2. h = [s \in D |-> h[s]]
      OBVIOUS
    <3>3. \A s \in D : h[s] = IF s = {} THEN 0 ELSE w[Some(s)] + h[s \ {Some(s)}]
      BY <3>1
    <3> HIDE DEF h, D
    <3>4. h = [s \in D |-> IF s = {} THEN 0 ELSE w[Some(s)] + h[s \ {Some(s)}]]
      BY <3>2, <3>3
    <3> QED
      BY <3>4 DEF SmallSum, D
  <2> QED
    BY <2>4
<1>3. n \in T
  <2> HIDE DEF T
  <2> QED
    BY <1>1, <1>2, NaturalInduction
<1> QED
  BY <1>3

\* SumFunctionOnSet, which adds up what an arena holds, is such a sum.
LEMMA SumUnfolds ==
    ASSUME NEW S, IsFiniteSet(S), NEW w
    PROVE  \E g : IsSum(g, w, S) /\ SumFunctionOnSet(w, S) = g[S]
<1>1. \E g : IsSum(g, w, S)
  <2>1. Cardinality(S) \in Nat
    BY FS_CardinalityType
  <2>2. PICK g : SmallSum(g, w, S, Cardinality(S))
    BY <2>1, SmallSumExists
  <2>3. {t \in SUBSET S : Cardinality(t) <= Cardinality(S)} = SUBSET S
    BY FS_Subset
  <2> QED
    BY <2>2, <2>3 DEF SmallSum, IsSum
<1> DEFINE F == CHOOSE g : IsSum(g, w, S)
<1>2. IsSum(F, w, S)
  BY <1>1
<1>3. SumFunctionOnSet(w, S) = F[S]
  BY DEF SumFunctionOnSet, FoldFunctionOnSet, MapThenFoldSet, IsSum, Some
<1> QED
  BY <1>2, <1>3

\* A sum over A is decided by the weights of the elements of A.
LEMMA SumLocal ==
    ASSUME NEW S, IsFiniteSet(S), NEW R, IsFiniteSet(R), NEW w, NEW v, NEW g, NEW h,
           IsSum(g, w, S), IsSum(h, v, R), NEW A, A \subseteq S, A \subseteq R,
           \A x \in A : w[x] = v[x]
    PROVE  g[A] = h[A]
<1> DEFINE T == {B \in SUBSET A : g[B] = h[B]}
<1>1. {} \in T
  BY DEF IsSum
<1>2. ASSUME NEW B \in SUBSET A, B # {}, \A x \in B : B \ {x} \in T
      PROVE  B \in T
  <2>1. Some(B) \in B
    BY <1>2, SomeIn
  <2>2. g[B \ {Some(B)}] = h[B \ {Some(B)}]
    BY <1>2, <2>1
  <2>3. g[B] = w[Some(B)] + g[B \ {Some(B)}]
    BY <1>2 DEF IsSum
  <2>4. h[B] = v[Some(B)] + h[B \ {Some(B)}]
    BY <1>2 DEF IsSum
  <2> QED
    BY <2>1, <2>2, <2>3, <2>4
<1>3. IsFiniteSet(A)
  BY FS_Subset
<1>4. A \in T
  <2> HIDE DEF T
  <2>1. \A B \in SUBSET A : B # {} /\ (\A x \in B : B \ {x} \in T) => B \in T
    BY <1>2
  <2>2. \A B \in SUBSET A : B \in T
    BY <1>1, <1>3, <2>1, SubsetInduction
  <2> QED
    BY <2>2
<1> QED
  BY <1>4

\* The sum over a set is one weight and the sum over the other elements.
LEMMA SumStep ==
    ASSUME NEW S, IsFiniteSet(S), NEW w
    PROVE  SumFunctionOnSet(w, S) =
             IF S = {} THEN 0
             ELSE w[Some(S)] + SumFunctionOnSet(w, S \ {Some(S)})
<1>1. PICK g : IsSum(g, w, S) /\ SumFunctionOnSet(w, S) = g[S]
  BY SumUnfolds
<1>2. IsFiniteSet(S \ {Some(S)})
  BY FS_RemoveElement
<1>3. PICK h : /\ IsSum(h, w, S \ {Some(S)})
               /\ SumFunctionOnSet(w, S \ {Some(S)}) = h[S \ {Some(S)}]
  BY <1>2, SumUnfolds
<1>4. g[S \ {Some(S)}] = h[S \ {Some(S)}]
  <2>1. S \ {Some(S)} \subseteq S /\ S \ {Some(S)} \subseteq S \ {Some(S)}
    OBVIOUS
  <2>2. \A x \in S \ {Some(S)} : w[x] = w[x]
    OBVIOUS
  <2> QED
    BY <1>1, <1>2, <1>3, <2>1, <2>2, SumLocal
<1>5. g[S] = IF S = {} THEN 0 ELSE w[Some(S)] + g[S \ {Some(S)}]
  BY <1>1 DEF IsSum
<1> QED
  BY <1>1, <1>3, <1>4, <1>5

\* Weights that agree on a set have the same sum over it.
LEMMA SumAgrees ==
    ASSUME NEW S, IsFiniteSet(S), NEW w, NEW v, \A x \in S : w[x] = v[x]
    PROVE  SumFunctionOnSet(w, S) = SumFunctionOnSet(v, S)
<1>1. PICK g : IsSum(g, w, S) /\ SumFunctionOnSet(w, S) = g[S]
  BY SumUnfolds
<1>2. PICK h : IsSum(h, v, S) /\ SumFunctionOnSet(v, S) = h[S]
  BY SumUnfolds
<1>3. S \subseteq S
  OBVIOUS
<1> QED
  BY <1>1, <1>2, <1>3, SumLocal

\* A sum of natural numbers is a natural number.
LEMMA SumNat ==
    ASSUME NEW S, IsFiniteSet(S), NEW w, \A x \in S : w[x] \in Nat
    PROVE  SumFunctionOnSet(w, S) \in Nat
<1> DEFINE T == {A \in SUBSET S : SumFunctionOnSet(w, A) \in Nat}
<1>0. \A A \in SUBSET S : IsFiniteSet(A)
  BY FS_Subset
<1>1. {} \in T
  <2>1. SumFunctionOnSet(w, {}) = 0
    BY <1>0, SumStep
  <2> QED
    BY <2>1
<1>2. ASSUME NEW A \in SUBSET S, A # {}, \A x \in A : A \ {x} \in T
      PROVE  A \in T
  <2>1. Some(A) \in A
    BY <1>2, SomeIn
  <2>2. SumFunctionOnSet(w, A) = w[Some(A)] + SumFunctionOnSet(w, A \ {Some(A)})
    BY <1>0, <1>2, SumStep
  <2> QED
    BY <1>2, <2>1, <2>2
<1>3. S \in T
  <2> HIDE DEF T
  <2>1. \A B \in SUBSET S : B # {} /\ (\A x \in B : B \ {x} \in T) => B \in T
    BY <1>2
  <2>2. \A B \in SUBSET S : B \in T
    BY <1>1, <2>1, SubsetInduction
  <2> QED
    BY <2>2
<1> QED
  BY <1>3

\* The sum over a set is the weight of any one element and the sum over the others:
\* in which order weight() and the arena add up makes no difference.
LEMMA SumRemove ==
    ASSUME NEW S, IsFiniteSet(S), NEW w, \A x \in S : w[x] \in Nat, NEW y \in S
    PROVE  SumFunctionOnSet(w, S) = w[y] + SumFunctionOnSet(w, S \ {y})
<1> DEFINE Sum(A) == SumFunctionOnSet(w, A)
           T == {A \in SUBSET S : \A x \in A : Sum(A) = w[x] + Sum(A \ {x})}
<1>0. \A A \in SUBSET S : IsFiniteSet(A) /\ Sum(A) \in Nat
  <2> TAKE A \in SUBSET S
  <2>1. IsFiniteSet(A)
    BY FS_Subset
  <2> QED
    BY <2>1, SumNat
<1>1. {} \in T
  OBVIOUS
<1>2. ASSUME NEW A \in SUBSET S, A # {}, \A x \in A : A \ {x} \in T
      PROVE  A \in T
  <2> DEFINE c == Some(A)
  <2>1. c \in A
    BY <1>2, SomeIn
  <2>2. Sum(A) = w[c] + Sum(A \ {c})
    BY <1>0, <1>2, SumStep
  <2>3. ASSUME NEW x \in A, x # c
        PROVE  Sum(A) = w[x] + Sum(A \ {x})
    <3>1. Sum(A \ {c}) = w[x] + Sum((A \ {c}) \ {x})
      BY <1>2, <2>1, <2>3
    <3>2. Sum(A \ {x}) = w[c] + Sum((A \ {x}) \ {c})
      BY <1>2, <2>1, <2>3
    <3>3. (A \ {c}) \ {x} = (A \ {x}) \ {c}
      OBVIOUS
    <3>4. Sum((A \ {c}) \ {x}) \in Nat
      BY <1>0
    <3> HIDE DEF Sum, c
    <3> QED
      BY <2>1, <2>2, <3>1, <3>2, <3>3, <3>4
  <2> QED
    BY <2>2, <2>3
<1>3. S \in T
  <2> HIDE DEF T
  <2>1. \A B \in SUBSET S : B # {} /\ (\A x \in B : B \ {x} \in T) => B \in T
    BY <1>2
  <2>2. \A B \in SUBSET S : B \in T
    BY <1>1, <2>1, SubsetInduction
  <2> QED
    BY <2>2
<1> QED
  BY <1>3

-----------------------------------------------------------------------------
(* The nodes of a state *)

\* Fewer and smaller weights have a smaller sum.
LEMMA SumMonotone ==
    ASSUME NEW R, IsFiniteSet(R), NEW S \in SUBSET R, NEW w, NEW v,
           \A x \in S : w[x] \in Nat, \A x \in R : v[x] \in Nat,
           \A x \in S : w[x] <= v[x]
    PROVE  SumFunctionOnSet(w, S) <= SumFunctionOnSet(v, R)
<1> DEFINE T == {A \in SUBSET R : SumFunctionOnSet(w, A \intersect S) <= SumFunctionOnSet(v, A)}
<1>0. \A A \in SUBSET R : /\ IsFiniteSet(A)
                          /\ IsFiniteSet(A \intersect S)
                          /\ SumFunctionOnSet(v, A) \in Nat
                          /\ SumFunctionOnSet(w, A \intersect S) \in Nat
  <2> TAKE A \in SUBSET R
  <2>1. IsFiniteSet(A) /\ IsFiniteSet(A \intersect S)
    BY FS_Subset
  <2> QED
    BY <2>1, SumNat
<1>1. {} \in T
  <2>1. SumFunctionOnSet(w, {}) = 0 /\ SumFunctionOnSet(v, {}) = 0
    BY FS_EmptySet, SumStep
  <2>2. {} \intersect S = {}
    OBVIOUS
  <2> QED
    BY <2>1, <2>2
<1>2. ASSUME NEW A \in SUBSET R, A # {}, \A x \in A : A \ {x} \in T
      PROVE  A \in T
  <2>1. PICK x \in A : TRUE
    BY <1>2
  <2>2. SumFunctionOnSet(v, A) = v[x] + SumFunctionOnSet(v, A \ {x})
    BY <1>0, SumRemove
  <2>3. SumFunctionOnSet(w, (A \ {x}) \intersect S) <= SumFunctionOnSet(v, A \ {x})
    BY <1>2
  <2>4. /\ SumFunctionOnSet(w, (A \ {x}) \intersect S) \in Nat
        /\ SumFunctionOnSet(v, A \ {x}) \in Nat
    BY <1>0
  <2>5. CASE x \in S
    <3>1. SumFunctionOnSet(w, A \intersect S) =
            w[x] + SumFunctionOnSet(w, (A \intersect S) \ {x})
      BY <1>0, <2>5, SumRemove
    <3>2. (A \intersect S) \ {x} = (A \ {x}) \intersect S
      OBVIOUS
    <3>3. w[x] \in Nat /\ v[x] \in Nat /\ w[x] <= v[x]
      BY <2>5
    <3>4. w[x] + SumFunctionOnSet(w, (A \ {x}) \intersect S)
            <= v[x] + SumFunctionOnSet(v, A \ {x})
      BY <2>3, <2>4, <3>3
    <3>5. SumFunctionOnSet(w, A \intersect S) <= SumFunctionOnSet(v, A)
      BY <2>2, <3>1, <3>2, <3>4
    <3> QED
      BY <3>5
  <2>6. CASE x \notin S
    <3>1. A \intersect S = (A \ {x}) \intersect S
      BY <2>6
    <3>2. v[x] \in Nat
      OBVIOUS
    <3>3. SumFunctionOnSet(w, A \intersect S) <= SumFunctionOnSet(v, A \ {x})
      BY <2>3, <3>1
    <3>4. SumFunctionOnSet(w, A \intersect S) <= SumFunctionOnSet(v, A)
      <4>1. SumFunctionOnSet(w, A \intersect S) \in Nat
        BY <1>0
      <4> QED
        BY <2>2, <2>4, <3>2, <3>3, <4>1
    <3> QED
      BY <3>4
  <2> QED
    BY <2>5, <2>6
<1>3. R \in T
  <2> HIDE DEF T
  <2>1. \A B \in SUBSET R : B # {} /\ (\A x \in B : B \ {x} \in T) => B \in T
    BY <1>2
  <2>2. \A B \in SUBSET R : B \in T
    BY <1>1, <2>1, SubsetInduction
  <2> QED
    BY <2>2
<1>4. R \intersect S = S
  OBVIOUS
<1> QED
  BY <1>3, <1>4

\* tree has the nodes of a state down to each depth up to n.
TreeTo(tree, state, n) ==
    tree = [m \in 0 .. n |->
              IF m = 0 THEN {<< <<>>, state >>}
              ELSE {<< <<>>, state >>}
                     \union UNION {Children(node) : node \in tree[m - 1]}]

\* Every state has such a tree.
LEMMA TreeExists ==
    ASSUME NEW state, NEW n \in Nat
    PROVE  \E tree : TreeTo(tree, state, n)
<1> DEFINE T == {m \in Nat : \E tree : TreeTo(tree, state, m)}
<1>1. 0 \in T
  <2> DEFINE tree == [m \in 0 .. 0 |-> {<< <<>>, state >>}]
  <2>1. TreeTo(tree, state, 0)
    BY DEF TreeTo
  <2> QED
    BY <2>1
<1>2. \A m \in Nat : m \in T => m + 1 \in T
  <2> SUFFICES ASSUME NEW m \in Nat, m \in T
               PROVE  \E tree : TreeTo(tree, state, m + 1)
    OBVIOUS
  <2>1. PICK t : TreeTo(t, state, m)
    OBVIOUS
  <2> DEFINE Level(f, k) == IF k = 0 THEN {<< <<>>, state >>}
                           ELSE {<< <<>>, state >>}
                                  \union UNION {Children(node) : node \in f[k - 1]}
             h == [k \in 0 .. m + 1 |-> Level(t, k)]
  <2>2. \A k \in 0 .. m + 1 : h[k] = Level(t, k)
    OBVIOUS
  <2>3. \A k \in 0 .. m : t[k] = Level(t, k)
    BY <2>1 DEF TreeTo
  <2>4. \A k \in 0 .. m : h[k] = t[k]
    <3> HIDE DEF Level, h
    <3>1. 0 .. m \subseteq 0 .. m + 1
      OBVIOUS
    <3> QED
      BY <2>2, <2>3, <3>1
  <2>5. \A k \in 0 .. m + 1 : Level(h, k) = Level(t, k)
    <3> TAKE k \in 0 .. m + 1
    <3>1. CASE k = 0
      BY <3>1
    <3>2. CASE k # 0
      <4>1. k - 1 \in 0 .. m
        BY <3>2
      <4>2. h[k - 1] = t[k - 1]
        BY <2>4, <4>1
      <4> HIDE DEF h
      <4> QED
        BY <4>2
    <3> QED
      BY <3>1, <3>2
  <2>6. h = [k \in 0 .. m + 1 |-> h[k]]
    OBVIOUS
  <2>7. h = [k \in 0 .. m + 1 |-> Level(h, k)]
    <3> HIDE DEF h, Level
    <3> QED
      BY <2>2, <2>5, <2>6
  <2>8. TreeTo(h, state, m + 1)
    <3> HIDE DEF h
    <3> QED
      BY <2>7 DEF TreeTo
  <2> QED
    BY <2>8
<1>3. n \in T
  <2> HIDE DEF T
  <2> QED
    BY <1>1, <1>2, NaturalInduction
<1> QED
  BY <1>3

\* The nodes that weight() walks over, level by level.
LEMMA NodesToIs ==
    ASSUME NEW state
    PROVE  /\ NodesTo(state)[0] = {<< <<>>, state >>}
           /\ \A n \in 1 .. MaxDepth :
                NodesTo(state)[n] = {<< <<>>, state >>}
                  \union UNION {Children(node) : node \in NodesTo(state)[n - 1]}
<1> DEFINE F == CHOOSE tree : TreeTo(tree, state, MaxDepth)
<1>0. MaxDepth \in Nat
  BY ArenaAssumption
<1>1. TreeTo(F, state, MaxDepth)
  BY <1>0, TreeExists
<1>2. NodesTo(state) = F
  BY DEF NodesTo, TreeTo
<1> HIDE DEF F
<1>3. F[0] = {<< <<>>, state >>}
  BY <1>0, <1>1 DEF TreeTo
<1>4. ASSUME NEW n \in 1 .. MaxDepth
      PROVE  F[n] = {<< <<>>, state >>}
                      \union UNION {Children(node) : node \in F[n - 1]}
  <2>1. n \in 0 .. MaxDepth /\ n # 0
    BY <1>0
  <2>2. \A m \in 0 .. MaxDepth :
          F[m] = IF m = 0 THEN {<< <<>>, state >>}
                 ELSE {<< <<>>, state >>}
                        \union UNION {Children(node) : node \in F[m - 1]}
    BY <1>1 DEF TreeTo
  <2> QED
    BY <2>1, <2>2
<1> QED
  BY <1>2, <1>3, <1>4

\* The image of a finite set is finite.
LEMMA FiniteImage ==
    ASSUME NEW S, IsFiniteSet(S), NEW f
    PROVE  IsFiniteSet({f[x] : x \in S})
<1> DEFINE g == [x \in S |-> f[x]]
           R == {f[x] : x \in S}
<1>1. g \in Surjection(S, R)
  BY DEF Surjection
<1> HIDE DEF g, R
<1>2. IsFiniteSet(R)
  BY <1>1, FS_Surjection
<1> QED
  BY <1>2 DEF R

\* A node has finitely many fields.
LEMMA ChildrenFinite ==
    ASSUME NEW node
    PROVE  IsFiniteSet(Children(node))
<1>1. IsFiniteSet(FieldNames(node[2]))
  <2>1. FieldNames(node[2]) \subseteq Field
    BY DEF FieldNames
  <2> QED
    BY <2>1, FS_Subset, ArenaAssumption
<1> DEFINE f == [g \in FieldNames(node[2]) |->
                   <<Append(node[1], g), FieldsOf(node[2])[g]>>]
<1>2. IsFiniteSet({f[g] : g \in FieldNames(node[2])})
  BY <1>1, FiniteImage
<1>3. Children(node) = {f[g] : g \in FieldNames(node[2])}
  BY DEF Children
<1> QED
  BY <1>2, <1>3

\* A state has finitely many nodes.
LEMMA NodesFinite ==
    ASSUME NEW state
    PROVE  IsFiniteSet(Nodes(state))
<1> DEFINE T == {n \in Nat : n <= MaxDepth => IsFiniteSet(NodesTo(state)[n])}
<1>0. MaxDepth \in Nat
  BY ArenaAssumption
<1>1. 0 \in T
  <2>1. IsFiniteSet({<< <<>>, state >>})
    BY FS_Singleton
  <2>2. IsFiniteSet(NodesTo(state)[0])
    BY <2>1, NodesToIs
  <2> QED
    BY <2>2
<1>2. \A n \in Nat : n \in T => n + 1 \in T
  <2> SUFFICES ASSUME NEW n \in Nat, n \in T, n + 1 <= MaxDepth
               PROVE  IsFiniteSet(NodesTo(state)[n + 1])
    OBVIOUS
  <2>1. IsFiniteSet(NodesTo(state)[n])
    BY <1>0
  <2> DEFINE f == [node \in NodesTo(state)[n] |-> Children(node)]
             R == {f[node] : node \in NodesTo(state)[n]}
  <2>2. IsFiniteSet(R)
    BY <2>1, FiniteImage
  <2>3. \A s \in R : IsFiniteSet(s)
    BY ChildrenFinite
  <2>4. IsFiniteSet(UNION R)
    <3> HIDE DEF R
    <3> QED
      BY <2>2, <2>3, FS_UNION
  <2>5. R = {Children(node) : node \in NodesTo(state)[n]}
    OBVIOUS
  <2>6. NodesTo(state)[n + 1] = {<< <<>>, state >>} \union UNION R
    <3>1. n + 1 \in 1 .. MaxDepth /\ (n + 1) - 1 = n
      BY <1>0
    <3> HIDE DEF R
    <3> QED
      BY <2>5, <3>1, NodesToIs
  <2>7. IsFiniteSet({<< <<>>, state >>})
    BY FS_Singleton
  <2> HIDE DEF R
  <2> QED
    BY <2>4, <2>6, <2>7, FS_Union
<1>3. MaxDepth \in T
  <2> HIDE DEF T
  <2> QED
    BY <1>0, <1>1, <1>2, NaturalInduction
<1> QED
  BY <1>0, <1>3 DEF Nodes

\* No node weighs less than 8 bytes, what EntropicState::Consumed weighs.
LEMMA OwnWeightNat ==
    ASSUME NEW state
    PROVE  OwnWeight(state) \in Nat /\ OwnWeight(state) >= 8
  BY DEF OwnWeight

\* What weight() charges for a state with fields is the sum of what its nodes
\* weigh.
LEMMA WeightSum ==
    ASSUME NEW state, HasFields(state)
    PROVE  \E w : /\ \A node \in Nodes(state) : w[node] = OwnWeight(node[2])
                  /\ Weight(state) = SumFunctionOnSet(w, Nodes(state))
<1> DEFINE w == [node \in Nodes(state) |-> OwnWeight(node[2])]
<1>1. DOMAIN w = Nodes(state)
  OBVIOUS
<1>2. SumFunction(w) = SumFunctionOnSet(w, Nodes(state))
  BY <1>1 DEF SumFunction
<1>3. Weight(state) = SumFunctionOnSet(w, Nodes(state))
  BY <1>2 DEF Weight
<1> QED
  BY <1>3

\* A state is a node of itself.
LEMMA RootIsNode ==
    ASSUME NEW state, NEW n \in 0 .. MaxDepth
    PROVE  << <<>>, state >> \in NodesTo(state)[n]
<1>1. MaxDepth \in Nat
  BY ArenaAssumption
<1>2. n = 0 \/ n \in 1 .. MaxDepth
  BY <1>1
<1> QED
  BY <1>2, NodesToIs

\* Every state weighs at least 8 bytes.
LEMMA WeightProperties ==
    ASSUME NEW state
    PROVE  Weight(state) \in Nat /\ Weight(state) >= 8
<1>1. CASE ~HasFields(state)
  BY <1>1, OwnWeightNat DEF Weight
<1>2. CASE HasFields(state)
  <2>1. PICK w : /\ \A node \in Nodes(state) : w[node] = OwnWeight(node[2])
                 /\ Weight(state) = SumFunctionOnSet(w, Nodes(state))
    BY <1>2, WeightSum
  <2> DEFINE root == << <<>>, state >>
  <2>2. IsFiniteSet(Nodes(state)) /\ IsFiniteSet(Nodes(state) \ {root})
    BY NodesFinite, FS_RemoveElement
  <2>3. \A node \in Nodes(state) : w[node] \in Nat
    BY <2>1, OwnWeightNat
  <2>4. root \in Nodes(state)
    BY RootIsNode, ArenaAssumption DEF Nodes
  <2>5. SumFunctionOnSet(w, Nodes(state)) =
          w[root] + SumFunctionOnSet(w, Nodes(state) \ {root})
    BY <2>2, <2>3, <2>4, SumRemove
  <2>6. SumFunctionOnSet(w, Nodes(state) \ {root}) \in Nat
    BY <2>2, <2>3, SumNat
  <2>7. w[root] \in Nat /\ w[root] >= 8
    BY <2>1, <2>4, OwnWeightNat
  <2> HIDE DEF root
  <2> QED
    BY <2>1, <2>5, <2>6, <2>7
<1> QED
  BY <1>1, <1>2

\* A consumed state weighs exactly that.
LEMMA WeightConsumed == Weight(Consumed) = 8
  BY DEF Weight, OwnWeight, HasFields, IsValid, Consumed

-----------------------------------------------------------------------------
(* States that lose a field *)

\* The child of a node is one of its fields.
LEMMA ChildIs ==
    ASSUME NEW path, NEW state, NEW m \in Children(<<path, state>>)
    PROVE  \E g \in FieldNames(state) : m = <<Append(path, g), FieldsOf(state)[g]>>
  BY DEF Children

\* The fields of a node are nodes one level down.
LEMMA ChildOfNode ==
    ASSUME NEW state, NEW n \in Nat, n + 1 <= MaxDepth,
           NEW node \in NodesTo(state)[n], NEW m \in Children(node)
    PROVE  m \in NodesTo(state)[n + 1]
<1>1. n + 1 \in 1 .. MaxDepth /\ (n + 1) - 1 = n
  BY ArenaAssumption
<1> QED
  BY <1>1, NodesToIs

\* A node of t, which is s without the field f: t itself, the hole in place of f,
\* or a node of s elsewhere.
LostNode(s, t, f, m, n) ==
    \/ m = << <<>>, t >>
    \/ m = << <<f>>, Consumed >> /\ f \in FieldNames(t) /\ n >= 1
    \/ /\ m \in NodesTo(s)[n]
       /\ m[1] \in Seq(Field)
       /\ m = <<m[1], m[2]>>
       /\ m[1] # <<>>
       /\ m[1] # <<f>>

\* Those are all the nodes of t.
LEMMA LostNodes ==
    ASSUME NEW s, NEW t, NEW f,
           f \in FieldNames(t) => f \in FieldNames(s) /\ FieldsOf(t)[f] = Consumed,
           \A g \in FieldNames(t) \ {f} : /\ g \in FieldNames(s)
                                          /\ FieldsOf(t)[g] = FieldsOf(s)[g],
           NEW m \in Nodes(t)
    PROVE  LostNode(s, t, f, m, MaxDepth)
<1> DEFINE T == {n \in Nat : n <= MaxDepth =>
                    \A p \in NodesTo(t)[n] : LostNode(s, t, f, p, n)}
<1>0. MaxDepth \in Nat
  BY ArenaAssumption
<1>1. 0 \in T
  <2>1. NodesTo(t)[0] = {<< <<>>, t >>}
    BY NodesToIs
  <2> QED
    BY <2>1 DEF LostNode
<1>2. \A n \in Nat : n \in T => n + 1 \in T
  <2> SUFFICES ASSUME NEW n \in Nat, n \in T, n + 1 <= MaxDepth,
                      NEW q \in NodesTo(t)[n + 1]
               PROVE  LostNode(s, t, f, q, n + 1)
    OBVIOUS
  <2>0. \A p \in NodesTo(t)[n] : LostNode(s, t, f, p, n)
    <3>1. n <= MaxDepth
      BY <1>0
    <3> QED
      BY <3>1
  <2> SUFFICES ASSUME q # << <<>>, t >>
               PROVE  LostNode(s, t, f, q, n + 1)
    BY DEF LostNode
  <2>1. PICK p \in NodesTo(t)[n] : q \in Children(p)
    <3>1. n + 1 \in 1 .. MaxDepth /\ (n + 1) - 1 = n
      BY <1>0
    <3>2. q \in UNION {Children(node) : node \in NodesTo(t)[n]}
      BY <3>1, NodesToIs
    <3> QED
      BY <3>2
  <2>2. LostNode(s, t, f, p, n)
    BY <2>0
  <2>3. CASE p = << <<>>, t >>
    <3>1. PICK g \in FieldNames(t) : q = <<Append(<<>>, g), FieldsOf(t)[g]>>
      <4>1. p[1] = <<>> /\ p[2] = t
        BY <2>3
      <4>2. \E g \in FieldNames(p[2]) : q = <<Append(p[1], g), FieldsOf(p[2])[g]>>
        BY <2>1 DEF Children
      <4> QED
        BY <4>1, <4>2
    <3>2. g \in Field
      BY <3>1 DEF FieldNames
    <3>3. Append(<<>>, g) = <<g>>
      OBVIOUS
    <3>4. CASE g = f
      BY <3>1, <3>3, <3>4 DEF LostNode
    <3>5. CASE g # f
      <4>1. g \in FieldNames(s) /\ q = <<Append(<<>>, g), FieldsOf(s)[g]>>
        BY <3>1, <3>5
      <4>2. q \in Children(<< <<>>, s >>)
        BY <4>1 DEF Children
      <4>3. << <<>>, s >> \in NodesTo(s)[n]
        BY <1>0, RootIsNode
      <4>4. q \in NodesTo(s)[n + 1]
        BY <4>2, <4>3, ChildOfNode
      <4>5. <<g>> # <<f>> /\ <<g>> # <<>> /\ <<g>> \in Seq(Field)
        BY <3>2, <3>5
      <4>6. q[1] = <<g>> /\ q = <<q[1], q[2]>>
        BY <3>1, <3>3
      <4> QED
        BY <4>4, <4>5, <4>6 DEF LostNode
    <3> QED
      BY <3>4, <3>5
  <2>4. CASE p = << <<f>>, Consumed >>
    <3>1. FieldNames(Consumed) = {}
      BY DEF FieldNames, HasFields, IsValid, Consumed
    <3> QED
      BY <2>1, <2>4, <3>1, ChildIs
  <2>5. CASE /\ p \in NodesTo(s)[n]
             /\ p[1] \in Seq(Field)
             /\ p = <<p[1], p[2]>>
             /\ p[1] # <<>>
    <3>1. PICK g \in FieldNames(p[2]) : q = <<Append(p[1], g), FieldsOf(p[2])[g]>>
      BY <2>1, <2>5, ChildIs
    <3>2. g \in Field
      BY <3>1 DEF FieldNames
    <3>3. Append(p[1], g) \in Seq(Field) /\ Len(Append(p[1], g)) = Len(p[1]) + 1
      BY <2>5, <3>2, AppendProperties
    <3>4. Len(p[1]) \in Nat /\ Len(p[1]) # 0
      BY <2>5, EmptySeq, LenProperties
    <3>5. Len(<<f>>) = 1 /\ Len(<<>>) = 0
      OBVIOUS
    <3>6. Append(p[1], g) # <<f>> /\ Append(p[1], g) # <<>>
      <4>1. Len(Append(p[1], g)) # 1 /\ Len(Append(p[1], g)) # 0
        BY <3>3, <3>4
      <4> QED
        BY <3>5, <4>1
    <3>7. q \in NodesTo(s)[n + 1]
      BY <2>1, <2>5, ChildOfNode
    <3>8. q[1] = Append(p[1], g) /\ q = <<q[1], q[2]>>
      BY <3>1
    <3> QED
      BY <3>3, <3>6, <3>7, <3>8 DEF LostNode
  <2> QED
    BY <2>2, <2>3, <2>4, <2>5 DEF LostNode
<1>3. MaxDepth \in T
  <2> HIDE DEF T
  <2> QED
    BY <1>0, <1>1, <1>2, NaturalInduction
<1> QED
  BY <1>0, <1>3 DEF Nodes

\* A state that loses a field, and gets no heavier itself, weighs no more than
\* before: taking a field never needs memory.
LEMMA LostFieldWeight ==
    ASSUME NEW s, NEW t, NEW f, HasFields(s), HasFields(t),
           OwnWeight(t) <= OwnWeight(s),
           f \in FieldNames(t) => f \in FieldNames(s) /\ FieldsOf(t)[f] = Consumed,
           \A g \in FieldNames(t) \ {f} : /\ g \in FieldNames(s)
                                          /\ FieldsOf(t)[g] = FieldsOf(s)[g]
    PROVE  Weight(t) <= Weight(s)
<1>1. PICK v : /\ \A node \in Nodes(t) : v[node] = OwnWeight(node[2])
               /\ Weight(t) = SumFunctionOnSet(v, Nodes(t))
  BY WeightSum
<1>2. PICK w : /\ \A node \in Nodes(s) : w[node] = OwnWeight(node[2])
               /\ Weight(s) = SumFunctionOnSet(w, Nodes(s))
  BY WeightSum
<1>3. PICK roots : roots = << << <<>>, s >>, << <<>>, t >> >>
  OBVIOUS
<1>4. PICK lost : lost = << <<f>>, Consumed >>
  OBVIOUS
<1>5. PICK had : had = << <<f>>, FieldsOf(s)[f] >>
  OBVIOUS
<1> DEFINE rs == roots[1]
           rt == roots[2]
           sumT(A) == SumFunctionOnSet(v, A)
           sumS(A) == SumFunctionOnSet(w, A)
<1>6. MaxDepth \in Nat
  BY ArenaAssumption
<1>7. /\ \A A \in SUBSET Nodes(t) : /\ IsFiniteSet(A)
                                    /\ sumT(A) \in Nat
                                    /\ \A x \in A : v[x] \in Nat
      /\ \A A \in SUBSET Nodes(s) : /\ IsFiniteSet(A)
                                    /\ sumS(A) \in Nat
                                    /\ \A x \in A : w[x] \in Nat
  <2>1. \A A \in SUBSET Nodes(t) : IsFiniteSet(A) /\ \A x \in A : v[x] \in Nat
    BY <1>1, NodesFinite, FS_Subset, OwnWeightNat
  <2>2. \A A \in SUBSET Nodes(s) : IsFiniteSet(A) /\ \A x \in A : w[x] \in Nat
    BY <1>2, NodesFinite, FS_Subset, OwnWeightNat
  <2> QED
    BY <2>1, <2>2, SumNat
<1>8. rt \in Nodes(t) /\ rs \in Nodes(s) /\ v[rt] <= w[rs]
  <2>1. rt \in Nodes(t) /\ rs \in Nodes(s)
    BY <1>3, <1>6, RootIsNode DEF Nodes
  <2>2. v[rt] = OwnWeight(t) /\ w[rs] = OwnWeight(s)
    BY <1>1, <1>2, <1>3, <2>1
  <2> QED
    BY <2>1, <2>2
<1>9. \A m \in Nodes(t) \ {rt, lost} : m \in Nodes(s) \ {rs, had} /\ v[m] = w[m]
  <2> SUFFICES ASSUME NEW m \in Nodes(t) \ {rt, lost}
               PROVE  m \in Nodes(s) \ {rs, had} /\ v[m] = w[m]
    OBVIOUS
  <2>1. LostNode(s, t, f, m, MaxDepth)
    BY LostNodes
  <2>2. m \in Nodes(s) /\ m[1] # <<>> /\ m[1] # <<f>>
    BY <1>3, <1>4, <2>1 DEF LostNode, Nodes
  <2>3. m # rs /\ m # had
    BY <1>3, <1>5, <2>2
  <2>4. v[m] = OwnWeight(m[2]) /\ w[m] = OwnWeight(m[2])
    <3>1. m \in Nodes(t)
      OBVIOUS
    <3> QED
      BY <1>1, <1>2, <2>2, <3>1
  <2> QED
    BY <2>2, <2>3, <2>4
<1>10. sumT(Nodes(t)) = v[rt] + sumT(Nodes(t) \ {rt})
  <2>1. IsFiniteSet(Nodes(t)) /\ \A x \in Nodes(t) : v[x] \in Nat
    BY <1>7
  <2> HIDE DEF rt
  <2> QED
    BY <1>8, <2>1, SumRemove
<1>11. sumS(Nodes(s)) = w[rs] + sumS(Nodes(s) \ {rs})
  <2>1. IsFiniteSet(Nodes(s)) /\ \A x \in Nodes(s) : w[x] \in Nat
    BY <1>7
  <2> HIDE DEF rs
  <2> QED
    BY <1>8, <2>1, SumRemove
<1>12. sumT(Nodes(t) \ {rt}) <= sumS(Nodes(s) \ {rs})
  <2>1. CASE lost \notin Nodes(t)
    <3>1. Nodes(t) \ {rt} \in SUBSET (Nodes(s) \ {rs})
      BY <1>9, <2>1
    <3>2. \A x \in Nodes(t) \ {rt} : v[x] \in Nat /\ v[x] <= w[x]
      BY <1>7, <1>9, <2>1
    <3>3. IsFiniteSet(Nodes(s) \ {rs}) /\ \A x \in Nodes(s) \ {rs} : w[x] \in Nat
      BY <1>7
    <3> QED
      BY <3>1, <3>2, <3>3, SumMonotone
  <2>2. CASE lost \in Nodes(t)
    <3>1. f \in FieldNames(t) /\ MaxDepth >= 1
      <4>1. LostNode(s, t, f, lost, MaxDepth)
        BY <2>2, LostNodes
      <4>2. lost[1] = <<f>> /\ lost # rt
        BY <1>3, <1>4
      <4> QED
        BY <1>3, <4>1, <4>2 DEF LostNode
    <3>2. had \in Nodes(s) /\ had # rs
      <4>1. had \in Children(rs)
        <5>1. Append(<<>>, f) = <<f>>
          OBVIOUS
        <5> QED
          BY <1>3, <1>5, <3>1, <5>1 DEF Children
      <4>2. rs \in NodesTo(s)[MaxDepth - 1]
        BY <1>3, <1>6, <3>1, RootIsNode
      <4>3. had \in NodesTo(s)[(MaxDepth - 1) + 1]
        BY <1>6, <3>1, <4>1, <4>2, ChildOfNode
      <4>4. (MaxDepth - 1) + 1 = MaxDepth
        BY <1>6
      <4>5. had # rs
        BY <1>3, <1>5
      <4> QED
        BY <4>3, <4>4, <4>5 DEF Nodes
    <3>3. lost # rt
      BY <1>3, <1>4
    <3>4. sumT(Nodes(t) \ {rt}) = v[lost] + sumT((Nodes(t) \ {rt}) \ {lost})
      BY <1>7, <2>2, <3>3, SumRemove
    <3>5. sumS(Nodes(s) \ {rs}) = w[had] + sumS((Nodes(s) \ {rs}) \ {had})
      BY <1>7, <3>2, SumRemove
    <3>6. v[lost] = 8 /\ w[had] \in Nat /\ w[had] >= 8
      <4>1. v[lost] = OwnWeight(Consumed)
        BY <1>1, <1>4, <2>2
      <4>2. OwnWeight(Consumed) = 8
        BY DEF OwnWeight, Consumed
      <4>3. w[had] = OwnWeight(had[2])
        BY <1>2, <3>2
      <4> QED
        BY <4>1, <4>2, <4>3, OwnWeightNat
    <3>7. sumT((Nodes(t) \ {rt}) \ {lost}) <= sumS((Nodes(s) \ {rs}) \ {had})
      <4> DEFINE A == (Nodes(t) \ {rt}) \ {lost}
                 B == (Nodes(s) \ {rs}) \ {had}
      <4>1. A \in SUBSET B
        BY <1>9
      <4>2. \A x \in A : v[x] \in Nat /\ v[x] <= w[x]
        BY <1>7, <1>9
      <4>3. IsFiniteSet(B) /\ \A x \in B : w[x] \in Nat
        BY <1>7
      <4> HIDE DEF A, B
      <4> QED
        BY <4>1, <4>2, <4>3, SumMonotone DEF A, B
    <3>8. /\ sumT((Nodes(t) \ {rt}) \ {lost}) \in Nat
          /\ sumS((Nodes(s) \ {rs}) \ {had}) \in Nat
      BY <1>7
    <3> HIDE DEF sumT, sumS, rt, rs
    <3> QED
      BY <3>4, <3>5, <3>6, <3>7, <3>8
  <2> QED
    BY <2>1, <2>2
<1>13. /\ sumT(Nodes(t) \ {rt}) \in Nat /\ sumS(Nodes(s) \ {rs}) \in Nat
       /\ v[rt] \in Nat /\ w[rs] \in Nat
  BY <1>7, <1>8
<1>14. sumT(Nodes(t)) <= sumS(Nodes(s))
  <2> HIDE DEF sumT, sumS, rt, rs
  <2> QED
    BY <1>8, <1>10, <1>11, <1>12, <1>13
<1> QED
  BY <1>1, <1>2, <1>14

-----------------------------------------------------------------------------
(* What the bindings of an arena weigh *)

\* w charges each name of D for its key and the state bound to it.
FootprintOf(w, D, bindings) ==
    \A k \in D : w[k] = KeyWeight + Weight(bindings[k])

\* The footprint of the bindings is the sum of these charges.
LEMMA FootprintSum ==
    ASSUME NEW bindings
    PROVE  \E w : /\ FootprintOf(w, DOMAIN bindings, bindings)
                  /\ Footprint(bindings) = SumFunctionOnSet(w, DOMAIN bindings)
<1> DEFINE w == [k \in DOMAIN bindings |-> KeyWeight + Weight(bindings[k])]
<1>1. DOMAIN w = DOMAIN bindings
  OBVIOUS
<1>2. SumFunction(w) = SumFunctionOnSet(w, DOMAIN bindings)
  BY <1>1 DEF SumFunction
<1>3. Footprint(bindings) = SumFunctionOnSet(w, DOMAIN bindings)
  BY <1>2 DEF Footprint
<1>4. FootprintOf(w, DOMAIN bindings, bindings)
  BY DEF FootprintOf
<1> QED
  BY <1>3, <1>4

\* An arena binds finitely many names.
LEMMA NamesFinite ==
    ASSUME NEW D, D \subseteq Name
    PROVE  IsFiniteSet(D)
  BY FS_Subset, EntangledAssumption

\* Each charge is a natural number and so is their sum.
LEMMA FootprintNat ==
    ASSUME NEW w, NEW D, D \subseteq Name, NEW bindings, FootprintOf(w, D, bindings)
    PROVE  /\ \A k \in D : w[k] \in Nat
           /\ SumFunctionOnSet(w, D) \in Nat
<1>1. KeyWeight \in Nat
  BY ArenaAssumption
<1>2. \A k \in D : w[k] \in Nat
  BY <1>1, WeightProperties DEF FootprintOf
<1> QED
  BY <1>2, NamesFinite, SumNat

\* rest is what the bindings of the names other than k weigh.
FootprintAround(bindings, k, rest) ==
    /\ rest \in Nat
    /\ k \in DOMAIN bindings =>
         Footprint(bindings) = rest + KeyWeight + Weight(bindings[k])
    /\ k \notin DOMAIN bindings => Footprint(bindings) = rest
    /\ \A s : k \in Name =>
         Footprint(Put(bindings, k, s)) = rest + KeyWeight + Weight(s)
    /\ Footprint(Drop(bindings, k)) = rest

\* The footprint changes with the binding of one name as if it were alone: that
\* is why the arena can keep "used" by adding and subtracting.
LEMMA FootprintRest ==
    ASSUME NEW bindings, DOMAIN bindings \subseteq Name, NEW k
    PROVE  \E rest : FootprintAround(bindings, k, rest)
<1> DEFINE D == DOMAIN bindings
<1>1. PICK w : /\ FootprintOf(w, D, bindings)
               /\ Footprint(bindings) = SumFunctionOnSet(w, D)
  BY FootprintSum
<1> DEFINE rest == SumFunctionOnSet(w, D \ {k})
<1>2. /\ FootprintOf(w, D \ {k}, bindings) /\ D \ {k} \subseteq Name
      /\ IsFiniteSet(D) /\ IsFiniteSet(D \ {k})
  BY <1>1, NamesFinite DEF FootprintOf
<1>3. rest \in Nat
  <2> HIDE DEF D
  <2> QED
    BY <1>2, FootprintNat
<1>4. ASSUME k \in D
      PROVE  Footprint(bindings) = rest + KeyWeight + Weight(bindings[k])
  <2>1. \A x \in D : w[x] \in Nat
    BY <1>1, FootprintNat
  <2>2. SumFunctionOnSet(w, D) = w[k] + rest
    <3> HIDE DEF D
    <3> QED
      BY <1>2, <1>4, <2>1, SumRemove
  <2>3. w[k] = KeyWeight + Weight(bindings[k])
    BY <1>1, <1>4 DEF FootprintOf
  <2>4. KeyWeight \in Nat /\ Weight(bindings[k]) \in Nat
    BY ArenaAssumption, WeightProperties
  <2> HIDE DEF rest
  <2> QED
    BY <1>1, <1>3, <2>2, <2>3, <2>4
<1>5. ASSUME k \notin D
      PROVE  Footprint(bindings) = rest
  <2>1. D \ {k} = D
    BY <1>5
  <2> QED
    BY <1>1, <2>1
<1>6. ASSUME NEW s, k \in Name
      PROVE  Footprint(Put(bindings, k, s)) = rest + KeyWeight + Weight(s)
  <2> DEFINE b == Put(bindings, k, s)
             E == D \union {k}
  <2>1. DOMAIN b = E /\ b[k] = s /\ \A x \in D \ {k} : b[x] = bindings[x]
    BY DEF Put
  <2>2. E \subseteq Name /\ IsFiniteSet(E) /\ E \ {k} = D \ {k} /\ k \in E
    <3>1. E \subseteq Name
      BY <1>6
    <3> QED
      BY <3>1, NamesFinite
  <2> HIDE DEF D, E, b
  <2>3. PICK v : /\ FootprintOf(v, E, b)
                 /\ Footprint(b) = SumFunctionOnSet(v, E)
    BY <2>1, FootprintSum
  <2>4. \A x \in E : v[x] \in Nat
    BY <2>2, <2>3, FootprintNat
  <2>5. SumFunctionOnSet(v, E) = v[k] + SumFunctionOnSet(v, E \ {k})
    BY <2>2, <2>4, SumRemove
  <2>6. \A x \in D \ {k} : v[x] = w[x]
    BY <1>1, <2>1, <2>2, <2>3 DEF FootprintOf
  <2>7. SumFunctionOnSet(v, D \ {k}) = rest
    BY <1>2, <2>6, SumAgrees
  <2>8. v[k] = KeyWeight + Weight(s)
    BY <2>1, <2>2, <2>3 DEF FootprintOf
  <2>9. KeyWeight \in Nat /\ Weight(s) \in Nat
    BY ArenaAssumption, WeightProperties
  <2>10. Footprint(b) = (KeyWeight + Weight(s)) + rest
    BY <2>2, <2>3, <2>5, <2>7, <2>8
  <2> HIDE DEF rest
  <2>11. Footprint(b) = rest + KeyWeight + Weight(s)
    BY <1>3, <2>9, <2>10
  <2> QED
    BY <2>11 DEF b
<1>7. Footprint(Drop(bindings, k)) = rest
  <2> DEFINE b == Drop(bindings, k)
  <2>1. DOMAIN b = D \ {k} /\ \A x \in D \ {k} : b[x] = bindings[x]
    BY DEF Drop, Restrict
  <2> HIDE DEF D, b
  <2>2. PICK v : /\ FootprintOf(v, D \ {k}, b)
                 /\ Footprint(b) = SumFunctionOnSet(v, D \ {k})
    BY <2>1, FootprintSum
  <2>3. \A x \in D \ {k} : v[x] = w[x]
    BY <1>1, <2>1, <2>2 DEF FootprintOf
  <2>4. SumFunctionOnSet(v, D \ {k}) = rest
    BY <1>2, <2>3, SumAgrees
  <2> QED
    BY <2>2, <2>4 DEF b
<1> HIDE DEF rest
<1> QED
  BY <1>3, <1>4, <1>5, <1>6, <1>7 DEF FootprintAround

\* Fewer bindings weigh less: compact_consumed and a parent that is left out of
\* the map never raise the footprint.
LEMMA FootprintKept ==
    ASSUME NEW b, NEW c, DOMAIN b \subseteq Name, DOMAIN c \subseteq DOMAIN b,
           \A k \in DOMAIN c : c[k] = b[k]
    PROVE  /\ Footprint(c) \in Nat /\ Footprint(b) \in Nat
           /\ Footprint(c) <= Footprint(b)
<1>1. PICK w : /\ FootprintOf(w, DOMAIN b, b)
               /\ Footprint(b) = SumFunctionOnSet(w, DOMAIN b)
  BY FootprintSum
<1>2. PICK v : /\ FootprintOf(v, DOMAIN c, c)
               /\ Footprint(c) = SumFunctionOnSet(v, DOMAIN c)
  BY FootprintSum
<1>3. DOMAIN c \subseteq Name
  OBVIOUS
<1>4. \A k \in DOMAIN b : w[k] \in Nat
  BY <1>1, FootprintNat
<1>5. \A k \in DOMAIN c : v[k] \in Nat
  BY <1>2, <1>3, FootprintNat
<1>6. \A k \in DOMAIN c : v[k] <= w[k]
  <2> TAKE k \in DOMAIN c
  <2>1. v[k] = w[k]
    BY <1>1, <1>2 DEF FootprintOf
  <2> QED
    BY <1>5, <2>1
<1>7. IsFiniteSet(DOMAIN b) /\ DOMAIN c \in SUBSET DOMAIN b
  BY NamesFinite
<1>8. SumFunctionOnSet(v, DOMAIN c) <= SumFunctionOnSet(w, DOMAIN b)
  BY <1>4, <1>5, <1>6, <1>7, SumMonotone
<1> QED
  BY <1>1, <1>2, <1>3, <1>8, FootprintNat

-----------------------------------------------------------------------------
(* The operations of the arena *)

\* The arena is what Arena says it is and charges for at least what it holds.
Sound(arena) ==
    /\ arena = [capacity |-> arena.capacity, used |-> arena.used,
                bindings |-> arena.bindings]
    /\ arena.capacity \in Nat
    /\ arena.used \in Nat
    /\ DOMAIN arena.bindings \subseteq Name
    /\ Footprint(arena.bindings) <= arena.used

\* The arena has not taken any memory.
Shrinks(before, after) ==
    /\ after.capacity = before.capacity
    /\ after.used <= before.used

\* The arena has not taken memory beyond its capacity.
Fits(before, after) ==
    /\ after.capacity = before.capacity
    /\ after.used <= before.used \/ after.used <= after.capacity

\* An arena with other bindings and another use, written out.
LEMMA ArenaUpdate ==
    ASSUME NEW arena, NEW used, NEW bindings,
           arena = [capacity |-> arena.capacity, used |-> arena.used,
                    bindings |-> arena.bindings]
    PROVE  [arena EXCEPT !.used = used, !.bindings = bindings] =
             [capacity |-> arena.capacity, used |-> used, bindings |-> bindings]
<1> DEFINE after == [arena EXCEPT !.used = used, !.bindings = bindings]
<1>1. DOMAIN arena = {"capacity", "used", "bindings"}
  OBVIOUS
<1>2. after = [x \in DOMAIN arena |->
                 IF x = "bindings" THEN bindings
                 ELSE IF x = "used" THEN used ELSE arena[x]]
  OBVIOUS
<1> QED
  BY <1>1, <1>2

\* An empty arena is sound.
LEMMA NewArenaSound ==
    ASSUME NEW capacity \in Nat
    PROVE  Sound(NewArena(capacity))
<1> DEFINE arena == NewArena(capacity)
<1>1. /\ arena.capacity = capacity /\ arena.used = 0
      /\ arena.bindings = <<>> /\ DOMAIN arena.bindings = {}
      /\ arena = [capacity |-> arena.capacity, used |-> arena.used,
                  bindings |-> arena.bindings]
  BY EmptyDomain DEF NewArena
<1> HIDE DEF arena
<1>2. PICK w : Footprint(arena.bindings) = SumFunctionOnSet(w, {})
  BY <1>1, FootprintSum
<1>3. SumFunctionOnSet(w, {}) = 0
  BY FS_EmptySet, SumStep
<1>4. Sound(arena)
  BY <1>1, <1>2, <1>3 DEF Sound
<1> QED
  BY <1>4 DEF arena

\* An arena stays sound when the state of a binding changes and "used" follows:
\* saturating_sub does not saturate.
LEMMA ChangeSound ==
    ASSUME NEW arena, Sound(arena), NEW k \in DOMAIN arena.bindings, NEW state
    PROVE  /\ Sound(Change(arena, k, state))
           /\ Change(arena, k, state).capacity = arena.capacity
           /\ Change(arena, k, state).bindings = Put(arena.bindings, k, state)
           /\ Change(arena, k, state).used =
                arena.used - Weight(arena.bindings[k]) + Weight(state)
           /\ Weight(arena.bindings[k]) <= arena.used
<1> DEFINE after == Change(arena, k, state)
<1>1. PICK rest : FootprintAround(arena.bindings, k, rest)
  BY FootprintRest DEF Sound
<1>2. /\ arena.used \in Nat /\ KeyWeight \in Nat /\ rest \in Nat
      /\ Weight(state) \in Nat /\ Weight(arena.bindings[k]) \in Nat
      /\ rest + KeyWeight + Weight(arena.bindings[k]) <= arena.used
  BY <1>1, WeightProperties, ArenaAssumption DEF Sound, FootprintAround
<1>3. SaturatingSub(arena.used, Weight(arena.bindings[k])) =
        arena.used - Weight(arena.bindings[k])
  BY <1>2 DEF SaturatingSub
<1>4. /\ after.capacity = arena.capacity
      /\ after.bindings = Put(arena.bindings, k, state)
      /\ after.used = arena.used - Weight(arena.bindings[k]) + Weight(state)
      /\ after = [capacity |-> after.capacity, used |-> after.used,
                  bindings |-> after.bindings]
  <2>1. PICK used : used = SaturatingSub(arena.used, Weight(arena.bindings[k]))
                             + Weight(state)
    OBVIOUS
  <2>2. PICK bindings : bindings = Put(arena.bindings, k, state)
    OBVIOUS
  <2>3. after = [arena EXCEPT !.used = used, !.bindings = bindings]
    BY <2>1, <2>2 DEF Change
  <2>4. after = [capacity |-> arena.capacity, used |-> used, bindings |-> bindings]
    BY <2>3, ArenaUpdate DEF Sound
  <2>5. used = arena.used - Weight(arena.bindings[k]) + Weight(state)
    BY <1>3, <2>1
  <2> HIDE DEF after
  <2> QED
    BY <2>2, <2>4, <2>5
<1>5. k \in Name
  BY DEF Sound
<1>6. Footprint(after.bindings) = rest + KeyWeight + Weight(state)
  BY <1>1, <1>4, <1>5 DEF FootprintAround
<1>7. DOMAIN after.bindings \subseteq Name
  BY <1>4, <1>5 DEF Put, Sound
<1> HIDE DEF after
<1>8. after.used \in Nat /\ Footprint(after.bindings) <= after.used
  BY <1>2, <1>4, <1>6
<1>9. Sound(after)
  BY <1>4, <1>7, <1>8 DEF Sound
<1> QED
  BY <1>2, <1>4, <1>9 DEF after

\* It shrinks when the new state weighs no more than the old one.
LEMMA ChangeShrinks ==
    ASSUME NEW arena, Sound(arena), NEW k \in DOMAIN arena.bindings, NEW state,
           Weight(state) <= Weight(arena.bindings[k])
    PROVE  /\ Sound(Change(arena, k, state))
           /\ Shrinks(arena, Change(arena, k, state))
<1>1. /\ arena.used \in Nat /\ Weight(arena.bindings[k]) \in Nat
      /\ Weight(state) \in Nat
  BY WeightProperties DEF Sound
<1>2. arena.used - Weight(arena.bindings[k]) + Weight(state) <= arena.used
  BY <1>1
<1> QED
  BY <1>2, ChangeSound DEF Shrinks

\* Consuming a binding shrinks the arena.
LEMMA ChangeConsumed ==
    ASSUME NEW arena, Sound(arena), NEW k \in DOMAIN arena.bindings
    PROVE  /\ Sound(Change(arena, k, Consumed))
           /\ Shrinks(arena, Change(arena, k, Consumed))
<1>1. Weight(Consumed) <= Weight(arena.bindings[k])
  BY WeightConsumed, WeightProperties
<1> QED
  BY <1>1, ChangeShrinks

\* An operation that fails and leaves the arena as it is.
LEMMA UnchangedShrinks ==
    ASSUME NEW arena, Sound(arena)
    PROVE  Shrinks(arena, arena)
  BY DEF Sound, Shrinks

\* insert keeps the arena sound and within its capacity, and binds the name.
LEMMA InsertSound ==
    ASSUME NEW arena, Sound(arena), NEW k \in Name, NEW state
    PROVE  /\ Sound(Insert(arena, k, state).arena)
           /\ Fits(arena, Insert(arena, k, state).arena)
           /\ Insert(arena, k, state).error = "none" =>
                Insert(arena, k, state).arena.bindings =
                  Put(arena.bindings, k, state)
<1>1. PICK rest : FootprintAround(arena.bindings, k, rest)
  BY FootprintRest DEF Sound
<1>2. PICK used :
        used = Weight(state) +
                 (IF k \in DOMAIN arena.bindings
                  THEN SaturatingSub(arena.used, Weight(arena.bindings[k]))
                  ELSE arena.used + KeyWeight)
  OBVIOUS
<1>3. /\ arena.used \in Nat /\ KeyWeight \in Nat /\ rest \in Nat
      /\ Weight(state) \in Nat /\ arena.capacity \in Nat
  BY <1>1, WeightProperties, ArenaAssumption DEF Sound, FootprintAround
<1>4. used \in Nat /\ rest + KeyWeight + Weight(state) <= used
  <2>1. CASE k \in DOMAIN arena.bindings
    <3>1. /\ Weight(arena.bindings[k]) \in Nat
          /\ rest + KeyWeight + Weight(arena.bindings[k]) <= arena.used
      BY <1>1, <2>1, WeightProperties DEF Sound, FootprintAround
    <3> QED
      BY <1>2, <1>3, <2>1, <3>1 DEF SaturatingSub
  <2>2. CASE k \notin DOMAIN arena.bindings
    <3>1. rest <= arena.used
      BY <1>1, <2>2 DEF Sound, FootprintAround
    <3> QED
      BY <1>2, <1>3, <2>2, <3>1
  <2> QED
    BY <2>1, <2>2
<1>5. CASE used > arena.capacity
  <2>1. Insert(arena, k, state) = Err("OutOfMemory", arena)
    BY <1>2, <1>5 DEF Insert
  <2>2. /\ Insert(arena, k, state).arena = arena
        /\ Insert(arena, k, state).error # "none"
    BY <2>1 DEF Err
  <2> QED
    BY <2>2, UnchangedShrinks DEF Fits, Shrinks
<1>6. CASE ~ (used > arena.capacity)
  <2> DEFINE after == [arena EXCEPT !.used = used,
                                    !.bindings = Put(@, k, state)]
  <2>1. Insert(arena, k, state) = Ok(after, state)
    BY <1>2, <1>6 DEF Insert
  <2>2. Insert(arena, k, state).arena = after
    BY <2>1 DEF Ok
  <2>3. /\ after.capacity = arena.capacity /\ after.used = used
        /\ after.bindings = Put(arena.bindings, k, state)
        /\ after = [capacity |-> after.capacity, used |-> after.used,
                    bindings |-> after.bindings]
    <3>1. PICK bindings : bindings = Put(arena.bindings, k, state)
      OBVIOUS
    <3>2. after = [arena EXCEPT !.used = used, !.bindings = bindings]
      BY <3>1
    <3>3. after = [capacity |-> arena.capacity, used |-> used, bindings |-> bindings]
      BY <3>2, ArenaUpdate DEF Sound
    <3> HIDE DEF after
    <3> QED
      BY <3>1, <3>3
  <2> HIDE DEF after
  <2>4. Footprint(after.bindings) = rest + KeyWeight + Weight(state)
    BY <1>1, <2>3 DEF FootprintAround
  <2>5. DOMAIN after.bindings \subseteq Name
    BY <2>3 DEF Put, Sound
  <2>6. Sound(after)
    BY <1>3, <1>4, <2>3, <2>4, <2>5 DEF Sound
  <2>7. Fits(arena, after)
    BY <1>3, <1>4, <1>6, <2>3 DEF Fits
  <2> QED
    BY <2>2, <2>3, <2>6, <2>7
<1> QED
  BY <1>5, <1>6

\* compact_consumed computes "used" anew and gives memory back.
LEMMA CompactSound ==
    ASSUME NEW arena, Sound(arena)
    PROVE  /\ Sound(CompactConsumed(arena))
           /\ Shrinks(arena, CompactConsumed(arena))
<1> DEFINE kept == RestrictValues(arena.bindings, LAMBDA s : s.tag # "Consumed")
           after == CompactConsumed(arena)
<1>1. /\ DOMAIN kept \subseteq DOMAIN arena.bindings
      /\ \A k \in DOMAIN kept : kept[k] = arena.bindings[k]
  BY DEF RestrictValues, Restrict
<1>2. /\ after.capacity = arena.capacity /\ after.used = Footprint(kept)
      /\ after.bindings = kept
      /\ after = [capacity |-> after.capacity, used |-> after.used,
                  bindings |-> after.bindings]
  <2>1. PICK used : used = Footprint(kept)
    OBVIOUS
  <2>2. PICK bindings : bindings = kept
    OBVIOUS
  <2>3. after = [arena EXCEPT !.used = used, !.bindings = bindings]
    BY <2>1, <2>2 DEF CompactConsumed
  <2>4. after = [capacity |-> arena.capacity, used |-> used, bindings |-> bindings]
    BY <2>3, ArenaUpdate DEF Sound
  <2> HIDE DEF after, kept
  <2> QED
    BY <2>1, <2>2, <2>4
<1> HIDE DEF kept, after
<1>3. /\ Footprint(kept) \in Nat /\ Footprint(arena.bindings) \in Nat
      /\ Footprint(kept) <= Footprint(arena.bindings)
  BY <1>1, FootprintKept DEF Sound
<1>4. Sound(after)
  BY <1>1, <1>2, <1>3 DEF Sound
<1>5. Shrinks(arena, after)
  BY <1>2, <1>3 DEF Shrinks, Sound
<1> QED
  BY <1>4, <1>5 DEF after

\* A parent that is taken out of the map and not put back leaves "used" too high,
\* never too low.
LEMMA DropSound ==
    ASSUME NEW arena, Sound(arena), NEW k
    PROVE  /\ Sound([arena EXCEPT !.bindings = Drop(@, k)])
           /\ Shrinks(arena, [arena EXCEPT !.bindings = Drop(@, k)])
<1> DEFINE after == [arena EXCEPT !.bindings = Drop(@, k)]
<1>1. /\ after.capacity = arena.capacity /\ after.used = arena.used
      /\ after.bindings = Drop(arena.bindings, k)
      /\ after = [capacity |-> after.capacity, used |-> after.used,
                  bindings |-> after.bindings]
  BY DEF Sound
<1> HIDE DEF after
<1>2. /\ DOMAIN after.bindings \subseteq DOMAIN arena.bindings
      /\ \A x \in DOMAIN after.bindings : after.bindings[x] = arena.bindings[x]
  BY <1>1 DEF Drop, Restrict
<1>3. /\ Footprint(after.bindings) \in Nat /\ Footprint(arena.bindings) \in Nat
      /\ Footprint(after.bindings) <= Footprint(arena.bindings)
  BY <1>2, FootprintKept DEF Sound
<1>4. Sound(after) /\ Shrinks(arena, after)
  BY <1>1, <1>2, <1>3 DEF Sound, Shrinks
<1> QED
  BY <1>4 DEF after

\* So does one that is put back as consumed without being paid for.
LEMMA PutConsumedSound ==
    ASSUME NEW arena, Sound(arena), NEW k \in DOMAIN arena.bindings
    PROVE  /\ Sound([arena EXCEPT !.bindings = Put(@, k, Consumed)])
           /\ Shrinks(arena, [arena EXCEPT !.bindings = Put(@, k, Consumed)])
<1> DEFINE after == [arena EXCEPT !.bindings = Put(@, k, Consumed)]
<1>1. /\ after.capacity = arena.capacity /\ after.used = arena.used
      /\ after.bindings = Put(arena.bindings, k, Consumed)
      /\ after = [capacity |-> after.capacity, used |-> after.used,
                  bindings |-> after.bindings]
  BY DEF Sound
<1> HIDE DEF after
<1>2. PICK rest : FootprintAround(arena.bindings, k, rest)
  BY FootprintRest DEF Sound
<1>3. k \in Name
  BY DEF Sound
<1>4. Footprint(after.bindings) = rest + KeyWeight + 8
  BY <1>1, <1>2, <1>3, WeightConsumed DEF FootprintAround
<1>5. /\ Footprint(arena.bindings) = rest + KeyWeight + Weight(arena.bindings[k])
      /\ Weight(arena.bindings[k]) \in Nat /\ Weight(arena.bindings[k]) >= 8
      /\ rest \in Nat /\ KeyWeight \in Nat
  BY <1>2, WeightProperties, ArenaAssumption DEF FootprintAround
<1>6. DOMAIN after.bindings \subseteq Name
  BY <1>1, <1>3 DEF Put, Sound
<1>7. Sound(after)
  BY <1>1, <1>4, <1>5, <1>6 DEF Sound
<1>8. Shrinks(arena, after)
  BY <1>1 DEF Shrinks, Sound
<1> QED
  BY <1>7, <1>8 DEF after

-----------------------------------------------------------------------------
(* Operations that take no memory *)

\* The operation leaves a sound arena that has taken no memory.
Harmless(before, after) == Sound(after) /\ Shrinks(before, after)

\* The arena that an operation leaves.
LEMMA ResultArena ==
    ASSUME NEW arena, NEW state, NEW e
    PROVE  Ok(arena, state).arena = arena /\ Err(e, arena).arena = arena
  BY DEF Ok, Err

\* A state with fields is that of a binding: names without one read as consumed.
LEMMA FieldsNeedBinding ==
    ASSUME NEW arena, NEW k, HasFields(StateOf(arena, k)) \/ IsValid(StateOf(arena, k))
    PROVE  k \in DOMAIN arena.bindings /\ StateOf(arena, k) = arena.bindings[k]
  BY DEF StateOf, HasFields, IsValid, Consumed

\* Which of the cases that the arena distinguishes exclude each other.
LEMMA StateFacts ==
    ASSUME NEW arena, NEW k
    PROVE  /\ k \notin DOMAIN arena.bindings => /\ ~HasFields(StateOf(arena, k))
                                               /\ ~IsValid(StateOf(arena, k))
                                               /\ StateOf(arena, k).tag # "Decayed"
           /\ StateOf(arena, k).tag = "Decayed" => /\ HasFields(StateOf(arena, k))
                                                  /\ ~IsValid(StateOf(arena, k))
           /\ /\ IsValid(StateOf(arena, k))
              /\ StateOf(arena, k).payload.kind \in {"struct", "topology"}
              => HasFields(StateOf(arena, k))
  BY DEF StateOf, HasFields, IsValid, Consumed

\* The decayed parent of a field that was taken weighs no more than the parent
\* did.
LEMMA TakenFieldWeight ==
    ASSUME NEW state, HasFields(state), NEW f \in DOMAIN FieldsOf(state)
    PROVE  Weight(Decayed(Put(FieldsOf(state), f, Consumed))) <= Weight(state)
<1> DEFINE t == Decayed(Put(FieldsOf(state), f, Consumed))
<1>1. HasFields(t) /\ FieldsOf(t) = Put(FieldsOf(state), f, Consumed)
  BY DEF HasFields, FieldsOf, Decayed
<1>2. OwnWeight(t) <= OwnWeight(state)
  BY DEF OwnWeight, HasFields, IsValid, Decayed
<1>3. /\ DOMAIN FieldsOf(t) = DOMAIN FieldsOf(state)
      /\ FieldsOf(t)[f] = Consumed
      /\ \A g \in DOMAIN FieldsOf(state) \ {f} :
            FieldsOf(t)[g] = FieldsOf(state)[g]
  BY <1>1 DEF Put
<1>4. FieldNames(t) = FieldNames(state)
  BY <1>1, <1>3 DEF FieldNames
<1> HIDE DEF t
<1>5. \A g \in FieldNames(t) \ {f} : /\ g \in FieldNames(state)
                                     /\ FieldsOf(t)[g] = FieldsOf(state)[g]
  BY <1>1, <1>3, <1>4 DEF FieldNames
<1>6. f \in FieldNames(t) => f \in FieldNames(state) /\ FieldsOf(t)[f] = Consumed
  BY <1>3, <1>4
<1>7. Weight(t) <= Weight(state)
  BY <1>1, <1>2, <1>5, <1>6, LostFieldWeight
<1> QED
  BY <1>7 DEF t

\* A struct that decays weighs no more than before.
LEMMA DecayedWeight ==
    ASSUME NEW state, IsValid(state), state.payload.kind = "struct"
    PROVE  Weight(Decayed(state.payload.fields)) <= Weight(state)
<1> DEFINE t == Decayed(state.payload.fields)
<1>1. /\ HasFields(t) /\ HasFields(state)
      /\ FieldsOf(t) = FieldsOf(state)
      /\ OwnWeight(t) <= OwnWeight(state)
  BY DEF HasFields, FieldsOf, OwnWeight, IsValid, Decayed
<1>2. PICK f : f \notin Field
  BY NoSetContainsEverything
<1> HIDE DEF t
<1>3. FieldNames(t) = FieldNames(state) /\ f \notin FieldNames(t)
  BY <1>1, <1>2 DEF FieldNames
<1>4. Weight(t) <= Weight(state)
  BY <1>1, <1>3, LostFieldWeight
<1> QED
  BY <1>4 DEF t

\* consume takes no memory, whether it succeeds or not.
LEMMA ConsumeHarmless ==
    ASSUME NEW arena, Sound(arena), NEW k
    PROVE  Harmless(arena, Consume(arena, k).arena)
<1> DEFINE state == StateOf(arena, k)
<1>1. CASE IsValid(state)
  <2>1. Consume(arena, k).arena = Change(arena, k, Consumed)
    BY <1>1, StateFacts DEF Consume, Ok
  <2>2. k \in DOMAIN arena.bindings
    BY <1>1, FieldsNeedBinding
  <2> QED
    BY <2>1, <2>2, ChangeConsumed DEF Harmless
<1>2. CASE ~IsValid(state)
  <2>1. \E e : Consume(arena, k) = Err(e, arena)
    <3>1. CASE state.tag = "Decayed"
      <4>1. Consume(arena, k) = Err("StructurallyDecayed", arena)
        BY <1>2, <3>1, StateFacts DEF Consume
      <4> QED
        BY <4>1
    <3>2. CASE state.tag # "Decayed"
      <4>1. Consume(arena, k) = Err("AlreadyConsumed", arena)
        BY <1>2, <3>2, StateFacts DEF Consume
      <4> QED
        BY <4>1
    <3> QED
      BY <3>1, <3>2
  <2>2. Consume(arena, k).arena = arena
    BY <2>1, ResultArena
  <2> QED
    BY <2>2, UnchangedShrinks DEF Harmless
<1> QED
  BY <1>1, <1>2

\* consume_entropic takes no memory.
LEMMA ConsumeEntropicHarmless ==
    ASSUME NEW arena, Sound(arena), NEW k
    PROVE  Harmless(arena, ConsumeEntropic(arena, k).arena)
<1>1. CASE k \in DOMAIN arena.bindings
  <2>1. ConsumeEntropic(arena, k).arena = Change(arena, k, Consumed)
    BY <1>1 DEF ConsumeEntropic, Ok
  <2> QED
    BY <1>1, <2>1, ChangeConsumed DEF Harmless
<1>2. CASE k \notin DOMAIN arena.bindings
  <2>1. ConsumeEntropic(arena, k).arena = arena
    BY <1>2 DEF ConsumeEntropic, Err
  <2> QED
    BY <2>1, UnchangedShrinks DEF Harmless
<1> QED
  BY <1>1, <1>2

\* set_consumed takes no memory.
LEMMA SetConsumedHarmless ==
    ASSUME NEW arena, Sound(arena), NEW k
    PROVE  Harmless(arena, SetConsumed(arena, k).arena)
<1>1. CASE k \in DOMAIN arena.bindings
  <2>1. SetConsumed(arena, k).arena = Change(arena, k, Consumed)
    BY <1>1 DEF SetConsumed, Ok
  <2> QED
    BY <1>1, <2>1, ChangeConsumed DEF Harmless
<1>2. CASE k \notin DOMAIN arena.bindings
  <2>1. SetConsumed(arena, k).arena = arena
    BY <1>2 DEF SetConsumed, Err
  <2> QED
    BY <2>1, UnchangedShrinks DEF Harmless
<1> QED
  BY <1>1, <1>2

\* consume_field_entropic takes no memory, also when the field is not there and
\* the parent stays out of the map.
LEMMA ConsumeFieldEntropicHarmless ==
    ASSUME NEW arena, Sound(arena), NEW k, NEW f
    PROVE  Harmless(arena, ConsumeFieldEntropic(arena, k, f).arena)
<1> DEFINE state == StateOf(arena, k)
           after == ConsumeFieldEntropic(arena, k, f).arena
<1>1. CASE k \notin DOMAIN arena.bindings \/ ~HasFields(state)
  <2>1. \E e : ConsumeFieldEntropic(arena, k, f) = Err(e, arena)
    <3>1. CASE k \notin DOMAIN arena.bindings
      <4>1. ConsumeFieldEntropic(arena, k, f) = Err("AlreadyConsumed", arena)
        BY <3>1, StateFacts DEF ConsumeFieldEntropic
      <4> QED
        BY <4>1
    <3>2. CASE k \in DOMAIN arena.bindings
      <4>1. ConsumeFieldEntropic(arena, k, f) = Err("NotAStruct", arena)
        BY <1>1, <3>2, StateFacts DEF ConsumeFieldEntropic
      <4> QED
        BY <4>1
    <3> QED
      BY <3>1, <3>2
  <2>2. after = arena
    BY <2>1, ResultArena
  <2> QED
    BY <2>2, UnchangedShrinks DEF Harmless
<1>2. CASE /\ k \in DOMAIN arena.bindings /\ HasFields(state)
           /\ f \notin DOMAIN FieldsOf(state)
  <2>1. after = [arena EXCEPT !.bindings = Drop(@, k)]
    BY <1>2, StateFacts DEF ConsumeFieldEntropic, Err
  <2> QED
    BY <2>1, DropSound DEF Harmless
<1>3. CASE /\ k \in DOMAIN arena.bindings /\ HasFields(state)
           /\ f \in DOMAIN FieldsOf(state)
  <2>1. after = Change(arena, k, Decayed(Put(FieldsOf(state), f, Consumed)))
    BY <1>3, StateFacts DEF ConsumeFieldEntropic, Ok
  <2>2. state = arena.bindings[k]
    BY <1>3, FieldsNeedBinding
  <2>3. Weight(Decayed(Put(FieldsOf(state), f, Consumed)))
          <= Weight(arena.bindings[k])
    BY <1>3, <2>2, TakenFieldWeight
  <2> QED
    BY <1>3, <2>1, <2>3, ChangeShrinks DEF Harmless
<1> QED
  BY <1>1, <1>2, <1>3

\* consume_field takes no memory, also when the field is not valid and the parent
\* has decayed for nothing.
LEMMA ConsumeFieldHarmless ==
    ASSUME NEW arena, Sound(arena), NEW k, NEW f
    PROVE  Harmless(arena, ConsumeField(arena, k, f).arena)
<1>1. ConsumeField(arena, k, f).arena = ConsumeFieldEntropic(arena, k, f).arena
  BY DEF ConsumeField, Err
<1> QED
  BY <1>1, ConsumeFieldEntropicHarmless

\* decay takes no memory.
LEMMA DecayHarmless ==
    ASSUME NEW arena, Sound(arena), NEW k
    PROVE  Harmless(arena, Decay(arena, k).arena)
<1> DEFINE state == StateOf(arena, k)
           after == Decay(arena, k).arena
<1>1. CASE k \notin DOMAIN arena.bindings \/ state.tag = "Decayed"
  <2>1. \/ Decay(arena, k) = Err("AlreadyConsumed", arena)
        \/ Decay(arena, k) = Ok(arena, state)
    BY <1>1, StateFacts DEF Decay
  <2>2. after = arena
    BY <2>1, ResultArena
  <2> QED
    BY <2>2, UnchangedShrinks DEF Harmless
<1>2. CASE /\ k \in DOMAIN arena.bindings /\ state.tag # "Decayed"
           /\ IsValid(state) /\ state.payload.kind = "struct"
  <2>0. Decay(arena, k) = Ok(Change(arena, k, Decayed(state.payload.fields)), state)
    BY <1>2, StateFacts DEF Decay
  <2>1. after = Change(arena, k, Decayed(state.payload.fields))
    BY <2>0, ResultArena
  <2>2. state = arena.bindings[k]
    BY <1>2, FieldsNeedBinding
  <2>3. Weight(Decayed(state.payload.fields)) <= Weight(arena.bindings[k])
    BY <1>2, <2>2, DecayedWeight
  <2> QED
    BY <1>2, <2>1, <2>3, ChangeShrinks DEF Harmless
<1>3. CASE /\ k \in DOMAIN arena.bindings /\ state.tag # "Decayed"
           /\ ~ (IsValid(state) /\ state.payload.kind = "struct")
  <2>1. ~HasFields(state) \/ (IsValid(state) /\ state.payload.kind = "topology")
    BY <1>3 DEF HasFields
  <2>2. Decay(arena, k) = Ok(Change(arena, k, Consumed), state)
    <3>1. CASE ~HasFields(state)
      <4>1. ~ (IsValid(state) /\ state.payload.kind = "topology")
        BY <3>1 DEF HasFields
      <4> QED
        BY <1>3, <3>1, <4>1, StateFacts DEF Decay
    <3>2. CASE HasFields(state)
      BY <1>3, <2>1, <3>2, StateFacts DEF Decay
    <3> QED
      BY <3>1, <3>2
  <2>3. after = Change(arena, k, Consumed)
    BY <2>2, ResultArena
  <2> QED
    BY <1>3, <2>3, ChangeConsumed DEF Harmless
<1> QED
  BY <1>1, <1>2, <1>3

\* update_field and update_deep_field keep the arena sound and within its
\* capacity, also when the path cannot be followed or the parent does not fit and
\* is lost.
LEMMA UpdateFits ==
    ASSUME NEW arena, Sound(arena), NEW k, NEW path, NEW payload
    PROVE  /\ Sound(UpdateDeepField(arena, k, path, payload).arena)
           /\ Fits(arena, UpdateDeepField(arena, k, path, payload).arena)
<1> DEFINE state == StateOf(arena, k)
           after == UpdateDeepField(arena, k, path, payload).arena
<1>1. CASE k \notin DOMAIN arena.bindings \/ ~HasFields(state)
  <2>1. \/ UpdateDeepField(arena, k, path, payload) = Err("AlreadyConsumed", arena)
        \/ UpdateDeepField(arena, k, path, payload) = Err("NotAStruct", arena)
    BY <1>1, StateFacts DEF UpdateDeepField
  <2>2. after = arena
    BY <2>1, ResultArena
  <2> QED
    BY <2>2, UnchangedShrinks DEF Fits, Shrinks
<1>2. CASE /\ k \in DOMAIN arena.bindings /\ HasFields(state)
           /\ ~Reachable(FieldsOf(state), path)
  <2>1. after = [arena EXCEPT !.bindings = Drop(@, k)]
    BY <1>2, StateFacts DEF UpdateDeepField, Err
  <2> QED
    BY <2>1, DropSound DEF Fits, Shrinks
<1>3. CASE /\ k \in DOMAIN arena.bindings /\ HasFields(state)
           /\ Reachable(FieldsOf(state), path)
  <2> DEFINE fields == DeepSet(FieldsOf(state), path, Valid(payload))
             update == Change(arena, k, WithFields(arena.bindings[k], fields))
  <2>1. after = Replace(arena, k, fields).arena
    BY <1>3, StateFacts DEF UpdateDeepField
  <2>2. CASE update.used <= arena.capacity
    <3>1. after = update
      BY <2>1, <2>2 DEF Replace, Ok
    <3>2. Sound(update) /\ update.capacity = arena.capacity
      BY <1>3, ChangeSound
    <3> QED
      BY <2>2, <3>1, <3>2 DEF Fits
  <2>3. CASE ~ (update.used <= arena.capacity)
    <3>1. after = [arena EXCEPT !.bindings = Put(@, k, Consumed)]
      BY <2>1, <2>3 DEF Replace, Err
    <3> QED
      BY <1>3, <3>1, PutConsumedSound DEF Fits, Shrinks
  <2> QED
    BY <2>2, <2>3
<1> QED
  BY <1>1, <1>2, <1>3

-----------------------------------------------------------------------------
(* Propagation and the insertions of a merge *)

\* Two operations that take no memory take none together.
LEMMA HarmlessTransitive ==
    ASSUME NEW a, NEW b, NEW c, Sound(a), Harmless(a, b), Harmless(b, c)
    PROVE  Harmless(a, c)
  BY DEF Harmless, Shrinks, Sound

\* A partner that loses a value or a field of it takes no memory.
LEMMA LoseHarmless ==
    ASSUME NEW arena, Sound(arena), NEW w, NEW what
    PROVE  Harmless(arena, Lose(arena, w, what))
  BY SetConsumedHarmless, ConsumeFieldHarmless DEF Lose

\* Facts about the cardinality of the subsets of a finite set.
LEMMA SubsetCardinality ==
    ASSUME NEW S, IsFiniteSet(S), NEW t \in SUBSET S
    PROVE  /\ Cardinality(t) \in Nat
           /\ Cardinality(t) <= 0 <=> t = {}
           /\ t # {} => Cardinality(t \ {Some(t)}) = Cardinality(t) - 1
           /\ Cardinality(t) <= Cardinality(S)
<1>1. IsFiniteSet(t) /\ Cardinality(t) <= Cardinality(S)
  BY FS_Subset
<1>2. Cardinality(t) \in Nat /\ (Cardinality(t) = 0 <=> t = {})
  BY <1>1, FS_CardinalityType, FS_EmptySet
<1>3. t # {} => Cardinality(t \ {Some(t)}) = Cardinality(t) - 1
  BY <1>1, SomeIn, FS_RemoveElement
<1> QED
  BY <1>1, <1>2, <1>3

\* g has, for each set of names, the arena in which they have lost "what".
IsLoss(g, arena, S, what) ==
    g = [s \in SUBSET S |->
           IF s = {} THEN arena ELSE Lose(g[s \ {Some(s)}], Some(s), what)]

\* The same for the sets of at most n names.
SmallLoss(g, arena, S, what, n) ==
    g = [s \in {t \in SUBSET S : Cardinality(t) <= n} |->
           IF s = {} THEN arena ELSE Lose(g[s \ {Some(s)}], Some(s), what)]

\* These arenas exist for the sets of at most n names, for every n.
LEMMA SmallLossExists ==
    ASSUME NEW S, IsFiniteSet(S), NEW arena, NEW what, NEW n \in Nat
    PROVE  \E g : SmallLoss(g, arena, S, what, n)
<1> DEFINE T == {m \in Nat : \E g : SmallLoss(g, arena, S, what, m)}
<1>0. \A t \in SUBSET S : /\ Cardinality(t) \in Nat
                          /\ Cardinality(t) <= 0 <=> t = {}
                          /\ t # {} => Cardinality(t \ {Some(t)}) = Cardinality(t) - 1
  BY SubsetCardinality
<1>1. 0 \in T
  <2> DEFINE g == [s \in {t \in SUBSET S : Cardinality(t) <= 0} |-> arena]
  <2>1. \A s \in {t \in SUBSET S : Cardinality(t) <= 0} : s = {}
    BY <1>0
  <2>2. SmallLoss(g, arena, S, what, 0)
    BY <2>1 DEF SmallLoss
  <2> QED
    BY <2>2
<1>2. \A m \in Nat : m \in T => m + 1 \in T
  <2> SUFFICES ASSUME NEW m \in Nat, m \in T
               PROVE  \E h : SmallLoss(h, arena, S, what, m + 1)
    OBVIOUS
  <2>1. PICK g : SmallLoss(g, arena, S, what, m)
    OBVIOUS
  <2> DEFINE D == {t \in SUBSET S : Cardinality(t) <= m + 1}
             h == [s \in D |-> IF s = {} THEN arena
                               ELSE Lose(g[s \ {Some(s)}], Some(s), what)]
  <2>2. \A s \in {t \in SUBSET S : Cardinality(t) <= m} : h[s] = g[s]
    <3> TAKE s \in {t \in SUBSET S : Cardinality(t) <= m}
    <3>1. g[s] = IF s = {} THEN arena ELSE Lose(g[s \ {Some(s)}], Some(s), what)
      BY <2>1 DEF SmallLoss
    <3>2. s \in D
      <4>1. Cardinality(s) \in Nat /\ Cardinality(s) <= m
        BY <1>0
      <4> QED
        BY <4>1
    <3>3. h[s] = IF s = {} THEN arena ELSE Lose(g[s \ {Some(s)}], Some(s), what)
      BY <3>2
    <3> HIDE DEF h
    <3> QED
      BY <3>1, <3>3
  <2>3. \A s \in D :
          s # {} => s \ {Some(s)} \in {t \in SUBSET S : Cardinality(t) <= m}
    BY <1>0
  <2>4. \A s \in D : h[s] = IF s = {} THEN arena
                            ELSE Lose(h[s \ {Some(s)}], Some(s), what)
    BY <2>2, <2>3
  <2>5. h = [s \in D |-> h[s]]
    OBVIOUS
  <2> HIDE DEF h, D
  <2>6. h = [s \in D |-> IF s = {} THEN arena
                         ELSE Lose(h[s \ {Some(s)}], Some(s), what)]
    BY <2>4, <2>5
  <2>7. SmallLoss(h, arena, S, what, m + 1)
    BY <2>6 DEF SmallLoss, D
  <2> QED
    BY <2>7
<1>3. n \in T
  <2> HIDE DEF T
  <2> QED
    BY <1>1, <1>2, NaturalInduction
<1> QED
  BY <1>3

\* LoseAll, the loop of propagate_entanglement over the members of a group, is
\* such an arena.
LEMMA LossUnfolds ==
    ASSUME NEW S, IsFiniteSet(S), NEW arena, NEW what
    PROVE  \E g : IsLoss(g, arena, S, what) /\ LoseAll(arena, S, what) = g[S]
<1>1. \E g : IsLoss(g, arena, S, what)
  <2>1. Cardinality(S) \in Nat
    BY FS_CardinalityType
  <2>2. PICK g : SmallLoss(g, arena, S, what, Cardinality(S))
    BY <2>1, SmallLossExists
  <2>3. {t \in SUBSET S : Cardinality(t) <= Cardinality(S)} = SUBSET S
    BY FS_Subset
  <2> QED
    BY <2>2, <2>3 DEF SmallLoss, IsLoss
<1> DEFINE F == CHOOSE g : IsLoss(g, arena, S, what)
<1>2. IsLoss(F, arena, S, what)
  BY <1>1
<1>3. LoseAll(arena, S, what) = F[S]
  BY DEF LoseAll, FoldSet, MapThenFoldSet, IsLoss, Some
<1> QED
  BY <1>2, <1>3

\* However many names of an arena are entangled, propagation takes no memory.
LEMMA LoseAllHarmless ==
    ASSUME NEW arena, Sound(arena), NEW S \in SUBSET Name, NEW what
    PROVE  Harmless(arena, LoseAll(arena, S, what))
<1>1. IsFiniteSet(S)
  BY NamesFinite
<1>2. PICK g : IsLoss(g, arena, S, what) /\ LoseAll(arena, S, what) = g[S]
  BY <1>1, LossUnfolds
<1> DEFINE T == {A \in SUBSET S : Harmless(arena, g[A])}
<1>3. {} \in T
  <2>1. g[{}] = arena
    BY <1>2 DEF IsLoss
  <2> QED
    BY <2>1, UnchangedShrinks DEF Harmless
<1>4. ASSUME NEW A \in SUBSET S, A # {}, \A x \in A : A \ {x} \in T
      PROVE  A \in T
  <2>1. Some(A) \in A
    BY <1>4, SomeIn
  <2>2. Harmless(arena, g[A \ {Some(A)}])
    BY <1>4, <2>1
  <2>3. g[A] = Lose(g[A \ {Some(A)}], Some(A), what)
    BY <1>2, <1>4 DEF IsLoss
  <2>4. Harmless(g[A \ {Some(A)}], g[A])
    BY <2>2, <2>3, LoseHarmless DEF Harmless
  <2> QED
    BY <2>2, <2>4, HarmlessTransitive
<1>5. S \in T
  <2> HIDE DEF T
  <2>1. \A B \in SUBSET S : B # {} /\ (\A x \in B : B \ {x} \in T) => B \in T
    BY <1>4
  <2>2. \A B \in SUBSET S : B \in T
    BY <1>1, <1>3, <2>1, SubsetInduction
  <2> QED
    BY <2>2
<1> QED
  BY <1>2, <1>5

\* step has what the first i insertions of a merge do.
IsInsertion(step, arena, bindings, order, n) ==
    step = [i \in 0 .. n |->
              IF i = 0 THEN Ok(arena, Consumed)
              ELSE IF step[i - 1].error # "none" THEN step[i - 1]
              ELSE Insert(step[i - 1].arena, order[i], bindings[order[i]])]

\* There is such a sequence of insertions.
LEMMA InsertionExists ==
    ASSUME NEW arena, NEW bindings, NEW order, NEW n \in Nat
    PROVE  \E step : IsInsertion(step, arena, bindings, order, n)
<1> DEFINE T == {m \in Nat : \E step : IsInsertion(step, arena, bindings, order, m)}
<1>1. 0 \in T
  <2> DEFINE step == [m \in 0 .. 0 |-> Ok(arena, Consumed)]
  <2>1. IsInsertion(step, arena, bindings, order, 0)
    BY DEF IsInsertion
  <2> QED
    BY <2>1
<1>2. \A m \in Nat : m \in T => m + 1 \in T
  <2> SUFFICES ASSUME NEW m \in Nat, m \in T
               PROVE  \E h : IsInsertion(h, arena, bindings, order, m + 1)
    OBVIOUS
  <2>1. PICK t : IsInsertion(t, arena, bindings, order, m)
    OBVIOUS
  <2> DEFINE At(f, i) ==
               IF i = 0 THEN Ok(arena, Consumed)
               ELSE IF f[i - 1].error # "none" THEN f[i - 1]
               ELSE Insert(f[i - 1].arena, order[i], bindings[order[i]])
             h == [k \in 0 .. m + 1 |-> At(t, k)]
  <2>2. \A k \in 0 .. m + 1 : h[k] = At(t, k)
    OBVIOUS
  <2>3. \A k \in 0 .. m : t[k] = At(t, k)
    BY <2>1 DEF IsInsertion
  <2>4. \A k \in 0 .. m : h[k] = t[k]
    <3> HIDE DEF At, h
    <3>1. 0 .. m \subseteq 0 .. m + 1
      OBVIOUS
    <3> QED
      BY <2>2, <2>3, <3>1
  <2>5. \A k \in 0 .. m + 1 : At(h, k) = At(t, k)
    <3> TAKE k \in 0 .. m + 1
    <3>1. CASE k = 0
      BY <3>1
    <3>2. CASE k # 0
      <4>1. k - 1 \in 0 .. m
        BY <3>2
      <4>2. h[k - 1] = t[k - 1]
        BY <2>4, <4>1
      <4> HIDE DEF h
      <4> QED
        BY <4>2
    <3> QED
      BY <3>1, <3>2
  <2>6. h = [k \in 0 .. m + 1 |-> h[k]]
    OBVIOUS
  <2>7. h = [k \in 0 .. m + 1 |-> At(h, k)]
    <3> HIDE DEF h, At
    <3> QED
      BY <2>2, <2>5, <2>6
  <2>8. IsInsertion(h, arena, bindings, order, m + 1)
    <3> HIDE DEF h
    <3> QED
      BY <2>7 DEF IsInsertion
  <2> QED
    BY <2>8
<1>3. n \in T
  <2> HIDE DEF T
  <2> QED
    BY <1>1, <1>2, NaturalInduction
<1> QED
  BY <1>3

\* After i insertions that succeeded all i bindings are there.
Inserted(step, bindings, order, i) ==
    step[i].error = "none" =>
        \A j \in 1 .. i : /\ order[j] \in DOMAIN step[i].arena.bindings
                          /\ step[i].arena.bindings[order[j]] = bindings[order[j]]

\* The insertions of a merge keep the target sound and within its capacity; if
\* they all succeed every binding has arrived, whatever their order.
LEMMA InsertAllProperties ==
    ASSUME NEW arena, Sound(arena), NEW bindings, NEW order,
           Len(order) \in Nat, \A i \in 1 .. Len(order) : order[i] \in Name
    PROVE  LET r == InsertAll(arena, bindings, order)
           IN  /\ Sound(r.arena)
               /\ Fits(arena, r.arena)
               /\ r.error = "none" =>
                    \A j \in 1 .. Len(order) :
                       /\ order[j] \in DOMAIN r.arena.bindings
                       /\ r.arena.bindings[order[j]] = bindings[order[j]]
<1> DEFINE n == Len(order)
           F == CHOOSE step : IsInsertion(step, arena, bindings, order, n)
<1>1. IsInsertion(F, arena, bindings, order, n)
  BY InsertionExists
<1>2. InsertAll(arena, bindings, order) = F[n]
  BY DEF InsertAll, IsInsertion
<1> HIDE DEF F
<1> DEFINE T == {i \in Nat : i <= n => /\ Sound(F[i].arena)
                                       /\ Fits(arena, F[i].arena)
                                       /\ Inserted(F, bindings, order, i)}
<1>3. 0 \in T
  <2>1. F[0] = Ok(arena, Consumed)
    BY <1>1 DEF IsInsertion
  <2>2. F[0].arena = arena
    BY <2>1, ResultArena
  <2>3. Inserted(F, bindings, order, 0)
    BY DEF Inserted
  <2> QED
    BY <2>2, <2>3, UnchangedShrinks DEF Fits, Shrinks
<1>4. \A i \in Nat : i \in T => i + 1 \in T
  <2> SUFFICES ASSUME NEW i \in Nat, i \in T, i + 1 <= n
               PROVE  /\ Sound(F[i + 1].arena)
                      /\ Fits(arena, F[i + 1].arena)
                      /\ Inserted(F, bindings, order, i + 1)
    OBVIOUS
  <2>1. /\ Sound(F[i].arena) /\ Fits(arena, F[i].arena)
        /\ Inserted(F, bindings, order, i)
    OBVIOUS
  <2>2. F[i + 1] = IF F[i].error # "none" THEN F[i]
                   ELSE Insert(F[i].arena, order[i + 1], bindings[order[i + 1]])
    <3>1. i + 1 \in 0 .. n /\ i + 1 # 0 /\ (i + 1) - 1 = i
      OBVIOUS
    <3>2. \A j \in 0 .. n :
            F[j] = IF j = 0 THEN Ok(arena, Consumed)
                   ELSE IF F[j - 1].error # "none" THEN F[j - 1]
                   ELSE Insert(F[j - 1].arena, order[j], bindings[order[j]])
      BY <1>1 DEF IsInsertion
    <3> QED
      BY <3>1, <3>2
  <2>3. CASE F[i].error # "none"
    BY <2>1, <2>2, <2>3 DEF Inserted
  <2>4. CASE F[i].error = "none"
    <3> DEFINE k == order[i + 1]
               r == Insert(F[i].arena, k, bindings[k])
    <3>1. k \in Name
      OBVIOUS
    <3>2. F[i + 1] = r
      BY <2>2, <2>4
    <3> HIDE DEF k
    <3>3. /\ Sound(r.arena) /\ Fits(F[i].arena, r.arena)
          /\ r.error = "none" =>
               r.arena.bindings = Put(F[i].arena.bindings, k, bindings[k])
      BY <2>1, <3>1, InsertSound
    <3> HIDE DEF r
    <3>4. Fits(arena, r.arena)
      BY <2>1, <3>3 DEF Fits, Sound
    <3>5. ASSUME r.error = "none", NEW j \in 1 .. i + 1
          PROVE  /\ order[j] \in DOMAIN r.arena.bindings
                 /\ r.arena.bindings[order[j]] = bindings[order[j]]
      <4>1. r.arena.bindings = Put(F[i].arena.bindings, k, bindings[k])
        BY <3>3, <3>5
      <4>2. CASE order[j] = k
        BY <4>1, <4>2 DEF Put
      <4>3. CASE order[j] # k
        <5>1. j \in 1 .. i
          BY <4>3 DEF k
        <5>2. /\ order[j] \in DOMAIN F[i].arena.bindings
              /\ F[i].arena.bindings[order[j]] = bindings[order[j]]
          BY <2>1, <2>4, <5>1 DEF Inserted
        <5> QED
          BY <4>1, <4>3, <5>2 DEF Put
      <4> QED
        BY <4>2, <4>3
    <3>6. Inserted(F, bindings, order, i + 1)
      BY <3>2, <3>5 DEF Inserted
    <3> QED
      BY <3>2, <3>3, <3>4, <3>6
  <2> QED
    BY <2>3, <2>4
<1>5. n \in T
  <2> HIDE DEF T
  <2>1. n \in Nat
    OBVIOUS
  <2> QED
    BY <1>3, <1>4, <2>1, NaturalInduction
<1> QED
  BY <1>2, <1>5 DEF Inserted

\* What is bound after some insertions was bound before them, or is inserted.
Draws(after, before, bindings) ==
    \A v \in DOMAIN after.bindings :
        \/ /\ v \in DOMAIN before.bindings
           /\ after.bindings[v] = before.bindings[v]
        \/ /\ v \in DOMAIN bindings
           /\ after.bindings[v] = bindings[v]

\* The insertions of a merge bring nothing but what is merged, whether or not they
\* all succeed.
LEMMA InsertAllDraws ==
    ASSUME NEW arena, Sound(arena), NEW bindings, NEW order, Len(order) \in Nat,
           \A i \in 1 .. Len(order) : order[i] \in Name /\ order[i] \in DOMAIN bindings
    PROVE  Draws(InsertAll(arena, bindings, order).arena, arena, bindings)
<1> DEFINE n == Len(order)
           F == CHOOSE step : IsInsertion(step, arena, bindings, order, n)
<1>1. IsInsertion(F, arena, bindings, order, n)
  BY InsertionExists
<1>2. InsertAll(arena, bindings, order) = F[n]
  BY DEF InsertAll, IsInsertion
<1> HIDE DEF F
<1> DEFINE T == {i \in Nat : i <= n => /\ Sound(F[i].arena)
                                       /\ Draws(F[i].arena, arena, bindings)}
<1>3. 0 \in T
  <2>1. F[0] = Ok(arena, Consumed)
    BY <1>1 DEF IsInsertion
  <2>2. F[0].arena = arena
    BY <2>1, ResultArena
  <2> QED
    BY <2>2 DEF Draws
<1>4. \A i \in Nat : i \in T => i + 1 \in T
  <2> SUFFICES ASSUME NEW i \in Nat, i + 1 <= n,
                      Sound(F[i].arena), Draws(F[i].arena, arena, bindings)
               PROVE  /\ Sound(F[i + 1].arena)
                      /\ Draws(F[i + 1].arena, arena, bindings)
    OBVIOUS
  <2>1. Sound(F[i].arena) /\ Draws(F[i].arena, arena, bindings)
    OBVIOUS
  <2>2. F[i + 1] = IF F[i].error # "none" THEN F[i]
                   ELSE Insert(F[i].arena, order[i + 1], bindings[order[i + 1]])
    <3>1. i + 1 \in 0 .. n /\ i + 1 # 0 /\ (i + 1) - 1 = i
      OBVIOUS
    <3>2. \A j \in 0 .. n :
            F[j] = IF j = 0 THEN Ok(arena, Consumed)
                   ELSE IF F[j - 1].error # "none" THEN F[j - 1]
                   ELSE Insert(F[j - 1].arena, order[j], bindings[order[j]])
      BY <1>1 DEF IsInsertion
    <3> QED
      BY <3>1, <3>2
  <2>3. CASE F[i].error # "none"
    BY <2>1, <2>2, <2>3
  <2>4. CASE F[i].error = "none"
    <3> DEFINE k == order[i + 1]
               r == Insert(F[i].arena, k, bindings[k])
    <3>1. k \in Name /\ k \in DOMAIN bindings
      OBVIOUS
    <3>2. F[i + 1] = r
      BY <2>2, <2>4
    <3> HIDE DEF k
    <3>3. /\ Sound(r.arena)
          /\ r.error = "none" =>
               r.arena.bindings = Put(F[i].arena.bindings, k, bindings[k])
      BY <2>1, <3>1, InsertSound
    <3>4. r.error # "none" => r.arena = F[i].arena
      BY DEF Insert, Ok, Err
    <3> HIDE DEF r
    <3>5. ASSUME r.error = "none", NEW v \in DOMAIN r.arena.bindings
          PROVE  \/ /\ v \in DOMAIN arena.bindings
                    /\ r.arena.bindings[v] = arena.bindings[v]
                 \/ /\ v \in DOMAIN bindings
                    /\ r.arena.bindings[v] = bindings[v]
      <4>1. r.arena.bindings = Put(F[i].arena.bindings, k, bindings[k])
        BY <3>3, <3>5
      <4>2. CASE v = k
        BY <3>1, <4>1, <4>2 DEF Put
      <4>3. CASE v # k
        <5>1. /\ v \in DOMAIN F[i].arena.bindings
              /\ r.arena.bindings[v] = F[i].arena.bindings[v]
          BY <3>5, <4>1, <4>3 DEF Put
        <5> QED
          BY <2>1, <5>1 DEF Draws
      <4> QED
        BY <4>2, <4>3
    <3>6. Draws(r.arena, arena, bindings)
      BY <2>1, <3>4, <3>5 DEF Draws
    <3> QED
      BY <3>2, <3>3, <3>6
  <2> QED
    BY <2>3, <2>4
<1>5. n \in T
  <2> HIDE DEF T
  <2>1. n \in Nat
    OBVIOUS
  <2> QED
    BY <1>3, <1>4, <2>1, NaturalInduction
<1> QED
  BY <1>2, <1>5

-----------------------------------------------------------------------------
(* All timelines, and expressions *)

\* A timeline whose arena and snapshots are sound.
IsTimeline(t) ==
    /\ t = [arena |-> t.arena, anchors |-> t.anchors, parent |-> t.parent]
    /\ Sound(t.arena)
    /\ \A a \in DOMAIN t.anchors : Sound(t.anchors[a])

\* A map of all the timelines, where those that are active are sound.
AreTimelines(ts) ==
    /\ ts = [c \in Branch |-> ts[c]]
    /\ \A c \in Branch : ts[c] # NoTimeline => IsTimeline(ts[c])

\* A timeline is not what stands for one that is not active.
LEMMA TimelineIsActive ==
    ASSUME NEW t, IsTimeline(t)
    PROVE  t # NoTimeline
<1>1. "arena" \in DOMAIN t
  BY DEF IsTimeline
<1>2. "arena" \notin DOMAIN NoTimeline
  BY DEF NoTimeline
<1> QED
  BY <1>1, <1>2

\* A timeline with another arena.
LEMMA TimelineUpdate ==
    ASSUME NEW t, IsTimeline(t), NEW arena, Sound(arena)
    PROVE  /\ IsTimeline([t EXCEPT !.arena = arena])
           /\ [t EXCEPT !.arena = arena].arena = arena
           /\ [t EXCEPT !.arena = arena].anchors = t.anchors
<1> DEFINE u == [t EXCEPT !.arena = arena]
<1>1. u = [x \in DOMAIN t |-> IF x = "arena" THEN arena ELSE t[x]]
  OBVIOUS
<1>2. DOMAIN t = {"arena", "anchors", "parent"}
  BY DEF IsTimeline
<1>3. u = [arena |-> arena, anchors |-> t.anchors, parent |-> t.parent]
  BY <1>1, <1>2
<1> HIDE DEF u
<1>4. u.arena = arena /\ u.anchors = t.anchors
  BY <1>3
<1>5. IsTimeline(u)
  BY <1>3 DEF IsTimeline
<1> QED
  BY <1>4, <1>5 DEF u

\* The map after one timeline got another arena.
LEMMA SetArenaAt ==
    ASSUME NEW ts, AreTimelines(ts), NEW b \in Branch, IsTimeline(ts[b]),
           NEW arena, Sound(arena)
    PROVE  /\ AreTimelines(SetArena(ts, b, arena))
           /\ IsTimeline(SetArena(ts, b, arena)[b])
           /\ SetArena(ts, b, arena)[b].arena = arena
           /\ SetArena(ts, b, arena)[b].anchors = ts[b].anchors
           /\ \A c \in Branch \ {b} : SetArena(ts, b, arena)[c] = ts[c]
<1> DEFINE us == SetArena(ts, b, arena)
<1>1. PICK u : u = [ts[b] EXCEPT !.arena = arena]
  OBVIOUS
<1>2. us = [ts EXCEPT ![b] = u]
  BY <1>1 DEF SetArena
<1>3. DOMAIN ts = Branch
  BY DEF AreTimelines
<1>4. us = [c \in Branch |-> IF c = b THEN u ELSE ts[c]]
  BY <1>2, <1>3
<1>5. IsTimeline(u) /\ u.arena = arena /\ u.anchors = ts[b].anchors
  BY <1>1, TimelineUpdate
<1> HIDE DEF us
<1>6. us[b] = u /\ \A c \in Branch \ {b} : us[c] = ts[c]
  BY <1>4
<1>7. us = [c \in Branch |-> us[c]]
  BY <1>4
<1>8. AreTimelines(us)
  BY <1>5, <1>6, <1>7 DEF AreTimelines
<1> QED
  BY <1>5, <1>6, <1>8 DEF us

\* No timeline came or went and none has taken memory.
HarmlessAll(ts, us) ==
    /\ AreTimelines(us)
    /\ \A c \in Branch :
         \/ ts[c] = NoTimeline /\ us[c] = NoTimeline
         \/ /\ IsTimeline(ts[c]) /\ IsTimeline(us[c])
            /\ us[c].anchors = ts[c].anchors
            /\ Harmless(ts[c].arena, us[c].arena)

\* An operation that takes no memory, seen from the map.
LEMMA TimelinesHarmless ==
    ASSUME NEW ts, AreTimelines(ts), NEW b \in Branch, IsTimeline(ts[b]),
           NEW arena, Harmless(ts[b].arena, arena)
    PROVE  HarmlessAll(ts, SetArena(ts, b, arena))
<1>1. Sound(arena)
  BY DEF Harmless
<1>2. \A c \in Branch : IsTimeline(ts[c]) => Harmless(ts[c].arena, ts[c].arena)
  BY UnchangedShrinks DEF IsTimeline, Harmless
<1> DEFINE us == SetArena(ts, b, arena)
<1>3. /\ AreTimelines(us)
      /\ IsTimeline(us[b])
      /\ us[b].arena = arena
      /\ us[b].anchors = ts[b].anchors
      /\ \A c \in Branch \ {b} : us[c] = ts[c]
  BY <1>1, SetArenaAt
<1> HIDE DEF us
<1>4. ASSUME NEW c \in Branch
      PROVE  \/ ts[c] = NoTimeline /\ us[c] = NoTimeline
             \/ /\ IsTimeline(ts[c]) /\ IsTimeline(us[c])
                /\ us[c].anchors = ts[c].anchors
                /\ Harmless(ts[c].arena, us[c].arena)
  <2>1. CASE c = b
    BY <1>3, <2>1
  <2>2. CASE c # b
    <3>1. us[c] = ts[c]
      BY <1>3, <2>2
    <3> QED
      BY <1>2, <3>1 DEF AreTimelines
  <2> QED
    BY <2>1, <2>2
<1>5. HarmlessAll(ts, us)
  BY <1>3, <1>4 DEF HarmlessAll
<1> QED
  BY <1>5 DEF us

\* Propagation through entanglement takes no memory on any timeline.
LEMMA PartnersHarmless ==
    ASSUME NEW ts, AreTimelines(ts), NEW b, NEW v, NEW what
    PROVE  HarmlessAll(ts, OnPartners(ts, b, v, what))
<1> DEFINE us == OnPartners(ts, b, v, what)
<1>1. ASSUME NEW c \in Branch, ts[c] = NoTimeline
      PROVE  us[c] = NoTimeline
  BY <1>1 DEF OnPartners
<1>2. ASSUME NEW c \in Branch, ts[c] # NoTimeline
      PROVE  /\ IsTimeline(ts[c]) /\ IsTimeline(us[c])
             /\ us[c].anchors = ts[c].anchors
             /\ Harmless(ts[c].arena, us[c].arena)
  <2> DEFINE S == {w \in Name : <<c, w>> \in Partners(b, v)}
  <2>1. PICK arena : arena = LoseAll(ts[c].arena, S, what)
    OBVIOUS
  <2>2. us[c] = [ts[c] EXCEPT !.arena = arena]
    BY <1>2, <2>1 DEF OnPartners
  <2>3. IsTimeline(ts[c]) /\ Sound(ts[c].arena)
    BY <1>2 DEF AreTimelines, IsTimeline
  <2>4. S \in SUBSET Name
    OBVIOUS
  <2>5. Harmless(ts[c].arena, arena)
    BY <2>1, <2>3, <2>4, LoseAllHarmless
  <2>6. Sound(arena)
    BY <2>5 DEF Harmless
  <2> HIDE DEF us
  <2> QED
    BY <2>2, <2>3, <2>5, <2>6, TimelineUpdate
<1>3. us = [c \in Branch |-> us[c]]
  BY DEF OnPartners
<1> HIDE DEF us
<1>4. AreTimelines(us)
  BY <1>1, <1>2, <1>3 DEF AreTimelines
<1>5. HarmlessAll(ts, us)
  BY <1>1, <1>2, <1>4 DEF HarmlessAll
<1> QED
  BY <1>5 DEF us

\* Two steps that take no memory take none together.
LEMMA HarmlessAllTransitive ==
    ASSUME NEW ts, NEW us, NEW vs, HarmlessAll(ts, us), HarmlessAll(us, vs)
    PROVE  HarmlessAll(ts, vs)
<1>1. ASSUME NEW c \in Branch
      PROVE  \/ ts[c] = NoTimeline /\ vs[c] = NoTimeline
             \/ /\ IsTimeline(ts[c]) /\ IsTimeline(vs[c])
                /\ vs[c].anchors = ts[c].anchors
                /\ Harmless(ts[c].arena, vs[c].arena)
  <2>1. CASE ts[c] = NoTimeline /\ us[c] = NoTimeline
    <3>1. ~IsTimeline(us[c])
      BY <2>1, TimelineIsActive
    <3> QED
      BY <2>1, <3>1 DEF HarmlessAll
  <2>2. CASE ~ (ts[c] = NoTimeline /\ us[c] = NoTimeline)
    <3>1. /\ IsTimeline(ts[c]) /\ IsTimeline(us[c])
          /\ us[c].anchors = ts[c].anchors
          /\ Harmless(ts[c].arena, us[c].arena)
      BY <2>2 DEF HarmlessAll
    <3>2. us[c] # NoTimeline
      BY <3>1, TimelineIsActive
    <3>3. /\ IsTimeline(vs[c])
          /\ vs[c].anchors = us[c].anchors
          /\ Harmless(us[c].arena, vs[c].arena)
      BY <3>2 DEF HarmlessAll
    <3>4. Harmless(ts[c].arena, vs[c].arena)
      BY <3>1, <3>3, HarmlessTransitive DEF IsTimeline
    <3> QED
      BY <3>1, <3>3, <3>4
  <2> QED
    BY <2>1, <2>2
<1> QED
  BY <1>1 DEF HarmlessAll

\* Evaluating an expression takes no memory: it consumes, here and wherever the
\* value is entangled.
LEMMA EvaluateHarmless ==
    ASSUME AreTimelines(timeline), NEW b \in Branch, Active(b),
           NEW e \in Expressions
    PROVE  HarmlessAll(timeline, Evaluate(b, e).timelines)
<1>1. IsTimeline(timeline[b]) /\ Sound(timeline[b].arena)
  BY DEF AreTimelines, Active, IsTimeline
<1>2. e.kind = "identifier" \/ e.kind = "field"
  BY DEF Expressions, Identifier, FieldAccess
<1>3. PICK read : read = IF e.kind = "identifier"
                         THEN Consume(timeline[b].arena, e.name)
                         ELSE ConsumeField(timeline[b].arena, e.name, e.field)
  OBVIOUS
<1>4. Harmless(timeline[b].arena, read.arena)
  BY <1>1, <1>3, ConsumeHarmless, ConsumeFieldHarmless
<1>5. PICK after : after = SetArena(timeline, b, read.arena)
  OBVIOUS
<1>6. HarmlessAll(timeline, after)
  BY <1>1, <1>4, <1>5, TimelinesHarmless
<1>7. AreTimelines(after)
  BY <1>6 DEF HarmlessAll
<1>8. \/ Evaluate(b, e).timelines = after
      \/ Evaluate(b, e).timelines = PropagateEntanglement(after, b, e.name)
      \/ Evaluate(b, e).timelines = PropagateFieldDecay(after, b, e.name, e.field)
  <2>1. CASE read.error # "none"
    BY <1>2, <1>3, <1>5, <2>1 DEF Evaluate
  <2>2. CASE read.error = "none" /\ e.kind = "identifier"
    BY <1>2, <1>3, <1>5, <2>2 DEF Evaluate
  <2>3. CASE read.error = "none" /\ e.kind = "field"
    BY <1>2, <1>3, <1>5, <2>3 DEF Evaluate
  <2> QED
    BY <1>2, <2>1, <2>2, <2>3
<1>9. \A what : HarmlessAll(after, OnPartners(after, b, e.name, what))
  BY <1>7, PartnersHarmless
<1> QED
  BY <1>6, <1>8, <1>9, HarmlessAllTransitive
     DEF PropagateEntanglement, PropagateFieldDecay

\* Nor does evaluate_entropic_state.
LEMMA EvaluateEntropicHarmless ==
    ASSUME AreTimelines(timeline), NEW b \in Branch, Active(b),
           NEW e \in Expressions
    PROVE  HarmlessAll(timeline, EvaluateEntropic(b, e).timelines)
<1>1. IsTimeline(timeline[b]) /\ Sound(timeline[b].arena)
  BY DEF AreTimelines, Active, IsTimeline
<1>2. e.kind = "identifier" \/ e.kind = "field"
  BY DEF Expressions, Identifier, FieldAccess
<1>3. PICK read : read = IF e.kind = "identifier"
                         THEN ConsumeEntropic(timeline[b].arena, e.name)
                         ELSE ConsumeFieldEntropic(timeline[b].arena, e.name,
                                                   e.field)
  OBVIOUS
<1>4. Harmless(timeline[b].arena, read.arena)
  BY <1>1, <1>3, ConsumeEntropicHarmless, ConsumeFieldEntropicHarmless
<1>5. PICK after : after = SetArena(timeline, b, read.arena)
  OBVIOUS
<1>6. HarmlessAll(timeline, after)
  BY <1>1, <1>4, <1>5, TimelinesHarmless
<1>7. AreTimelines(after)
  BY <1>6 DEF HarmlessAll
<1>8. \/ EvaluateEntropic(b, e).timelines = after
      \/ EvaluateEntropic(b, e).timelines = PropagateEntanglement(after, b, e.name)
      \/ EvaluateEntropic(b, e).timelines =
           PropagateFieldDecay(after, b, e.name, e.field)
  <2>1. CASE read.error # "none"
    BY <1>2, <1>3, <1>5, <2>1 DEF EvaluateEntropic
  <2>2. CASE read.error = "none" /\ e.kind = "identifier"
    BY <1>2, <1>3, <1>5, <2>2 DEF EvaluateEntropic
  <2>3. CASE read.error = "none" /\ e.kind = "field"
    BY <1>2, <1>3, <1>5, <2>3 DEF EvaluateEntropic
  <2> QED
    BY <1>2, <2>1, <2>2, <2>3
<1>9. \A what : HarmlessAll(after, OnPartners(after, b, e.name, what))
  BY <1>7, PartnersHarmless
<1> QED
  BY <1>6, <1>8, <1>9, HarmlessAllTransitive
     DEF PropagateEntanglement, PropagateFieldDecay

-----------------------------------------------------------------------------
(* Statements on values *)

\* No timeline came or went and none has taken memory beyond its capacity.
FitsAll(ts, us) ==
    /\ AreTimelines(us)
    /\ \A c \in Branch :
         \/ ts[c] = NoTimeline /\ us[c] = NoTimeline
         \/ /\ IsTimeline(ts[c]) /\ IsTimeline(us[c])
            /\ Fits(ts[c].arena, us[c].arena)

\* The step keeps all timelines sound and within their budgets.
StepKeeps ==
    /\ AreTimelines(timeline')
    /\ \A c \in Branch : Active(c) /\ timeline'[c] # NoTimeline => WithinBudget(c)

\* No timeline ends.
NoneEnds == \A c \in Branch : ~Ends(c)

\* Taking no memory is taking none beyond the capacity.
LEMMA HarmlessFits ==
    ASSUME NEW ts, NEW us, HarmlessAll(ts, us)
    PROVE  FitsAll(ts, us)
  BY DEF HarmlessAll, FitsAll, Harmless, Shrinks, Fits

\* Evaluating an expression and then binding or storing its value.
LEMMA FitsAfter ==
    ASSUME NEW ts, NEW us, HarmlessAll(ts, us), NEW b \in Branch,
           IsTimeline(ts[b]), NEW arena, Sound(arena), Fits(us[b].arena, arena)
    PROVE  FitsAll(ts, SetArena(us, b, arena))
<1> DEFINE vs == SetArena(us, b, arena)
<1>1. ts[b] # NoTimeline
  BY TimelineIsActive
<1>2. AreTimelines(us) /\ IsTimeline(us[b]) /\ Harmless(ts[b].arena, us[b].arena)
  BY <1>1 DEF HarmlessAll
<1>3. /\ AreTimelines(vs) /\ IsTimeline(vs[b]) /\ vs[b].arena = arena
      /\ \A c \in Branch \ {b} : vs[c] = us[c]
  BY <1>2, SetArenaAt
<1>4. Fits(ts[b].arena, arena)
  BY <1>2 DEF Fits, Harmless, Shrinks, Sound, IsTimeline
<1> HIDE DEF vs
<1>5. FitsAll(ts, us)
  BY HarmlessFits
<1>6. ASSUME NEW c \in Branch
      PROVE  \/ ts[c] = NoTimeline /\ vs[c] = NoTimeline
             \/ /\ IsTimeline(ts[c]) /\ IsTimeline(vs[c])
                /\ Fits(ts[c].arena, vs[c].arena)
  <2>1. CASE c = b
    BY <1>3, <1>4, <2>1
  <2>2. CASE c # b
    <3>1. vs[c] = us[c]
      BY <1>3, <2>2
    <3> QED
      BY <1>5, <3>1 DEF FitsAll
  <2> QED
    BY <2>1, <2>2
<1>7. FitsAll(ts, vs)
  BY <1>3, <1>6 DEF FitsAll
<1> QED
  BY <1>7 DEF vs

\* What follows for the step.
LEMMA FitsKeeps ==
    ASSUME FitsAll(timeline, timeline')
    PROVE  StepKeeps /\ NoneEnds
<1>1. ASSUME NEW c \in Branch, timeline[c] # NoTimeline
      PROVE  WithinBudget(c) /\ timeline'[c] # NoTimeline
  <2>1. /\ Fits(timeline[c].arena, timeline'[c].arena)
        /\ IsTimeline(timeline'[c])
    BY <1>1 DEF FitsAll
  <2>2. timeline'[c] # NoTimeline
    BY <2>1, TimelineIsActive
  <2> QED
    BY <2>1, <2>2 DEF Fits, WithinBudget
<1> QED
  BY <1>1 DEF StepKeeps, NoneEnds, Ends, Active, FitsAll

\* Timelines that stay as they are have taken no memory.
LEMMA SameTimelines ==
    ASSUME AreTimelines(timeline)
    PROVE  HarmlessAll(timeline, timeline)
<1>1. ASSUME NEW c \in Branch, timeline[c] # NoTimeline
      PROVE  IsTimeline(timeline[c]) /\ Harmless(timeline[c].arena, timeline[c].arena)
  BY <1>1, UnchangedShrinks DEF AreTimelines, IsTimeline, Harmless
<1> QED
  BY <1>1 DEF HarmlessAll

\* let keeps the timelines sound and within their budgets.
LEMMA LetKeeps ==
    ASSUME AreTimelines(timeline), NEW b \in Branch, NEW v \in Name, NEW kind,
           NEW fs, Let(b, v, kind, fs)
    PROVE  StepKeeps /\ NoneEnds
<1>1. IsTimeline(timeline[b]) /\ Sound(timeline[b].arena)
  BY DEF AreTimelines, Active, IsTimeline, Let, Executes
<1>2. PICK state : state = Literal(kind, nextValue, fs)
  OBVIOUS
<1>3. PICK arena : arena = Insert(timeline[b].arena, v, state).arena
  OBVIOUS
<1>4. timeline' = SetArena(timeline, b, arena)
  BY <1>2, <1>3 DEF Let
<1>5. Sound(arena) /\ Fits(timeline[b].arena, arena)
  BY <1>1, <1>3, InsertSound
<1>6. FitsAll(timeline, timeline')
  BY <1>1, <1>4, <1>5, SameTimelines, FitsAfter
<1> QED
  BY <1>6, FitsKeeps

\* So does let of a value that another binding gives up.
LEMMA AssignKeeps ==
    ASSUME AreTimelines(timeline), NEW b \in Branch, NEW v \in Name,
           NEW e \in Expressions, Assign(b, v, e)
    PROVE  StepKeeps /\ NoneEnds
<1>1. Active(b) /\ IsTimeline(timeline[b])
  BY DEF AreTimelines, Active, Assign, Executes
<1>2. PICK value : value = Evaluate(b, e)
  OBVIOUS
<1>3. HarmlessAll(timeline, value.timelines)
  BY <1>1, <1>2, EvaluateHarmless
<1>4. \/ timeline' = value.timelines
      \/ timeline' = SetArena(value.timelines, b,
                       Insert(value.timelines[b].arena, v, value.state).arena)
  BY <1>2 DEF Assign
<1>5. Sound(value.timelines[b].arena)
  BY <1>1, <1>3 DEF HarmlessAll, Harmless, Active
<1>6. PICK arena : arena = Insert(value.timelines[b].arena, v, value.state).arena
  OBVIOUS
<1>7. Sound(arena) /\ Fits(value.timelines[b].arena, arena)
  BY <1>5, <1>6, InsertSound
<1>8. FitsAll(timeline, value.timelines)
  BY <1>3, HarmlessFits
<1>9. FitsAll(timeline, SetArena(value.timelines, b, arena))
  BY <1>1, <1>3, <1>7, FitsAfter
<1>10. FitsAll(timeline, timeline')
  BY <1>4, <1>6, <1>8, <1>9
<1> QED
  BY <1>10, FitsKeeps

\* So does an expression whose value is used up.
LEMMA ExpressionKeeps ==
    ASSUME AreTimelines(timeline), NEW b \in Branch, NEW e \in Expressions,
           Expression(b, e)
    PROVE  StepKeeps /\ NoneEnds
<1>1. Active(b)
  BY DEF Expression, Executes
<1>2. timeline' = Evaluate(b, e).timelines
  BY DEF Expression
<1>3. HarmlessAll(timeline, timeline')
  BY <1>1, <1>2, EvaluateHarmless
<1> QED
  BY <1>3, HarmlessFits, FitsKeeps

\* So does the update of a field.
LEMMA FieldUpdateKeeps ==
    ASSUME AreTimelines(timeline), NEW b \in Branch, NEW w, NEW path,
           NEW e \in Expressions, FieldUpdate(b, w, path, e)
    PROVE  StepKeeps /\ NoneEnds
<1>1. Active(b) /\ IsTimeline(timeline[b])
  BY DEF AreTimelines, Active, FieldUpdate, Executes
<1>2. PICK value : value = Evaluate(b, e)
  OBVIOUS
<1>3. HarmlessAll(timeline, value.timelines)
  BY <1>1, <1>2, EvaluateHarmless
<1>4. \/ timeline' = value.timelines
      \/ timeline' = SetArena(value.timelines, b,
                       UpdateDeepField(value.timelines[b].arena, w, path,
                                       value.state.payload).arena)
  BY <1>2 DEF FieldUpdate
<1>5. Sound(value.timelines[b].arena)
  BY <1>1, <1>3 DEF HarmlessAll, Harmless, Active
<1>6. PICK arena : arena = UpdateDeepField(value.timelines[b].arena, w, path,
                                           value.state.payload).arena
  OBVIOUS
<1>7. Sound(arena) /\ Fits(value.timelines[b].arena, arena)
  BY <1>5, <1>6, UpdateFits
<1>8. FitsAll(timeline, value.timelines)
  BY <1>3, HarmlessFits
<1>9. FitsAll(timeline, SetArena(value.timelines, b, arena))
  BY <1>1, <1>3, <1>7, FitsAfter
<1>10. FitsAll(timeline, timeline')
  BY <1>4, <1>6, <1>8, <1>9
<1> QED
  BY <1>10, FitsKeeps

\* So does match entropy, which moves a state that may be decayed.
LEMMA MatchEntropyKeeps ==
    ASSUME AreTimelines(timeline), NEW b \in Branch, NEW v \in Name,
           NEW e \in Expressions, MatchEntropy(b, e, v)
    PROVE  StepKeeps /\ NoneEnds
<1>1. Active(b) /\ IsTimeline(timeline[b])
  BY DEF AreTimelines, Active, MatchEntropy, Executes
<1>2. PICK value : value = EvaluateEntropic(b, e)
  OBVIOUS
<1>3. HarmlessAll(timeline, value.timelines)
  BY <1>1, <1>2, EvaluateEntropicHarmless
<1>4. \/ timeline' = value.timelines
      \/ timeline' = SetArena(value.timelines, b,
                       Insert(value.timelines[b].arena, v, value.state).arena)
  BY <1>2 DEF MatchEntropy
<1>5. Sound(value.timelines[b].arena)
  BY <1>1, <1>3 DEF HarmlessAll, Harmless, Active
<1>6. PICK arena : arena = Insert(value.timelines[b].arena, v, value.state).arena
  OBVIOUS
<1>7. Sound(arena) /\ Fits(value.timelines[b].arena, arena)
  BY <1>5, <1>6, InsertSound
<1>8. FitsAll(timeline, value.timelines)
  BY <1>3, HarmlessFits
<1>9. FitsAll(timeline, SetArena(value.timelines, b, arena))
  BY <1>1, <1>3, <1>7, FitsAfter
<1>10. FitsAll(timeline, timeline')
  BY <1>4, <1>6, <1>8, <1>9
<1> QED
  BY <1>10, FitsKeeps

\* So does the end of a time limit.
LEMMA DecayVariableKeeps ==
    ASSUME AreTimelines(timeline), NEW b \in Branch, NEW v, DecayVariable(b, v)
    PROVE  StepKeeps /\ NoneEnds
<1>1. IsTimeline(timeline[b]) /\ Sound(timeline[b].arena)
  BY DEF AreTimelines, Active, IsTimeline, DecayVariable, Executes
<1>2. PICK arena : arena = Decay(timeline[b].arena, v).arena
  OBVIOUS
<1>3. timeline' = SetArena(timeline, b, arena)
  BY <1>2 DEF DecayVariable
<1>4. Harmless(timeline[b].arena, arena)
  BY <1>1, <1>2, DecayHarmless
<1>5. HarmlessAll(timeline, timeline')
  BY <1>1, <1>3, <1>4, TimelinesHarmless
<1> QED
  BY <1>5, HarmlessFits, FitsKeeps

-----------------------------------------------------------------------------
(* Statements on timelines *)

\* One timeline is replaced.
Replaced(ts, b, u) == [ts EXCEPT ![b] = u]

\* The map after one timeline was replaced by a sound one.
LEMMA ReplaceTimeline ==
    ASSUME NEW ts, AreTimelines(ts), NEW b \in Branch, NEW u, IsTimeline(u)
    PROVE  /\ AreTimelines(Replaced(ts, b, u))
           /\ Replaced(ts, b, u)[b] = u
           /\ \A c \in Branch \ {b} : Replaced(ts, b, u)[c] = ts[c]
<1> DEFINE us == Replaced(ts, b, u)
<1>1. DOMAIN ts = Branch
  BY DEF AreTimelines
<1>2. us = [c \in Branch |-> IF c = b THEN u ELSE ts[c]]
  BY <1>1 DEF Replaced
<1> HIDE DEF us
<1>3. us[b] = u /\ \A c \in Branch \ {b} : us[c] = ts[c]
  BY <1>2
<1>4. us = [c \in Branch |-> us[c]]
  BY <1>2
<1>5. AreTimelines(us)
  BY <1>3, <1>4 DEF AreTimelines
<1> QED
  BY <1>3, <1>5 DEF us

\* Replacing a timeline is within the budget if it then uses no more, or if its
\* arena is one of its snapshots or a copy of another's.
LEMMA ReplaceKeeps ==
    ASSUME AreTimelines(timeline), NEW b \in Branch, NEW u, IsTimeline(u),
           timeline' = Replaced(timeline, b, u),
           \/ ~Active(b)
           \/ u.arena.used <= timeline[b].arena.used
           \/ u.arena \in Range(timeline[b].anchors)
           \/ \E p \in Branch : Active(p) /\ u.arena = timeline[p].arena
    PROVE  StepKeeps /\ NoneEnds
<1>1. /\ AreTimelines(timeline') /\ timeline'[b] = u
      /\ \A c \in Branch \ {b} : timeline'[c] = timeline[c]
  BY ReplaceTimeline
<1>2. u # NoTimeline
  BY TimelineIsActive
<1>3. ASSUME NEW c \in Branch, Active(c)
      PROVE  WithinBudget(c) /\ timeline'[c] # NoTimeline
  <2>1. CASE c = b
    BY <1>1, <1>2, <1>3, <2>1 DEF WithinBudget
  <2>2. CASE c # b
    <3>1. timeline'[c] = timeline[c]
      BY <1>1, <2>2
    <3> QED
      BY <1>3, <3>1 DEF WithinBudget, Active
  <2> QED
    BY <2>1, <2>2
<1> QED
  BY <1>1, <1>3 DEF StepKeeps, NoneEnds, Ends

\* isolate replaces its timeline by one with another capacity.
LEMMA IsolateReplaces ==
    ASSUME NEW b \in Branch, IsTimeline(timeline[b]), NEW capacity \in Capacities,
           Isolate(b, capacity)
    PROVE  \E u : /\ timeline' = Replaced(timeline, b, u)
                  /\ IsTimeline(u)
                  /\ u.arena.capacity = capacity
                  /\ u.arena.used = timeline[b].arena.used
                  /\ u.arena.bindings = timeline[b].arena.bindings
                  /\ u.anchors = timeline[b].anchors
                  /\ u.parent = timeline[b].parent
<1>1. Sound(timeline[b].arena) /\ capacity \in Nat
  BY EntangledAssumption DEF IsTimeline
<1> DEFINE arena == [timeline[b].arena EXCEPT !.capacity = capacity]
           u == [timeline[b] EXCEPT !.arena = arena]
<1>2. arena = [capacity |-> capacity, used |-> timeline[b].arena.used,
               bindings |-> timeline[b].arena.bindings]
  BY <1>1 DEF Sound
<1>3. timeline' = Replaced(timeline, b, u)
  BY DEF Isolate, Replaced
<1> HIDE DEF arena
<1>4. /\ Sound(arena) /\ arena.capacity = capacity
      /\ arena.used = timeline[b].arena.used
      /\ arena.bindings = timeline[b].arena.bindings
  BY <1>1, <1>2 DEF Sound
<1>5. IsTimeline(u) /\ u.arena = arena /\ u.anchors = timeline[b].anchors
  BY <1>4, TimelineUpdate
<1>6. u.parent = timeline[b].parent
  OBVIOUS
<1> HIDE DEF u
<1> QED
  BY <1>3, <1>4, <1>5, <1>6

\* A budget takes no memory.
LEMMA IsolateKeeps ==
    ASSUME AreTimelines(timeline), NEW b \in Branch, NEW capacity \in Capacities,
           Isolate(b, capacity)
    PROVE  StepKeeps /\ NoneEnds
<1>1. IsTimeline(timeline[b]) /\ timeline[b].arena.used \in Nat
  BY DEF AreTimelines, Active, IsTimeline, Isolate, Executes, Sound
<1>2. PICK u : /\ timeline' = Replaced(timeline, b, u)
               /\ IsTimeline(u)
               /\ u.arena.used = timeline[b].arena.used
  BY <1>1, IsolateReplaces
<1>3. u.arena.used <= timeline[b].arena.used
  BY <1>1, <1>2
<1> QED
  BY <1>2, <1>3, ReplaceKeeps

\* An anchor keeps a snapshot of the arena.
LEMMA SetAnchorReplaces ==
    ASSUME NEW b \in Branch, IsTimeline(timeline[b]), NEW a, SetAnchor(b, a)
    PROVE  \E u : /\ timeline' = Replaced(timeline, b, u)
                  /\ IsTimeline(u)
                  /\ u.arena = timeline[b].arena
                  /\ u.anchors = Put(timeline[b].anchors, a, timeline[b].arena)
                  /\ u.parent = timeline[b].parent
<1> DEFINE anchors == Put(timeline[b].anchors, a, timeline[b].arena)
           u == [timeline[b] EXCEPT !.anchors = anchors]
<1>1. timeline' = Replaced(timeline, b, u)
  BY DEF SetAnchor, Replaced
<1>2. \A x \in DOMAIN anchors : Sound(anchors[x])
  BY DEF Put, IsTimeline
<1> HIDE DEF anchors
<1>3. u = [arena |-> timeline[b].arena, anchors |-> anchors,
           parent |-> timeline[b].parent]
  BY DEF IsTimeline
<1> HIDE DEF u
<1>4. /\ IsTimeline(u) /\ u.arena = timeline[b].arena
      /\ u.anchors = anchors /\ u.parent = timeline[b].parent
  BY <1>2, <1>3 DEF IsTimeline
<1> QED
  BY <1>1, <1>4 DEF anchors

\* That takes no memory from the budget.
LEMMA SetAnchorKeeps ==
    ASSUME AreTimelines(timeline), NEW b \in Branch, NEW a, SetAnchor(b, a)
    PROVE  StepKeeps /\ NoneEnds
<1>1. IsTimeline(timeline[b]) /\ timeline[b].arena.used \in Nat
  BY DEF AreTimelines, Active, IsTimeline, SetAnchor, Executes, Sound
<1>2. PICK u : /\ timeline' = Replaced(timeline, b, u)
               /\ IsTimeline(u)
               /\ u.arena = timeline[b].arena
  BY <1>1, SetAnchorReplaces
<1>3. u.arena.used <= timeline[b].arena.used
  BY <1>1, <1>2
<1> QED
  BY <1>2, <1>3, ReplaceKeeps

\* A rewind, or the reversion of a merge, brings back a snapshot, which was sound
\* when it was taken.
LEMMA ToAnchorKeeps ==
    ASSUME AreTimelines(timeline), NEW b, Active(b), NEW a,
           a \in DOMAIN timeline[b].anchors,
           timeline' = SetArena(timeline, b, timeline[b].anchors[a])
    PROVE  StepKeeps /\ NoneEnds
<1>1. CASE b \in Branch
  <2>1. IsTimeline(timeline[b])
    BY <1>1 DEF AreTimelines, Active
  <2>2. PICK arena : arena = timeline[b].anchors[a]
    OBVIOUS
  <2> DEFINE u == [timeline[b] EXCEPT !.arena = arena]
  <2>3. timeline' = Replaced(timeline, b, u)
    BY <2>2 DEF SetArena, Replaced
  <2>4. Sound(arena) /\ arena \in Range(timeline[b].anchors)
    BY <2>1, <2>2 DEF IsTimeline, Range
  <2>5. IsTimeline(u) /\ u.arena = arena
    BY <2>1, <2>4, TimelineUpdate
  <2> HIDE DEF u
  <2> QED
    BY <1>1, <2>3, <2>4, <2>5, ReplaceKeeps
<1>2. CASE b \notin Branch
  <2>1. DOMAIN timeline = Branch
    BY DEF AreTimelines
  <2>2. timeline = [c \in Branch |-> timeline[c]]
    BY DEF AreTimelines
  <2>3. PICK u : timeline' = [timeline EXCEPT ![b] = u]
    BY DEF SetArena
  <2>4. timeline' = [c \in Branch |-> IF c = b THEN u ELSE timeline[c]]
    BY <2>1, <2>3
  <2>5. timeline' = timeline
    BY <1>2, <2>2, <2>4
  <2>6. HarmlessAll(timeline, timeline')
    BY <2>5, SameTimelines
  <2> QED
    BY <2>6, HarmlessFits, FitsKeeps
<1> QED
  BY <1>1, <1>2

\* commit compacts the arena and forgets the snapshots.
LEMMA CommitReplaces ==
    ASSUME AreTimelines(timeline), NEW b \in Branch, IsTimeline(timeline[b]), Commit(b)
    PROVE  \E u : /\ timeline' = Replaced(timeline, b, u)
                  /\ IsTimeline(u)
                  /\ u.arena = CompactConsumed(timeline[b].arena)
                  /\ DOMAIN u.anchors = {}
                  /\ u.parent = timeline[b].parent
<1>1. PICK arena : arena = CompactConsumed(timeline[b].arena)
  OBVIOUS
<1>2. Sound(arena)
  BY <1>1, CompactSound DEF IsTimeline
<1> DEFINE u == [arena |-> arena, anchors |-> <<>>, parent |-> timeline[b].parent]
<1>3. timeline' = Replaced(timeline, b, u)
  <2>1. DOMAIN timeline = Branch /\ b \in DOMAIN timeline
    BY DEF AreTimelines
  <2>2. u = [timeline[b] EXCEPT !.anchors = <<>>, !.arena = arena]
    <3>1. PICK none : none = <<>>
      OBVIOUS
    <3>2. DOMAIN timeline[b] = {"arena", "anchors", "parent"}
      BY DEF IsTimeline
    <3> DEFINE w == [timeline[b] EXCEPT !.anchors = none, !.arena = arena]
    <3>3. w = [x \in DOMAIN timeline[b] |->
                 IF x = "arena" THEN arena
                 ELSE IF x = "anchors" THEN none ELSE timeline[b][x]]
      OBVIOUS
    <3>4. w = [arena |-> arena, anchors |-> none, parent |-> timeline[b].parent]
      BY <3>2, <3>3
    <3> QED
      BY <3>1, <3>4
  <2>3. timeline' = [timeline EXCEPT ![b] = [timeline[b] EXCEPT
                                               !.anchors = <<>>, !.arena = arena]]
    BY <1>1, <2>1 DEF Commit
  <2> QED
    BY <2>2, <2>3 DEF Replaced
<1>4. /\ IsTimeline(u) /\ u.arena = arena /\ u.parent = timeline[b].parent
      /\ DOMAIN u.anchors = {}
  BY <1>2, EmptyDomain DEF IsTimeline
<1> HIDE DEF u
<1> QED
  BY <1>1, <1>3, <1>4

\* That only frees memory.
LEMMA CommitKeeps ==
    ASSUME AreTimelines(timeline), NEW b \in Branch, Commit(b)
    PROVE  StepKeeps /\ NoneEnds
<1>1. IsTimeline(timeline[b]) /\ Sound(timeline[b].arena)
  BY DEF AreTimelines, Active, IsTimeline, Commit, Executes
<1>2. PICK u : /\ timeline' = Replaced(timeline, b, u)
               /\ IsTimeline(u)
               /\ u.arena = CompactConsumed(timeline[b].arena)
  BY <1>1, CommitReplaces
<1>3. u.arena.used <= timeline[b].arena.used
  BY <1>1, <1>2, CompactSound DEF Shrinks
<1> QED
  BY <1>2, <1>3, ReplaceKeeps

\* split copies a sound arena.
LEMMA SplitKeeps ==
    ASSUME AreTimelines(timeline), NEW p \in Branch, NEW c \in Branch, Split(p, c)
    PROVE  StepKeeps /\ NoneEnds
<1>1. Active(p) /\ Sound(timeline[p].arena)
  BY DEF AreTimelines, Active, IsTimeline, Split, Executes
<1>2. PICK u : u = NewTimeline(timeline[p].arena, p)
  OBVIOUS
<1>3. timeline' = Replaced(timeline, c, u)
  BY <1>2 DEF Split, Replaced
<1>4. IsTimeline(u) /\ u.arena = timeline[p].arena
  BY <1>1, <1>2, EmptyDomain DEF IsTimeline, NewTimeline
<1> QED
  BY <1>1, <1>3, <1>4, ReplaceKeeps

\* A step that leaves the timelines alone.
LEMMA StutterKeeps ==
    ASSUME AreTimelines(timeline), timeline' = timeline
    PROVE  StepKeeps /\ NoneEnds
  BY SameTimelines, HarmlessFits, FitsKeeps

-----------------------------------------------------------------------------
(* What a merge combines *)

\* resolve_entropic_conflict looks for a consumed side before it looks at the
\* strategy.
LEMMA OutcomeConsumed ==
    ASSUME NEW c, ConsumedWins(c.existing, c.incoming), NEW branch, NEW below
    PROVE  Outcome(c, branch, below) = Resolved(Consumed, {})
  BY DEF Outcome

\* So what either side has consumed is consumed, whatever the strategy.
LEMMA ResolveConsumed ==
    ASSUME NEW existing, NEW incoming, ConsumedWins(existing, incoming),
           NEW strategy, NEW branch
    PROVE  Resolve(existing, incoming, strategy, branch).state = Consumed
<1> DEFINE top == Conflict(existing, incoming, strategy)
<1>1. \E below : Resolve(existing, incoming, strategy, branch)
                   = Outcome(top, branch, below)
  BY DEF Resolve
<1>2. ConsumedWins(top.existing, top.incoming)
  BY DEF Conflict
<1> HIDE DEF top
<1>3. Resolve(existing, incoming, strategy, branch) = Resolved(Consumed, {})
  BY <1>1, <1>2, OutcomeConsumed
<1> QED
  BY <1>3 DEF Resolved

\* The bindings of a timeline.
BindingsOf(b) == timeline[b].arena.bindings

\* What the first i timelines bring, once the first i - 1 are combined.
Joined(merge, bs, resolution, i) ==
    LET bindings(k) == BindingsOf(bs[k])
        names  == UNION {DOMAIN bindings(j) : j \in 1 .. i}
        before == merge.merged
        both   == DOMAIN before \intersect DOMAIN bindings(i)
        resolved == [k \in both |->
                       Resolve(before[k], bindings(i)[k], resolution[k], bs[i])]
    IN  [merged |-> [k \in names |-> IF k \in both THEN resolved[k].state
                                     ELSE IF k \in DOMAIN before THEN before[k]
                                     ELSE bindings(i)[k]],
         reversions |-> IF merge.reversions # {} THEN merge.reversions
                        ELSE UNION {resolved[k].reversions : k \in both}]

\* What the first timeline brings.
First(bs) == [merged |-> BindingsOf(bs[1]), reversions |-> {}]

\* merge has what the first i timelines bring together.
IsCombination(merge, bs, resolution) ==
    merge = [i \in 1 .. Len(bs) |->
               IF i = 1 THEN First(bs)
               ELSE Joined(merge[i - 1], bs, resolution, i)]

\* Combined is the last of these.
LEMMA CombinedIs ==
    ASSUME NEW bs, NEW resolution, \E m : IsCombination(m, bs, resolution)
    PROVE  \E m : /\ IsCombination(m, bs, resolution)
                  /\ Combined(bs, resolution) = m[Len(bs)]
<1> DEFINE M == CHOOSE m : IsCombination(m, bs, resolution)
<1>1. IsCombination(M, bs, resolution)
  OBVIOUS
<1>2. Combined(bs, resolution) = M[Len(bs)]
  BY DEF Combined, IsCombination, Joined, First, BindingsOf
<1> HIDE DEF M
<1> QED
  BY <1>1, <1>2

\* One timeline brings its bindings.
LEMMA CombinedOne ==
    ASSUME NEW bs, Len(bs) = 1, NEW resolution
    PROVE  Combined(bs, resolution).merged = BindingsOf(bs[1])
<1> DEFINE f == [i \in 1 .. 1 |-> First(bs)]
<1>1. 1 .. Len(bs) = {1} /\ 1 .. 1 = {1}
  OBVIOUS
<1>2. IsCombination(f, bs, resolution)
  BY <1>1 DEF IsCombination
<1>3. PICK m : /\ IsCombination(m, bs, resolution)
               /\ Combined(bs, resolution) = m[Len(bs)]
  BY <1>2, CombinedIs
<1>4. m[1] = First(bs)
  BY <1>1, <1>3 DEF IsCombination
<1> QED
  BY <1>3, <1>4 DEF First

\* Two timelines bring theirs, resolved where they meet.
LEMMA CombinedTwo ==
    ASSUME NEW bs, Len(bs) = 2, NEW resolution
    PROVE  Combined(bs, resolution) = Joined(First(bs), bs, resolution, 2)
<1> DEFINE f == [i \in 1 .. 2 |-> IF i = 1 THEN First(bs)
                                  ELSE Joined(First(bs), bs, resolution, 2)]
<1>1. 1 .. Len(bs) = {1, 2} /\ 1 .. 2 = {1, 2} /\ 2 - 1 = 1
  OBVIOUS
<1>2. f[1] = First(bs)
  BY <1>1
<1>3. f = [i \in 1 .. Len(bs) |-> IF i = 1 THEN First(bs)
                                  ELSE Joined(f[i - 1], bs, resolution, i)]
  BY <1>1, <1>2
<1> HIDE DEF f
<1>4. IsCombination(f, bs, resolution)
  BY <1>3 DEF IsCombination
<1>5. PICK m : /\ IsCombination(m, bs, resolution)
               /\ Combined(bs, resolution) = m[Len(bs)]
  BY <1>4, CombinedIs
<1>6. m[1] = First(bs) /\ m[2] = Joined(m[1], bs, resolution, 2)
  BY <1>1, <1>5 DEF IsCombination
<1> QED
  BY <1>5, <1>6

\* What two timelines bring together, name by name.
LEMMA CombinedPair ==
    ASSUME NEW bs, Len(bs) = 2, NEW resolution
    PROVE  LET one == BindingsOf(bs[1])
               two == BindingsOf(bs[2])
               both == DOMAIN one \intersect DOMAIN two
           IN  Combined(bs, resolution).merged =
                 [k \in DOMAIN one \union DOMAIN two |->
                    IF k \in both
                    THEN Resolve(one[k], two[k], resolution[k], bs[2]).state
                    ELSE IF k \in DOMAIN one THEN one[k] ELSE two[k]]
<1> DEFINE one == BindingsOf(bs[1])
           two == BindingsOf(bs[2])
           merged == Combined(bs, resolution).merged
           names == UNION {DOMAIN BindingsOf(bs[j]) : j \in 1 .. 2}
           both == DOMAIN one \intersect DOMAIN two
           resolved == [k \in both |-> Resolve(one[k], two[k], resolution[k], bs[2])]
<1>1. names = DOMAIN one \union DOMAIN two
  <2>1. 1 .. 2 = {1, 2}
    OBVIOUS
  <2> QED
    BY <2>1
<1>2. First(bs).merged = one
  BY DEF First
<1>3. merged = Joined(First(bs), bs, resolution, 2).merged
  BY CombinedTwo
<1> HIDE DEF merged, one
<1>4. Joined(First(bs), bs, resolution, 2).merged =
        [k \in names |-> IF k \in both THEN resolved[k].state
                         ELSE IF k \in DOMAIN one THEN one[k] ELSE two[k]]
  BY <1>2 DEF Joined
<1> HIDE DEF names, two
<1>5. \A k \in both : resolved[k] = Resolve(one[k], two[k], resolution[k], bs[2])
  OBVIOUS
<1> HIDE DEF resolved
<1>6. merged = [k \in DOMAIN one \union DOMAIN two |->
                 IF k \in both
                 THEN Resolve(one[k], two[k], resolution[k], bs[2]).state
                 ELSE IF k \in DOMAIN one THEN one[k] ELSE two[k]]
  BY <1>1, <1>3, <1>4, <1>5
<1> QED
  BY <1>6 DEF merged, one, two

\* Every name that a merging timeline binds is in the combination, as Consumed if
\* one of them has consumed it.
Gathers(merged, bs) ==
    /\ \A i \in 1 .. Len(bs) : DOMAIN BindingsOf(bs[i]) \subseteq DOMAIN merged
    /\ \A k \in DOMAIN merged : \E i \in 1 .. Len(bs) : k \in DOMAIN BindingsOf(bs[i])
    /\ \A i \in 1 .. Len(bs) : \A k \in DOMAIN BindingsOf(bs[i]) :
          BindingsOf(bs[i])[k] = Consumed => merged[k] = Consumed

\* The combination of the merging timelines loses no name, and no fact that a
\* value has been consumed.
LEMMA CombinedGathers ==
    ASSUME NEW bs, Len(bs) \in {1, 2}, NEW resolution
    PROVE  Gathers(Combined(bs, resolution).merged, bs)
<1>1. CASE Len(bs) = 1
  <2>1. 1 .. Len(bs) = {1}
    BY <1>1
  <2>2. Combined(bs, resolution).merged = BindingsOf(bs[1])
    BY <1>1, CombinedOne
  <2> QED
    BY <2>1, <2>2 DEF Gathers
<1>2. CASE Len(bs) = 2
  <2>1. 1 .. Len(bs) = {1, 2} /\ 1 .. 2 = {1, 2}
    BY <1>2
  <2> DEFINE one == BindingsOf(bs[1])
             two == BindingsOf(bs[2])
             merged == Combined(bs, resolution).merged
             both == DOMAIN one \intersect DOMAIN two
  <2>4. merged = [k \in DOMAIN one \union DOMAIN two |->
                    IF k \in both
                    THEN Resolve(one[k], two[k], resolution[k], bs[2]).state
                    ELSE IF k \in DOMAIN one THEN one[k] ELSE two[k]]
    BY <1>2, CombinedPair
  <2> HIDE DEF one, two, merged
  <2>5. DOMAIN merged = DOMAIN one \union DOMAIN two
    BY <2>4
  <2>6. ASSUME NEW k \in DOMAIN merged,
               \/ k \in DOMAIN one /\ one[k] = Consumed
               \/ k \in DOMAIN two /\ two[k] = Consumed
        PROVE  merged[k] = Consumed
    <3>1. CASE k \in both
      <4>1. ConsumedWins(one[k], two[k])
        BY <2>6 DEF ConsumedWins
      <4> QED
        BY <2>4, <2>5, <3>1, <4>1, ResolveConsumed
    <3>2. CASE k \notin both
      BY <2>4, <2>5, <2>6, <3>2
    <3> QED
      BY <3>1, <3>2
  <2>7. Gathers(merged, bs)
    BY <2>1, <2>5, <2>6 DEF Gathers, one, two
  <2> QED
    BY <2>7 DEF merged
<1> QED
  BY <1>1, <1>2

\* Any order in which the hash map of the combination is walked visits every
\* name.
LEMMA OrderCovers ==
    ASSUME NEW S \in SUBSET Name, NEW order \in Orders(S)
    PROVE  /\ Len(order) \in Nat
           /\ \A i \in 1 .. Len(order) : order[i] \in S
           /\ \A k \in S : \E i \in 1 .. Len(order) : order[i] = k
<1> DEFINE n == Cardinality(S)
<1>1. IsFiniteSet(S)
  BY NamesFinite
<1>2. n \in Nat
  BY <1>1, FS_CardinalityType
<1>3. Cardinality(1 .. n) = n
  <2>1. Cardinality(1 .. n) = IF 1 > n THEN 0 ELSE n - 1 + 1
    BY <1>2, FS_Interval
  <2> QED
    BY <1>2, <2>1
<1>4. order \in [1 .. n -> S] /\ order \in Injection(1 .. n, S)
  BY DEF Orders, Injection
<1> HIDE DEF n
<1>5. Len(order) = n
  BY <1>2, <1>4
<1>6. order \in Surjection(1 .. n, S)
  <2>1. Cardinality(1 .. n) = Cardinality(S) <=> order \in Surjection(1 .. n, S)
    BY <1>1, <1>4, FS_Injection
  <2> QED
    BY <1>3, <2>1 DEF n
<1> QED
  BY <1>2, <1>4, <1>5, <1>6 DEF Surjection

-----------------------------------------------------------------------------
(* Merges, and the theorems *)

\* What a merge of bs into t does when it inserts all of merged, or fails to.
Delivers(insert, merged, bs, t) ==
    /\ Sound(insert.arena)
    /\ Fits(timeline[t].arena, insert.arena)
    /\ Draws(insert.arena, timeline[t].arena, merged)
    /\ insert.error = "none" =>
         \A v \in DOMAIN merged : /\ v \in DOMAIN insert.arena.bindings
                                  /\ insert.arena.bindings[v] = merged[v]
    /\ timeline' = [c \in Branch |-> timeline'[c]]
    /\ \A c \in Branch :
         /\ insert.error = "none" /\ c \in Range(bs) => timeline'[c] = NoTimeline
         /\ ~ (insert.error = "none" /\ c \in Range(bs)) =>
              timeline'[c] = IF c = t THEN [timeline[t] EXCEPT !.arena = insert.arena]
                             ELSE timeline[c]

\* A merge that has no reversion to trigger inserts all that the merging timelines
\* brought before they are removed, or removes none of them.
LEMMA MergeIntoDelivers ==
    ASSUME AreTimelines(timeline), NEW t \in Branch, Active(t), NEW bs, NEW merged,
           DOMAIN merged \in SUBSET Name, MergeInto(bs, t, merged)
    PROVE  \E insert : Delivers(insert, merged, bs, t)
<1>1. Sound(timeline[t].arena)
  BY DEF AreTimelines, Active, IsTimeline
<1> DEFINE Update(insert) ==
             [b \in Branch |->
                CASE insert.error = "none" /\ b \in Range(bs) -> NoTimeline
                  [] b = t /\ ~(insert.error = "none" /\ b \in Range(bs)) ->
                        [timeline[t] EXCEPT !.arena = insert.arena]
                  [] b # t /\ ~(insert.error = "none" /\ b \in Range(bs)) ->
                        timeline[b]]
<1>2. PICK order \in Orders(DOMAIN merged) :
        timeline' = Update(InsertAll(timeline[t].arena, merged, order))
  BY DEF MergeInto
<1>3. PICK insert : insert = InsertAll(timeline[t].arena, merged, order)
  OBVIOUS
<1>4. timeline' = Update(insert)
  BY <1>2, <1>3
<1>5. /\ Len(order) \in Nat
      /\ \A i \in 1 .. Len(order) : order[i] \in DOMAIN merged
      /\ \A v \in DOMAIN merged : \E i \in 1 .. Len(order) : order[i] = v
  BY <1>2, OrderCovers
<1>6. \A i \in 1 .. Len(order) : order[i] \in Name
  BY <1>5
<1>7. /\ Sound(insert.arena)
      /\ Fits(timeline[t].arena, insert.arena)
      /\ insert.error = "none" =>
           \A j \in 1 .. Len(order) :
              /\ order[j] \in DOMAIN insert.arena.bindings
              /\ insert.arena.bindings[order[j]] = merged[order[j]]
  BY <1>1, <1>3, <1>5, <1>6, InsertAllProperties
<1>8. insert.error = "none" =>
         \A v \in DOMAIN merged : /\ v \in DOMAIN insert.arena.bindings
                                  /\ insert.arena.bindings[v] = merged[v]
  BY <1>5, <1>7
<1>d. Draws(insert.arena, timeline[t].arena, merged)
  BY <1>1, <1>3, <1>5, <1>6, InsertAllDraws
<1>9. timeline' = [c \in Branch |-> timeline'[c]]
  BY <1>4
<1>10. ASSUME NEW c \in Branch
       PROVE  /\ insert.error = "none" /\ c \in Range(bs) =>
                   timeline'[c] = NoTimeline
              /\ ~ (insert.error = "none" /\ c \in Range(bs)) =>
                   timeline'[c] =
                     IF c = t THEN [timeline[t] EXCEPT !.arena = insert.arena]
                     ELSE timeline[c]
  <2>1. CASE insert.error = "none" /\ c \in Range(bs)
    BY <1>4, <2>1
  <2>2. CASE ~ (insert.error = "none" /\ c \in Range(bs))
    <3>1. CASE c = t
      BY <1>4, <2>2, <3>1
    <3>2. CASE c # t
      BY <1>4, <2>2, <3>2
    <3> QED
      BY <3>1, <3>2
  <2> QED
    BY <2>1, <2>2
<1>11. Delivers(insert, merged, bs, t)
  BY <1>7, <1>8, <1>9, <1>10, <1>d DEF Delivers
<1> QED
  BY <1>11

\* Such a merge keeps the timelines sound and within their budgets.
LEMMA DeliversKeeps ==
    ASSUME AreTimelines(timeline), NEW t \in Branch, Active(t), NEW bs, NEW merged,
           NEW insert, Delivers(insert, merged, bs, t)
    PROVE  StepKeeps
<1>1. IsTimeline(timeline[t])
  BY DEF AreTimelines, Active
<1>2. PICK u : u = [timeline[t] EXCEPT !.arena = insert.arena]
  OBVIOUS
<1>3. IsTimeline(u) /\ u.arena = insert.arena
  BY <1>1, <1>2, TimelineUpdate DEF Delivers
<1>4. ASSUME NEW c \in Branch
      PROVE  timeline'[c] \in {NoTimeline, timeline[c]} \/ (c = t /\ timeline'[c] = u)
  BY <1>2 DEF Delivers
<1>5. ASSUME NEW c \in Branch, timeline'[c] # NoTimeline
      PROVE  IsTimeline(timeline'[c])
  BY <1>3, <1>4, <1>5 DEF AreTimelines
<1>6. AreTimelines(timeline')
  BY <1>5 DEF AreTimelines, Delivers
<1>7. ASSUME NEW c \in Branch, Active(c), timeline'[c] # NoTimeline
      PROVE  WithinBudget(c)
  <2>1. CASE c = t /\ timeline'[c] = u
    BY <1>3, <2>1 DEF Delivers, Fits, WithinBudget
  <2>2. CASE timeline'[c] = timeline[c]
    BY <1>7, <2>2 DEF WithinBudget
  <2> QED
    BY <1>4, <1>7, <2>1, <2>2
<1> QED
  BY <1>6, <1>7 DEF StepKeeps

\* One or two timelines merge.
LEMMA MergingIs ==
    ASSUME NEW bs \in Merging
    PROVE  /\ Len(bs) \in {1, 2}
           /\ DOMAIN bs = 1 .. Len(bs)
           /\ \A i \in 1 .. Len(bs) : bs[i] \in Branch
<1>1. CASE bs \in {<<b>> : b \in Branch}
  <2>1. PICK b \in Branch : bs = <<b>>
    BY <1>1
  <2>2. Len(bs) = 1 /\ bs[1] = b /\ DOMAIN bs = 1 .. 1
    BY <2>1
  <2> QED
    BY <2>2
<1>2. CASE bs \in Branch \X Branch
  <2>1. PICK b \in Branch, c \in Branch : bs = <<b, c>>
    BY <1>2
  <2>2. Len(bs) = 2 /\ bs[1] = b /\ bs[2] = c /\ DOMAIN bs = 1 .. 2
    BY <2>1
  <2> QED
    BY <2>2
<1> QED
  BY <1>1, <1>2 DEF Merging

\* A merge takes one timeline back to an anchor, or gathers and delivers.
Reverts == \E b, a : /\ Active(b) /\ a \in DOMAIN timeline[b].anchors
                     /\ timeline' = SetArena(timeline, b, timeline[b].anchors[a])

\* A merge is one or the other.
LEMMA MergeCases ==
    ASSUME AreTimelines(timeline), NEW t \in Branch, NEW bs \in Merging, Merge(bs, t)
    PROVE  \/ Reverts
           \/ \E resolution \in [Contested(bs) -> Strategies] : \E merged, insert :
                 /\ merged = Combined(bs, resolution).merged
                 /\ Gathers(merged, bs)
                 /\ Delivers(insert, merged, bs, t)
<1>1. Active(t) /\ \A b \in Range(bs) : Active(b)
  BY DEF Merge, Executes
<1>2. PICK resolution \in [Contested(bs) -> Strategies] :
         LET result == Combined(bs, resolution)
         IN  \/ /\ result.reversions # {}
                /\ \E reversion \in result.reversions : Revert(reversion)
             \/ /\ result.reversions = {}
                /\ MergeInto(bs, t, result.merged)
  BY DEF Merge
<1>3. CASE \E reversion : Revert(reversion)
  <2>1. PICK reversion : Revert(reversion)
    BY <1>3
  <2>2. /\ Active(reversion.branch)
        /\ reversion.anchor \in DOMAIN timeline[reversion.branch].anchors
        /\ timeline' = SetArena(timeline, reversion.branch,
                         timeline[reversion.branch].anchors[reversion.anchor])
    BY <2>1 DEF Revert
  <2> QED
    BY <2>2 DEF Reverts
<1>4. CASE MergeInto(bs, t, Combined(bs, resolution).merged)
  <2>1. PICK merged : merged = Combined(bs, resolution).merged
    OBVIOUS
  <2>2. Gathers(merged, bs)
    BY <2>1, MergingIs, CombinedGathers
  <2>3. ASSUME NEW i \in 1 .. Len(bs)
        PROVE  DOMAIN BindingsOf(bs[i]) \subseteq Name
    <3>1. bs[i] \in Branch /\ bs[i] \in Range(bs)
      BY MergingIs DEF Range
    <3>2. Sound(timeline[bs[i]].arena)
      BY <1>1, <3>1 DEF AreTimelines, Active, IsTimeline
    <3> QED
      BY <3>2 DEF Sound, BindingsOf
  <2>4. DOMAIN merged \in SUBSET Name
    BY <2>2, <2>3 DEF Gathers
  <2>5. PICK insert : Delivers(insert, merged, bs, t)
    BY <1>1, <1>4, <2>1, <2>4, MergeIntoDelivers
  <2> QED
    BY <2>1, <2>2, <2>5
<1> QED
  BY <1>2, <1>3, <1>4

\* Every merge keeps the timelines sound and within their budgets.
LEMMA MergeKeeps ==
    ASSUME AreTimelines(timeline), NEW t \in Branch, NEW bs \in Merging, Merge(bs, t)
    PROVE  StepKeeps
<1>1. Active(t)
  BY DEF Merge, Executes
<1>2. CASE Reverts
  BY <1>2, ToAnchorKeeps DEF Reverts
<1>3. CASE \E merged, insert : Delivers(insert, merged, bs, t)
  BY <1>1, <1>3, DeliversKeeps
<1> QED
  BY <1>2, <1>3, MergeCases

\* So does every statement; and only a merge ends a timeline.
LEMMA NextKeeps ==
    ASSUME AreTimelines(timeline), Next
    PROVE  /\ StepKeeps
           /\ NoneEnds \/ \E t \in Branch, bs \in Merging : Merge(bs, t)
<1>1. PICK b \in Branch : ValueStatement(b) \/ TimelineStatement(b)
  BY DEF Next
<1>2. CASE ValueStatement(b)
  <2>1. CASE \E v \in Name, kind \in Literals, fs \in NonEmpty(Field) :
               Let(b, v, kind, fs)
    BY <2>1, LetKeeps
  <2>2. CASE \E v \in Name, e \in Expressions : Assign(b, v, e)
    BY <2>2, AssignKeeps
  <2>3. CASE \E v \in Name, e \in Expressions : MatchEntropy(b, e, v)
    BY <2>3, MatchEntropyKeeps
  <2>4. CASE \E w \in Name, path \in Paths, e \in Expressions :
               FieldUpdate(b, w, path, e)
    BY <2>4, FieldUpdateKeeps
  <2>5. CASE \E e \in Expressions : Expression(b, e)
    BY <2>5, ExpressionKeeps
  <2>6. CASE \E v \in Name : DecayVariable(b, v)
    BY <2>6, DecayVariableKeeps
  <2> QED
    BY <1>2, <2>1, <2>2, <2>3, <2>4, <2>5, <2>6 DEF ValueStatement
<1>3. CASE TimelineStatement(b)
  <2>1. CASE \E capacity \in Capacities : Isolate(b, capacity)
    BY <2>1, IsolateKeeps
  <2>2. CASE \E a \in AnchorName : SetAnchor(b, a)
    BY <2>2, SetAnchorKeeps
  <2>3. CASE \E a \in AnchorName : Rewind(b, a)
    <3>1. PICK a \in AnchorName : Rewind(b, a)
      BY <2>3
    <3>2. /\ Active(b) /\ a \in DOMAIN timeline[b].anchors
          /\ timeline' = SetArena(timeline, b, timeline[b].anchors[a])
      BY <3>1 DEF Rewind, Executes
    <3> QED
      BY <3>2, ToAnchorKeeps
  <2>4. CASE Commit(b)
    BY <2>4, CommitKeeps
  <2>5. CASE \E names \in NonEmpty(Name) : Entangle(b, names)
    <3>1. timeline' = timeline
      BY <2>5 DEF Entangle
    <3> QED
      BY <3>1, StutterKeeps
  <2>6. CASE \E c \in Branch : Split(b, c)
    BY <2>6, SplitKeeps
  <2>7. CASE \E bs \in Merging : Merge(bs, b)
    BY <2>7, MergeKeeps
  <2> QED
    BY <1>3, <2>1, <2>2, <2>3, <2>4, <2>5, <2>6, <2>7 DEF TimelineStatement
<1> QED
  BY <1>1, <1>2, <1>3

\* The first timeline is sound: main has an empty arena.
LEMMA InitSound ==
    ASSUME Init
    PROVE  AreTimelines(timeline)
<1>1. PICK capacity \in Capacities :
         timeline = [b \in Branch |-> IF b = Root
                                      THEN NewTimeline(NewArena(capacity), Root)
                                      ELSE NoTimeline]
  BY DEF Init
<1>2. PICK u : u = NewTimeline(NewArena(capacity), Root)
  OBVIOUS
<1>3. Sound(NewArena(capacity))
  BY EntangledAssumption, NewArenaSound
<1>4. IsTimeline(u)
  BY <1>2, <1>3, EmptyDomain DEF IsTimeline, NewTimeline
<1>5. timeline = [b \in Branch |-> IF b = Root THEN u ELSE NoTimeline]
  BY <1>1, <1>2
<1> QED
  BY <1>4, <1>5 DEF AreTimelines

\* Statements and stuttering steps keep the timelines sound.
LEMMA StepSound ==
    ASSUME AreTimelines(timeline), [Next]_vars
    PROVE  /\ StepKeeps
           /\ NoneEnds \/ \E t \in Branch, bs \in Merging : Merge(bs, t)
<1>1. CASE Next
  BY <1>1, NextKeeps
<1>2. CASE vars' = vars
  BY <1>2, StutterKeeps DEF vars
<1> QED
  BY <1>1, <1>2

\* The inductive invariant: the arena and the snapshots of every active timeline
\* are sound.
TimelinesSound == AreTimelines(timeline)

\* The arenas and the snapshots of all timelines stay sound: whatever statements
\* run on whatever timelines and fail wherever they fail (arena.rs operations as
\* statement.rs and core.rs call them), "used" covers what is bound.
THEOREM TimelinesStaySound == Spec => []TimelinesSound
<1>1. Init => TimelinesSound
  BY InitSound DEF TimelinesSound
<1>2. TimelinesSound /\ [Next]_vars => TimelinesSound'
  BY StepSound DEF TimelinesSound, StepKeeps
<1> QED
  BY <1>1, <1>2, PTL DEF Spec

\* FootprintCounted for every set of names, fields, branches, capacities and
\* strategies: the memory that an arena says is in use covers what it holds.
THEOREM FootprintsCounted == Spec => []FootprintCounted
<1>1. TimelinesSound => FootprintCounted
  BY DEF TimelinesSound, AreTimelines, IsTimeline, Sound, FootprintCounted, Active
<1> QED
  BY <1>1, TimelinesStaySound, PTL

\* GrowthWithinCapacity for the same: no statement takes an arena beyond its
\* capacity, except for a return to a snapshot and the copy of a split.
THEOREM GrowthFits == Spec => GrowthWithinCapacity
<1>1. TimelinesSound /\ [Next]_vars =>
        [\A b \in Branch : Active(b) /\ timeline'[b] # NoTimeline
                             => WithinBudget(b)]_vars
  BY StepSound DEF TimelinesSound, StepKeeps
<1> QED
  BY <1>1, TimelinesStaySound, PTL DEF Spec, GrowthWithinCapacity

\* In a program that merges by the book a timeline ends in a merge into its
\* parent, which then has all its names, and has consumed what it had consumed.
LEMMA EndsByMerge ==
    ASSUME Disciplined, AreTimelines(timeline), [Next]_vars,
           NEW c \in Branch, Ends(c)
    PROVE  \E t \in Branch :
             /\ timeline[c].parent = t
             /\ timeline'[t] # NoTimeline
             /\ \A v \in DOMAIN BindingsOf(c) :
                   /\ v \in DOMAIN timeline'[t].arena.bindings
                   /\ BindingsOf(c)[v] = Consumed =>
                        timeline'[t].arena.bindings[v] = Consumed
<1>1. PICK t \in Branch, bs \in Merging : Merge(bs, t)
  BY StepSound DEF NoneEnds
<1>2. Active(t) /\ MergesIntoParent(bs, t)
  BY <1>1 DEF Merge, Executes
<1>3. ~Reverts
  BY ToAnchorKeeps DEF Reverts, NoneEnds
<1>4. PICK merged, insert : /\ Gathers(merged, bs)
                            /\ Delivers(insert, merged, bs, t)
  BY <1>1, <1>3, MergeCases
<1>5. IsTimeline(timeline[t]) /\ IsTimeline(timeline[c])
  BY <1>2 DEF AreTimelines, Active, Ends
<1>6. PICK u : u = [timeline[t] EXCEPT !.arena = insert.arena]
  OBVIOUS
<1>7. IsTimeline(u) /\ u.arena = insert.arena /\ u # NoTimeline
  BY <1>4, <1>5, <1>6, TimelineUpdate, TimelineIsActive DEF Delivers
<1>8. insert.error = "none" /\ c \in Range(bs)
  <2> SUFFICES ASSUME ~ (insert.error = "none" /\ c \in Range(bs))
               PROVE  FALSE
    OBVIOUS
  <2>1. timeline'[c] \in {u, timeline[c]}
    BY <1>4, <1>6 DEF Delivers
  <2> QED
    BY <1>7, <2>1 DEF Ends, Active
<1>9. t \notin Range(bs) /\ timeline[c].parent = t
  BY <1>2, <1>8 DEF MergesIntoParent
<1>10. timeline'[t] = u
  BY <1>4, <1>6, <1>9 DEF Delivers
<1>11. PICK i \in 1 .. Len(bs) : bs[i] = c
  BY <1>8, MergingIs DEF Range
<1>12. ASSUME NEW v \in DOMAIN BindingsOf(c)
       PROVE  /\ v \in DOMAIN u.arena.bindings
              /\ BindingsOf(c)[v] = Consumed => u.arena.bindings[v] = Consumed
  <2>1. v \in DOMAIN merged /\ (BindingsOf(c)[v] = Consumed => merged[v] = Consumed)
    BY <1>4, <1>11 DEF Gathers
  <2>2. v \in DOMAIN insert.arena.bindings /\ insert.arena.bindings[v] = merged[v]
    BY <1>4, <1>8, <2>1 DEF Delivers
  <2> QED
    BY <1>7, <2>1, <2>2
<1> QED
  BY <1>7, <1>9, <1>10, <1>12

\* MergeDelivers, for programs that merge by the book (Disciplined, as in the
\* runs): a merge that runs out of memory leaves its sources alive, and one that
\* ends a timeline has delivered all that it had bound.
THEOREM MergesDeliver ==
    ASSUME Disciplined
    PROVE  Spec => MergeDelivers
<1>1. TimelinesSound /\ [Next]_vars =>
        [\A c \in Branch : Ends(c) =>
           \E t \in Branch :
              /\ timeline'[t] # NoTimeline
              /\ DOMAIN timeline[c].arena.bindings
                   \subseteq DOMAIN timeline'[t].arena.bindings]_vars
  BY EndsByMerge DEF TimelinesSound, BindingsOf
<1> QED
  BY <1>1, TimelinesStaySound, PTL DEF Spec, MergeDelivers

\* MergeKeepsConsumed for the same programs: whatever the strategies and the order
\* of the insertions, what one side has consumed is not readable in the parent.
THEOREM MergesKeepConsumed ==
    ASSUME Disciplined
    PROVE  Spec => MergeKeepsConsumed
<1>1. TimelinesSound /\ [Next]_vars =>
        [\A c \in Branch : Ends(c) =>
           \A v \in DOMAIN timeline[c].arena.bindings :
              timeline[c].arena.bindings[v] = Consumed =>
                ~Peekable(timeline'[timeline[c].parent].arena, v)]_vars
  <2> SUFFICES ASSUME TimelinesSound, [Next]_vars, NEW c \in Branch, Ends(c),
                      NEW v \in DOMAIN BindingsOf(c), BindingsOf(c)[v] = Consumed
               PROVE  ~Peekable(timeline'[timeline[c].parent].arena, v)
    BY DEF BindingsOf
  <2>1. PICK t \in Branch :
             /\ timeline[c].parent = t
             /\ \A w \in DOMAIN BindingsOf(c) :
                   /\ w \in DOMAIN timeline'[t].arena.bindings
                   /\ BindingsOf(c)[w] = Consumed =>
                        timeline'[t].arena.bindings[w] = Consumed
    BY EndsByMerge DEF TimelinesSound
  <2>2. StateOf(timeline'[t].arena, v) = Consumed
    BY <2>1 DEF StateOf
  <2>3. StateOf(timeline'[t].arena, v).tag = "Consumed"
    BY <2>2 DEF Consumed
  <2> QED
    BY <2>1, <2>3 DEF Peekable
<1> QED
  BY <1>1, TimelinesStaySound, PTL DEF Spec, MergeKeepsConsumed
=============================================================================
