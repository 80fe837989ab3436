----------------------------- MODULE ValueProofs -----------------------------
(***************************************************************************)
(* Proofs about the values in the arenas of all timelines.  A value is a   *)
(* tree of fields with scalars at its leaves; for each operation of the    *)
(* arena, each statement and each resolution of a merge there is a lemma   *)
(* that says which trees it leaves and where their scalars come from.      *)
(*                                                                         *)
(* The theorem of this module is type correctness: a value that counts as  *)
(* valid is valid all through.  That no value is spent twice is proved     *)
(* from the same lemmas in EntanglementProofs.                             *)
(***************************************************************************)
EXTENDS ArenaProofs

-----------------------------------------------------------------------------
(* The nodes of a tree by their paths *)

\* The path to a field of a node.
LEMMA AppendPath ==
    ASSUME NEW q \in Seq(Field), NEW f \in Field
    PROVE  /\ Append(q, f) \in Seq(Field)
           /\ Len(Append(q, f)) = Len(q) + 1
           /\ Len(q) \in Nat
           /\ Append(q, f) # <<>>
  OBVIOUS

\* The path of a node of a field, seen from its parent.
Under(f, q) == <<f>> \o q

\* Paths that begin with the name of a field.
LEMMA UnderPath ==
    ASSUME NEW q \in Seq(Field), NEW f \in Field
    PROVE  /\ Under(f, q) \in Seq(Field)
           /\ Len(Under(f, q)) = Len(q) + 1
           /\ Under(f, q) # <<>>
           /\ Under(f, q)[1] = f
           /\ Tail(Under(f, q)) = q
           /\ \A g \in Field : Append(Under(f, q), g) = Under(f, Append(q, g))
<1>1. /\ Under(f, q) \in Seq(Field) /\ Len(Under(f, q)) = Len(q) + 1
      /\ Under(f, q)[1] = f
      /\ Under(f, q) # <<>>
  BY DEF Under
<1>2. Tail(Under(f, q)) = q
  <2>1. \A i \in 1 .. Len(q) : Under(f, q)[i + 1] = q[i]
    BY DEF Under
  <2>2. Tail(Under(f, q)) \in Seq(Field) /\ Len(Tail(Under(f, q))) = Len(q)
    BY <1>1, HeadTailProperties
  <2>3. \A i \in 1 .. Len(q) : Tail(Under(f, q))[i] = q[i]
    BY <1>1, <2>1, HeadTailProperties
  <2> QED
    BY <2>2, <2>3, SeqEqual
<1>3. ASSUME NEW g \in Field
      PROVE  Append(Under(f, q), g) = Under(f, Append(q, g))
  <2>1. /\ Append(Under(f, q), g) \in Seq(Field)
        /\ Under(f, Append(q, g)) \in Seq(Field)
        /\ Len(Append(Under(f, q), g)) = Len(q) + 2
        /\ Len(Under(f, Append(q, g))) = Len(q) + 2
    BY <1>1 DEF Under
  <2>2. ASSUME NEW i \in 1 .. Len(q) + 2
        PROVE  Append(Under(f, q), g)[i] = Under(f, Append(q, g))[i]
    BY <1>1 DEF Under
  <2> QED
    BY <2>1, <2>2, SeqEqual
<1> QED
  BY <1>1, <1>2, <1>3

\* A node is a path of field names, as long as it is deep at most, and a state.
LEMMA NodeShape ==
    ASSUME NEW state, NEW n \in 0 .. MaxDepth, NEW node \in NodesTo(state)[n]
    PROVE  /\ node = <<node[1], node[2]>>
           /\ node[1] \in Seq(Field)
           /\ Len(node[1]) \in Nat
           /\ Len(node[1]) <= n
<1> DEFINE Shape(m, k) == /\ m = <<m[1], m[2]>> /\ m[1] \in Seq(Field)
                          /\ Len(m[1]) \in Nat /\ Len(m[1]) <= k
           T == {k \in Nat : k <= MaxDepth =>
                               \A m \in NodesTo(state)[k] : Shape(m, k)}
<1>0. MaxDepth \in Nat
  BY ArenaAssumption
<1>1. 0 \in T
  <2>1. ASSUME NEW m \in NodesTo(state)[0]
        PROVE  Shape(m, 0)
    <3>1. m = << <<>>, state >>
      BY NodesToIs
    <3>2. Len(<<>>) = 0 /\ <<>> \in Seq(Field)
      OBVIOUS
    <3> QED
      BY <3>1, <3>2
  <2> QED
    BY <2>1
<1>2. ASSUME NEW k \in Nat, k \in T
      PROVE  k + 1 \in T
  <2> SUFFICES ASSUME k + 1 <= MaxDepth, NEW m \in NodesTo(state)[k + 1]
               PROVE  Shape(m, k + 1)
    OBVIOUS
  <2>1. k + 1 \in 1 .. MaxDepth /\ (k + 1) - 1 = k
    BY <1>0
  <2>2. m \in {<< <<>>, state >>} \union UNION {Children(p) : p \in NodesTo(state)[k]}
    BY <2>1, NodesToIs
  <2>3. CASE m = << <<>>, state >>
    <3>1. Len(<<>>) = 0 /\ <<>> \in Seq(Field)
      OBVIOUS
    <3> QED
      BY <2>3, <3>1
  <2>4. CASE m # << <<>>, state >>
    <3>1. PICK p \in NodesTo(state)[k] : m \in Children(p)
      BY <2>2, <2>4
    <3>2. Shape(p, k)
      BY <1>2, <2>1, <1>0, <3>1
    <3>3. PICK f \in FieldNames(p[2]) : m = <<Append(p[1], f), FieldsOf(p[2])[f]>>
      BY <3>1 DEF Children
    <3>4. f \in Field
      BY <3>3 DEF FieldNames
    <3> QED
      BY <3>2, <3>3, <3>4, AppendPath
  <2> QED
    BY <2>3, <2>4
<1>3. n \in T
  <2> HIDE DEF T
  <2>1. n \in Nat
    BY <1>0
  <2> QED
    BY <1>1, <1>2, <2>1, NaturalInduction
<1> QED
  BY <1>3

\* A tree cut deeper down has more nodes.
LEMMA NodesGrow ==
    ASSUME NEW state, NEW m \in Nat, NEW n \in Nat, m <= n, n <= MaxDepth
    PROVE  NodesTo(state)[m] \subseteq NodesTo(state)[n]
<1>0. MaxDepth \in Nat
  BY ArenaAssumption
<1>1. \A k \in Nat : k + 1 <= MaxDepth => NodesTo(state)[k] \subseteq NodesTo(state)[k + 1]
  <2> DEFINE T == {k \in Nat : k + 1 <= MaxDepth =>
                                NodesTo(state)[k] \subseteq NodesTo(state)[k + 1]}
  <2>1. 0 \in T
    <3>1. 1 <= MaxDepth => 1 \in 1 .. MaxDepth
      BY <1>0
    <3> QED
      BY <3>1, NodesToIs
  <2>2. ASSUME NEW k \in Nat, k \in T
        PROVE  k + 1 \in T
    <3> SUFFICES ASSUME k + 2 <= MaxDepth
                 PROVE  NodesTo(state)[k + 1] \subseteq NodesTo(state)[k + 2]
      BY DEF T
    <3>1. /\ k + 1 \in 1 .. MaxDepth /\ (k + 1) - 1 = k
          /\ k + 2 \in 1 .. MaxDepth /\ (k + 2) - 1 = k + 1
      BY <1>0
    <3>2. NodesTo(state)[k] \subseteq NodesTo(state)[k + 1]
      BY <1>0, <2>2
    <3>3. NodesTo(state)[k + 1] = {<< <<>>, state >>}
            \union UNION {Children(p) : p \in NodesTo(state)[k]}
      BY <3>1, NodesToIs
    <3>4. NodesTo(state)[k + 2] = {<< <<>>, state >>}
            \union UNION {Children(p) : p \in NodesTo(state)[k + 1]}
      BY <3>1, NodesToIs
    <3> QED
      BY <3>2, <3>3, <3>4
  <2> HIDE DEF T
  <2>3. Nat \subseteq T
    BY <2>1, <2>2, NaturalInduction
  <2> QED
    BY <2>3 DEF T
<1> DEFINE S == {k \in Nat : k <= MaxDepth /\ m <= k =>
                               NodesTo(state)[m] \subseteq NodesTo(state)[k]}
<1>2. 0 \in S
  BY <1>0
<1>3. ASSUME NEW k \in Nat, k \in S
      PROVE  k + 1 \in S
  <2> SUFFICES ASSUME k + 1 <= MaxDepth, m <= k + 1
               PROVE  NodesTo(state)[m] \subseteq NodesTo(state)[k + 1]
    OBVIOUS
  <2>1. CASE m = k + 1
    BY <2>1
  <2>2. CASE m <= k
    <3>1. NodesTo(state)[m] \subseteq NodesTo(state)[k]
      BY <1>0, <1>3, <2>2
    <3>2. NodesTo(state)[k] \subseteq NodesTo(state)[k + 1]
      BY <1>1
    <3> QED
      BY <3>1, <3>2
  <2> QED
    BY <2>1, <2>2
<1>4. n \in S
  <2> HIDE DEF S
  <2> QED
    BY <1>2, <1>3, NaturalInduction
<1> QED
  BY <1>4

\* A node other than the root is a field of a node one level up, whichever level
\* it was found at.
LEMMA ParentNode ==
    ASSUME NEW state, NEW n \in 0 .. MaxDepth, NEW node \in NodesTo(state)[n],
           node[1] # <<>>
    PROVE  \E p \in NodesTo(state)[Len(node[1]) - 1] :
              /\ node \in Children(p)
              /\ Len(p[1]) = Len(node[1]) - 1
              /\ HasFields(p[2])
<1> DEFINE Up(m) == \E p \in NodesTo(state)[Len(m[1]) - 1] :
                       /\ m \in Children(p)
                       /\ Len(p[1]) = Len(m[1]) - 1
                       /\ HasFields(p[2])
           T == {k \in Nat : k <= MaxDepth =>
                   \A m \in NodesTo(state)[k] :
                      m[1] # <<>> => Up(m) /\ m \in NodesTo(state)[Len(m[1])]}
<1>0. MaxDepth \in Nat
  BY ArenaAssumption
<1>1. 0 \in T
  <2>1. \A m \in NodesTo(state)[0] : m[1] = <<>>
    BY NodesToIs
  <2> QED
    BY <2>1
<1>2. ASSUME NEW k \in Nat, k \in T
      PROVE  k + 1 \in T
  <2> SUFFICES ASSUME k + 1 <= MaxDepth, NEW m \in NodesTo(state)[k + 1],
                      m[1] # <<>>
               PROVE  Up(m) /\ m \in NodesTo(state)[Len(m[1])]
    OBVIOUS
  <2>1. k + 1 \in 1 .. MaxDepth /\ (k + 1) - 1 = k /\ k \in 0 .. MaxDepth
    BY <1>0
  <2>2. m \in {<< <<>>, state >>} \union UNION {Children(p) : p \in NodesTo(state)[k]}
    BY <2>1, NodesToIs
  <2>3. m # << <<>>, state >>
    OBVIOUS
  <2>4. PICK p \in NodesTo(state)[k] : m \in Children(p)
    BY <2>2, <2>3
  <2>5. p[1] \in Seq(Field) /\ Len(p[1]) \in Nat /\ Len(p[1]) <= k
    BY <2>1, <2>4, NodeShape
  <2>6. PICK f \in FieldNames(p[2]) : m = <<Append(p[1], f), FieldsOf(p[2])[f]>>
    BY <2>4 DEF Children
  <2>7. f \in Field /\ HasFields(p[2])
    BY <2>6 DEF FieldNames
  <2>8. Len(m[1]) = Len(p[1]) + 1
    BY <2>5, <2>6, <2>7
  <2>9. p \in NodesTo(state)[Len(p[1])]
    <3>1. CASE p[1] # <<>>
      BY <1>2, <2>1, <2>4, <3>1, <1>0
    <3>2. CASE p[1] = <<>>
      <4>1. p = << <<>>, state >>
        <5> DEFINE root == << <<>>, state >>
        <5>1. CASE k = 0
          BY <5>1, <2>4, NodesToIs
        <5>2. CASE k # 0
          <6>1. k \in 1 .. MaxDepth /\ k - 1 \in 0 .. MaxDepth
            BY <1>0, <2>1, <5>2
          <6>2. p = root \/ \E o \in NodesTo(state)[k - 1] : p \in Children(o)
            BY <6>1, <2>4, NodesToIs
          <6>3. ASSUME NEW o \in NodesTo(state)[k - 1], p \in Children(o)
                PROVE  FALSE
            <7>1. o[1] \in Seq(Field)
              BY <6>1, NodeShape
            <7>2. PICK g \in FieldNames(o[2]) : p = <<Append(o[1], g), FieldsOf(o[2])[g]>>
              BY <6>3 DEF Children
            <7>3. g \in Field
              BY <7>2 DEF FieldNames
            <7> QED
              BY <3>2, <7>1, <7>2, <7>3, AppendPath
          <6> QED
            BY <6>2, <6>3
        <5> QED
          BY <5>1, <5>2
      <4> QED
        BY <3>2, <4>1, NodesToIs
    <3> QED
      BY <3>1, <3>2
  <2>10. Len(m[1]) \in 1 .. MaxDepth /\ Len(m[1]) - 1 = Len(p[1])
    BY <1>0, <2>5, <2>8
  <2>11. Up(m)
    BY <2>4, <2>7, <2>9, <2>10
  <2>12. m \in NodesTo(state)[Len(m[1])]
    BY <2>4, <2>9, <2>10, NodesToIs
  <2> QED
    BY <2>11, <2>12
<1>3. n \in T
  <2> HIDE DEF T
  <2>1. n \in Nat
    BY <1>0
  <2> QED
    BY <1>1, <1>2, <2>1, NaturalInduction
<1> QED
  BY <1>0, <1>3

\* A node of a field as a node of its parent.
Lift(f, node) == <<Under(f, node[1]), node[2]>>

\* A child of a node of a field.
LEMMA LiftChild ==
    ASSUME NEW f \in Field, NEW node, node[1] \in Seq(Field),
           NEW m \in Children(node)
    PROVE  Lift(f, m) \in Children(Lift(f, node))
<1>1. PICK g \in FieldNames(node[2]) : m = <<Append(node[1], g), FieldsOf(node[2])[g]>>
  BY DEF Children
<1>2. g \in Field
  BY <1>1 DEF FieldNames
<1>3. Lift(f, m) = <<Append(Under(f, node[1]), g), FieldsOf(node[2])[g]>>
  BY <1>1, <1>2, UnderPath DEF Lift
<1>4. Lift(f, node)[1] = Under(f, node[1]) /\ Lift(f, node)[2] = node[2]
  BY DEF Lift
<1> QED
  BY <1>1, <1>3, <1>4 DEF Children

\* The nodes of a state are itself and the nodes of its fields.
LEMMA NodesUnfold ==
    ASSUME NEW state, NEW n \in Nat, n + 1 <= MaxDepth
    PROVE  /\ \A f \in FieldNames(state) : \A m \in NodesTo(FieldsOf(state)[f])[n] :
                 Lift(f, m) \in NodesTo(state)[n + 1]
           /\ \A node \in NodesTo(state)[n + 1] :
                 \/ node = << <<>>, state >>
                 \/ \E f \in FieldNames(state) :
                       \E m \in NodesTo(FieldsOf(state)[f])[n] : node = Lift(f, m)
<1> DEFINE root == << <<>>, state >>
           Down(k) == \A f \in FieldNames(state) :
                        \A m \in NodesTo(FieldsOf(state)[f])[k] :
                           Lift(f, m) \in NodesTo(state)[k + 1]
           Up(k) == \A node \in NodesTo(state)[k + 1] :
                      \/ node = root
                      \/ \E f \in FieldNames(state) :
                            \E m \in NodesTo(FieldsOf(state)[f])[k] : node = Lift(f, m)
           T == {k \in Nat : k + 1 <= MaxDepth => Down(k) /\ Up(k)}
<1>0. MaxDepth \in Nat /\ FieldNames(state) \subseteq Field
  BY ArenaAssumption DEF FieldNames
<1>a. \A f \in FieldNames(state) :
        Lift(f, << <<>>, FieldsOf(state)[f] >>) = <<Append(<<>>, f), FieldsOf(state)[f]>>
  BY <1>0 DEF Lift, Under
<1>b. Children(root) = {Lift(f, << <<>>, FieldsOf(state)[f] >>) : f \in FieldNames(state)}
  BY <1>a DEF Children
<1>1. 0 \in T
  <2> SUFFICES ASSUME 1 <= MaxDepth
               PROVE  Down(0) /\ Up(0)
    OBVIOUS
  <2>1. 1 \in 1 .. MaxDepth
    BY <1>0
  <2>2. NodesTo(state)[0] = {root}
    BY NodesToIs
  <2>3. NodesTo(state)[1] = {root} \union Children(root)
    <3>1. NodesTo(state)[1] = {root} \union
            UNION {Children(node) : node \in NodesTo(state)[1 - 1]}
      BY <2>1, NodesToIs
    <3> QED
      BY <2>2, <3>1
  <2>4. \A f \in FieldNames(state) : NodesTo(FieldsOf(state)[f])[0]
                                       = {<< <<>>, FieldsOf(state)[f] >>}
    BY NodesToIs
  <2>5. 0 + 1 = 1
    OBVIOUS
  <2> HIDE DEF root
  <2>6. Down(0)
    BY <1>b, <2>3, <2>4, <2>5
  <2>7. ASSUME NEW node \in NodesTo(state)[0 + 1], node # root
        PROVE  \E f \in FieldNames(state) :
                 \E m \in NodesTo(FieldsOf(state)[f])[0] : node = Lift(f, m)
    <3>1. node \in Children(root)
      BY <2>3, <2>5, <2>7
    <3>2. PICK f \in FieldNames(state) : node = Lift(f, << <<>>, FieldsOf(state)[f] >>)
      BY <1>b, <3>1
    <3> QED
      BY <2>4, <3>2
  <2> QED
    BY <2>6, <2>7
<1>2. ASSUME NEW k \in Nat, k \in T
      PROVE  k + 1 \in T
  <2> SUFFICES ASSUME k + 2 <= MaxDepth
               PROVE  Down(k + 1) /\ Up(k + 1)
    BY DEF T
  <2>1. /\ k + 2 \in 1 .. MaxDepth /\ (k + 2) - 1 = k + 1 /\ (k + 1) + 1 = k + 2
        /\ k + 1 \in 1 .. MaxDepth /\ (k + 1) - 1 = k /\ k \in 0 .. MaxDepth
        /\ k + 1 <= MaxDepth /\ k + 1 \in 0 .. MaxDepth
    BY <1>0
  <2>2. Down(k) /\ Up(k)
    BY <1>2, <2>1
  <2>3. NodesTo(state)[k + 2] = {root}
          \union UNION {Children(node) : node \in NodesTo(state)[k + 1]}
    BY <2>1, NodesToIs
  <2>4. ASSUME NEW f \in FieldNames(state), NEW m \in NodesTo(FieldsOf(state)[f])[k + 1]
        PROVE  Lift(f, m) \in NodesTo(state)[k + 2]
    <3> DEFINE field == FieldsOf(state)[f]
    <3>1. m = << <<>>, field >> \/ \E o \in NodesTo(field)[k] : m \in Children(o)
      BY <2>1, NodesToIs
    <3>2. CASE m = << <<>>, field >>
      <4>1. Lift(f, m) \in Children(root)
        BY <1>b, <3>2
      <4>2. root \in NodesTo(state)[k + 1]
        BY <2>1, RootIsNode
      <4> HIDE DEF root
      <4> QED
        BY <2>3, <4>1, <4>2
    <3>3. ASSUME NEW o \in NodesTo(field)[k], m \in Children(o)
          PROVE  Lift(f, m) \in NodesTo(state)[k + 2]
      <4>1. Lift(f, o) \in NodesTo(state)[k + 1]
        BY <2>2
      <4>2. o[1] \in Seq(Field)
        BY <2>1, NodeShape
      <4>3. Lift(f, m) \in Children(Lift(f, o))
        BY <1>0, <3>3, <4>2, LiftChild
      <4> HIDE DEF root
      <4> QED
        BY <2>3, <4>1, <4>3
    <3> QED
      BY <3>1, <3>2, <3>3
  <2>5. ASSUME NEW node \in NodesTo(state)[k + 2], node # root
        PROVE  \E f \in FieldNames(state) :
                 \E m \in NodesTo(FieldsOf(state)[f])[k + 1] : node = Lift(f, m)
    <3>1. PICK p \in NodesTo(state)[k + 1] : node \in Children(p)
      BY <2>3, <2>5
    <3>2. CASE p = root
      <4>1. PICK f \in FieldNames(state) : node = Lift(f, << <<>>, FieldsOf(state)[f] >>)
        BY <1>b, <3>1, <3>2
      <4>2. << <<>>, FieldsOf(state)[f] >> \in NodesTo(FieldsOf(state)[f])[k + 1]
        BY <2>1, RootIsNode
      <4> QED
        BY <4>1, <4>2
    <3>3. CASE p # root
      <4>a. PICK f \in FieldNames(state) :
              \E m \in NodesTo(FieldsOf(state)[f])[k] : p = Lift(f, m)
        BY <2>2, <3>3
      <4>1. PICK m \in NodesTo(FieldsOf(state)[f])[k] : p = Lift(f, m)
        BY <4>a
      <4>2. m[1] \in Seq(Field)
        BY <2>1, NodeShape
      <4>3. p[1] = Under(f, m[1]) /\ p[2] = m[2]
        BY <4>1 DEF Lift
      <4>4. PICK g \in FieldNames(p[2]) : node = <<Append(p[1], g), FieldsOf(p[2])[g]>>
        BY <3>1 DEF Children
      <4>5. g \in Field /\ f \in Field
        BY <1>0, <4>4 DEF FieldNames
      <4> DEFINE o == <<Append(m[1], g), FieldsOf(m[2])[g]>>
      <4>6. o \in Children(m)
        BY <4>3, <4>4 DEF Children
      <4>7. o \in NodesTo(FieldsOf(state)[f])[k + 1]
        BY <2>1, <4>6, NodesToIs
      <4>8. node = Lift(f, o)
        <5>a. PICK q \in Seq(Field) : q = m[1]
          BY <4>2
        <5>b. Append(Under(f, q), g) = Under(f, Append(q, g))
          BY <4>5, UnderPath
        <5>1. Append(p[1], g) = Under(f, Append(m[1], g))
          BY <4>3, <5>a, <5>b
        <5>2. o[1] = Append(m[1], g) /\ o[2] = FieldsOf(p[2])[g]
          BY <4>3
        <5> HIDE DEF o
        <5> QED
          BY <4>4, <5>1, <5>2 DEF Lift
      <4> QED
        BY <4>7, <4>8
    <3> QED
      BY <3>2, <3>3
  <2> QED
    BY <2>1, <2>4, <2>5
<1>3. n \in T
  <2> HIDE DEF T
  <2> QED
    BY <1>1, <1>2, NaturalInduction
<1> QED
  BY <1>3

\* Only the root has an empty path, and a node is found at the level of its path.
LEMMA NodeLevel ==
    ASSUME NEW state, NEW n \in 0 .. MaxDepth, NEW node \in NodesTo(state)[n]
    PROVE  /\ node[1] = <<>> <=> node = << <<>>, state >>
           /\ Len(node[1]) \in Nat
           /\ node \in NodesTo(state)[Len(node[1])]
<1>0. MaxDepth \in Nat /\ n \in Nat
  BY ArenaAssumption
<1>1. node[1] \in Seq(Field) /\ Len(node[1]) \in Nat /\ Len(node[1]) <= n
  BY NodeShape
<1>2. ASSUME node[1] = <<>>
      PROVE  node = << <<>>, state >>
  <2>1. CASE n = 0
    BY <2>1, NodesToIs
  <2>2. CASE n # 0
    <3> DEFINE k == n - 1
    <3>1. k \in Nat /\ k + 1 = n /\ k + 1 <= MaxDepth /\ k \in 0 .. MaxDepth
      BY <1>0, <2>2
    <3> HIDE DEF k
    <3>2. SUFFICES ASSUME node # << <<>>, state >>
                   PROVE  FALSE
      OBVIOUS
    <3>3. PICK f \in FieldNames(state) :
            \E m \in NodesTo(FieldsOf(state)[f])[k] : node = Lift(f, m)
      BY <3>1, <3>2, NodesUnfold
    <3>4. PICK m \in NodesTo(FieldsOf(state)[f])[k] : node = Lift(f, m)
      BY <3>3
    <3>5. m[1] \in Seq(Field) /\ f \in Field
      BY <3>1, NodeShape DEF FieldNames
    <3>6. node[1] = Under(f, m[1])
      BY <3>4 DEF Lift
    <3> QED
      BY <1>2, <3>5, <3>6, UnderPath
  <2> QED
    BY <2>1, <2>2
<1>3. CASE node[1] = <<>>
  <2>1. node = << <<>>, state >> /\ Len(node[1]) = 0
    BY <1>2, <1>3
  <2> QED
    BY <1>3, <2>1, NodesToIs
<1>4. CASE node[1] # <<>>
  <2>1. PICK p \in NodesTo(state)[Len(node[1]) - 1] : node \in Children(p)
    BY <1>4, ParentNode
  <2>2. Len(node[1]) # 0
    BY <1>1, <1>4
  <2>3. Len(node[1]) \in 1 .. MaxDepth
    BY <1>0, <1>1, <2>2
  <2>4. node \in NodesTo(state)[Len(node[1])]
    BY <2>1, <2>3, NodesToIs
  <2> QED
    BY <1>1, <1>4, <2>4
<1> QED
  BY <1>3, <1>4

\* A state without fields is its only node.
LEMMA FlatNodes ==
    ASSUME NEW state, ~HasFields(state)
    PROVE  Nodes(state) = {<< <<>>, state >>}
<1>0. MaxDepth \in Nat
  BY ArenaAssumption
<1>1. FieldNames(state) = {}
  BY DEF FieldNames
<1>2. CASE MaxDepth = 0
  BY <1>2, NodesToIs DEF Nodes
<1>3. CASE MaxDepth # 0
  <2> DEFINE k == MaxDepth - 1
  <2>1. k \in Nat /\ k + 1 = MaxDepth /\ k + 1 <= MaxDepth /\ MaxDepth \in 0 .. MaxDepth
    BY <1>0, <1>3
  <2> HIDE DEF k
  <2>2. \A node \in NodesTo(state)[k + 1] : node = << <<>>, state >>
    BY <1>1, <2>1, NodesUnfold
  <2>3. << <<>>, state >> \in NodesTo(state)[MaxDepth]
    BY <2>1, RootIsNode
  <2> QED
    BY <2>1, <2>2, <2>3 DEF Nodes
<1> QED
  BY <1>2, <1>3

\* Where nothing nests too deep, the deepest level has no further nodes.
LEMMA ShallowNodes ==
    ASSUME NEW state, MaxDepth # 0, NEW d \in Nat, NestsWithin(state, d + 1),
           NEW m \in Nodes(state)
    PROVE  m \in NodesTo(state)[MaxDepth - 1]
<1>0. MaxDepth \in Nat /\ MaxDepth \in 0 .. MaxDepth /\ MaxDepth - 1 \in Nat
  BY ArenaAssumption
<1>1. /\ m[1] \in Seq(Field) /\ Len(m[1]) \in Nat /\ Len(m[1]) <= MaxDepth
      /\ m \in NodesTo(state)[Len(m[1])]
  BY <1>0, NodeShape, NodeLevel DEF Nodes
<1>2. CASE Len(m[1]) <= MaxDepth - 1
  BY <1>0, <1>1, <1>2, NodesGrow
<1>3. CASE Len(m[1]) = MaxDepth
  <2>1. m[1] # <<>>
    BY <1>0, <1>3
  <2>2. PICK p \in NodesTo(state)[MaxDepth - 1] :
          Len(p[1]) = MaxDepth - 1 /\ HasFields(p[2])
    BY <1>0, <1>3, <2>1, ParentNode DEF Nodes
  <2>3. p \in Nodes(state)
    BY <1>0, <2>2, NodesGrow DEF Nodes
  <2>4. d + 1 + (MaxDepth - 1) < MaxDepth
    BY <2>2, <2>3 DEF NestsWithin
  <2> QED
    BY <1>0, <2>4
<1> QED
  BY <1>0, <1>1, <1>2, <1>3

\* The nodes of a tree, told by its fields.
LEMMA NodesBelow ==
    ASSUME NEW state, MaxDepth # 0
    PROVE  /\ \A f \in FieldNames(state) :
                 \A m \in NodesTo(FieldsOf(state)[f])[MaxDepth - 1] :
                    Lift(f, m) \in Nodes(state)
           /\ \A node \in Nodes(state) :
                 \/ node = << <<>>, state >>
                 \/ \E f \in FieldNames(state) :
                       \E m \in NodesTo(FieldsOf(state)[f])[MaxDepth - 1] :
                          node = Lift(f, m)
<1>1. PICK k \in Nat : k = MaxDepth - 1 /\ k + 1 = MaxDepth /\ k + 1 <= MaxDepth
  BY ArenaAssumption
<1>2. Nodes(state) = NodesTo(state)[k + 1]
  BY <1>1 DEF Nodes
<1>0. k + 1 <= MaxDepth
  BY <1>1
<1>3. \A f \in FieldNames(state) : \A m \in NodesTo(FieldsOf(state)[f])[k] :
         Lift(f, m) \in NodesTo(state)[k + 1]
  BY <1>0, NodesUnfold
<1>4. \A node \in NodesTo(state)[k + 1] :
                 \/ node = << <<>>, state >>
                 \/ \E f \in FieldNames(state) :
                       \E m \in NodesTo(FieldsOf(state)[f])[k] : node = Lift(f, m)
  BY <1>0, NodesUnfold
<1>5. k = MaxDepth - 1
  BY <1>1
<1> QED
  BY <1>2, <1>3, <1>4, <1>5

\* Depths add up.
LEMMA DeeperBy ==
    ASSUME NEW d \in Nat, NEW q, Len(q) \in Nat
    PROVE  d + 1 + Len(q) < MaxDepth <=> d + (Len(q) + 1) < MaxDepth
<1>1. PICK l \in Nat : l = Len(q)
  OBVIOUS
<1>2. d + 1 + l = d + (l + 1)
  OBVIOUS
<1> QED
  BY <1>1, <1>2

\* How deep a state nests, told by its fields.
LEMMA NestsUnfold ==
    ASSUME NEW state, NEW d \in Nat
    PROVE  NestsWithin(state, d)
             <=> (HasFields(state) =>
                    /\ d < MaxDepth
                    /\ \A f \in FieldNames(state) :
                          NestsWithin(FieldsOf(state)[f], d + 1))
<1>0. MaxDepth \in Nat /\ MaxDepth \in 0 .. MaxDepth
  BY ArenaAssumption
<1>r. << <<>>, state >> \in Nodes(state)
  BY <1>0, RootIsNode DEF Nodes
<1>1. CASE ~HasFields(state)
  <2>1. NestsWithin(state, d)
    BY <1>1, FlatNodes DEF NestsWithin
  <2> QED
    BY <1>1, <2>1
<1>2. CASE HasFields(state) /\ MaxDepth = 0
  <2>1. ~ (d < MaxDepth)
    BY <1>0, <1>2
  <2>2. ~ NestsWithin(state, d)
    <3>1. Len(<<>>) = 0
      OBVIOUS
    <3>2. NestsWithin(state, d) => d + Len(<<>>) < MaxDepth
      BY <1>r, <1>2 DEF NestsWithin
    <3> QED
      BY <1>0, <1>2, <3>1, <3>2
  <2> QED
    BY <1>2, <2>1, <2>2
<1>3. CASE HasFields(state) /\ MaxDepth # 0
  <2> DEFINE k == MaxDepth - 1
  <2>0. k \in Nat /\ k + 1 = MaxDepth /\ k + 1 <= MaxDepth /\ k \in 0 .. MaxDepth
        /\ k <= MaxDepth
    BY <1>0, <1>3
  <2> HIDE DEF k
  <2>1. ASSUME NestsWithin(state, d)
        PROVE  d < MaxDepth
    <3>1. Len(<<>>) = 0
      OBVIOUS
    <3>2. d + Len(<<>>) < MaxDepth
      BY <1>r, <1>3, <2>1 DEF NestsWithin
    <3> QED
      BY <3>1, <3>2
  <2>2. ASSUME NestsWithin(state, d), NEW f \in FieldNames(state),
               NEW m \in Nodes(FieldsOf(state)[f]), HasFields(m[2])
        PROVE  d + 1 + Len(m[1]) < MaxDepth
    <3> DEFINE field == FieldsOf(state)[f]
    <3>1. /\ m[1] \in Seq(Field) /\ Len(m[1]) \in Nat /\ Len(m[1]) <= MaxDepth
          /\ m \in NodesTo(field)[Len(m[1])]
      BY <1>0, NodeShape, NodeLevel DEF Nodes
    <3>2. f \in Field
      BY DEF FieldNames
    <3> HIDE DEF field
    <3>3. ASSUME NEW o \in NodesTo(field)[k], HasFields(o[2])
          PROVE  d + (Len(o[1]) + 1) < MaxDepth
      <4>1. Lift(f, o) \in Nodes(state)
        BY <2>0, NodesUnfold DEF field, Nodes
      <4>2. o[1] \in Seq(Field)
        BY <2>0, NodeShape
      <4>3. Lift(f, o)[2] = o[2] /\ Len(Lift(f, o)[1]) = Len(o[1]) + 1
        BY <3>2, <4>2, UnderPath DEF Lift
      <4> QED
        BY <2>2, <3>3, <4>1, <4>3 DEF NestsWithin
    <3>4. CASE Len(m[1]) <= k
      <4>1. m \in NodesTo(field)[k]
        BY <2>0, <3>1, <3>4, NodesGrow
      <4>2. d + (Len(m[1]) + 1) < MaxDepth
        BY <2>2, <3>3, <4>1
      <4> QED
        BY <3>1, <4>2, DeeperBy
    <3>5. CASE Len(m[1]) = MaxDepth
      <4>1. m[1] # <<>>
        BY <1>3, <3>5
      <4>2. m \in NodesTo(field)[MaxDepth]
        BY DEF Nodes, field
      <4>3. PICK o \in NodesTo(field)[MaxDepth - 1] :
              Len(o[1]) = MaxDepth - 1 /\ HasFields(o[2])
        BY <1>0, <3>5, <4>1, <4>2, ParentNode
      <4>4. MaxDepth - 1 = k
        BY <2>0
      <4>5. d + (k + 1) < MaxDepth
        BY <3>3, <4>3, <4>4
      <4> QED
        BY <1>0, <2>0, <4>5
    <3>6. \A l \in Nat : l <= MaxDepth => l <= k \/ l = MaxDepth
      BY <1>0, <2>0
    <3> QED
      BY <3>1, <3>4, <3>5, <3>6
  <2>3. ASSUME d < MaxDepth,
               \A f \in FieldNames(state) : NestsWithin(FieldsOf(state)[f], d + 1)
        PROVE  NestsWithin(state, d)
    <3> SUFFICES ASSUME NEW node \in Nodes(state), HasFields(node[2])
                 PROVE  d + Len(node[1]) < MaxDepth
      BY DEF NestsWithin
    <3>1. CASE node = << <<>>, state >>
      BY <2>3, <3>1
    <3>2. CASE node # << <<>>, state >>
      <4>a. node \in NodesTo(state)[k + 1]
        BY <2>0 DEF Nodes
      <4>1. PICK f \in FieldNames(state) :
              \E m \in NodesTo(FieldsOf(state)[f])[k] : node = Lift(f, m)
        BY <2>0, <3>2, <4>a, NodesUnfold
      <4>2. PICK m \in NodesTo(FieldsOf(state)[f])[k] : node = Lift(f, m)
        BY <4>1
      <4>3. m \in Nodes(FieldsOf(state)[f])
        BY <1>0, <2>0, NodesGrow DEF Nodes
      <4>4. m[1] \in Seq(Field) /\ Len(m[1]) \in Nat /\ f \in Field
        BY <2>0, NodeShape DEF FieldNames
      <4>5. node[2] = m[2] /\ Len(node[1]) = Len(m[1]) + 1
        BY <4>2, <4>4, UnderPath DEF Lift
      <4>6. d + 1 + Len(m[1]) < MaxDepth
        BY <2>3, <4>3, <4>5 DEF NestsWithin
      <4>7. d + (Len(m[1]) + 1) < MaxDepth
        BY <4>4, <4>6, DeeperBy
      <4> QED
        BY <4>5, <4>7
    <3> QED
      BY <3>1, <3>2
  <2>4. ASSUME NestsWithin(state, d), NEW f \in FieldNames(state)
        PROVE  NestsWithin(FieldsOf(state)[f], d + 1)
    BY <2>2, <2>4 DEF NestsWithin
  <2> QED
    BY <1>3, <2>1, <2>3, <2>4
<1> QED
  BY <1>1, <1>2, <1>3

-----------------------------------------------------------------------------
(* The scalars in a state, and where they are *)

\* The scalar x is in the state, at the end of the path.
Leaf(state, path, x) ==
    \E node \in Nodes(state) : /\ node[1] = path
                               /\ IsValid(node[2]) /\ ~HasFields(node[2])
                               /\ node[2].payload.value = x

\* Those are the scalars that an expression spends.
LEMMA ScalarsAreLeaves ==
    ASSUME NEW state
    PROVE  \A x : x \in Scalars(state) <=> \E path : Leaf(state, path, x)
  BY DEF Scalars, Leaf

\* A state without fields is a scalar or holds none.
LEMMA LeafFlat ==
    ASSUME NEW state, ~HasFields(state), NEW path, NEW x
    PROVE  Leaf(state, path, x)
             <=> path = <<>> /\ IsValid(state) /\ state.payload.value = x
<1>1. ASSUME NEW node \in Nodes(state)
      PROVE  node[1] = <<>> /\ node[2] = state
  BY <1>1, FlatNodes
<1>2. << <<>>, state >> \in Nodes(state)
  BY FlatNodes
<1>3. ASSUME Leaf(state, path, x)
      PROVE  path = <<>> /\ IsValid(state) /\ state.payload.value = x
  BY <1>1, <1>3 DEF Leaf
<1>4. ASSUME path = <<>>, IsValid(state), state.payload.value = x
      PROVE  Leaf(state, path, x)
  <2> DEFINE node == << <<>>, state >>
  <2>1. node[1] = path /\ node[2] = state
    BY <1>4
  <2> HIDE DEF node
  <2> QED
    BY <1>2, <1>4, <2>1 DEF Leaf, node
<1> QED
  BY <1>3, <1>4

\* The scalars of a state with fields are those of its fields.
LEMMA LeafUnfold ==
    ASSUME NEW state, HasFields(state), NEW d \in Nat, NestsWithin(state, d),
           NEW path, NEW x
    PROVE  Leaf(state, path, x)
             <=> \E f \in FieldNames(state) : \E q \in Seq(Field) :
                    path = Under(f, q) /\ Leaf(FieldsOf(state)[f], q, x)
<1>1. MaxDepth \in Nat /\ d < MaxDepth
  BY NestsUnfold, ArenaAssumption
<1> DEFINE k == MaxDepth - 1
<1>2. k \in Nat /\ k + 1 = MaxDepth /\ k + 1 <= MaxDepth /\ k \in 0 .. MaxDepth
      /\ k <= MaxDepth /\ MaxDepth # 0
  BY <1>1
<1>k. k = MaxDepth - 1
  OBVIOUS
<1> HIDE DEF k
<1>3. ASSUME Leaf(state, path, x)
      PROVE  \E f \in FieldNames(state) : \E q \in Seq(Field) :
                    path = Under(f, q) /\ Leaf(FieldsOf(state)[f], q, x)
  <2>1. PICK node \in Nodes(state) : /\ node[1] = path
                                     /\ IsValid(node[2]) /\ ~HasFields(node[2])
                                     /\ node[2].payload.value = x
    BY <1>3 DEF Leaf
  <2>2. node # << <<>>, state >>
    BY <2>1
  <2>3. PICK f \in FieldNames(state) :
          \E m \in NodesTo(FieldsOf(state)[f])[k] : node = Lift(f, m)
    BY <1>2, <1>k, <2>2, NodesBelow
  <2>4. PICK m \in NodesTo(FieldsOf(state)[f])[k] : node = Lift(f, m)
    BY <2>3
  <2>5. m \in Nodes(FieldsOf(state)[f])
    BY <1>1, <1>2, NodesGrow DEF Nodes
  <2>6. m[1] \in Seq(Field)
    BY <1>2, NodeShape
  <2>7. node[1] = Under(f, m[1]) /\ node[2] = m[2]
    BY <2>4 DEF Lift
  <2>8. Leaf(FieldsOf(state)[f], m[1], x)
    BY <2>1, <2>5, <2>7 DEF Leaf
  <2> QED
    BY <2>1, <2>6, <2>7, <2>8
<1>4. ASSUME NEW f \in FieldNames(state), NEW q \in Seq(Field),
             path = Under(f, q), Leaf(FieldsOf(state)[f], q, x)
      PROVE  Leaf(state, path, x)
  <2>1. PICK m \in Nodes(FieldsOf(state)[f]) :
          /\ m[1] = q
          /\ IsValid(m[2]) /\ ~HasFields(m[2])
          /\ m[2].payload.value = x
    BY <1>4 DEF Leaf
  <2>2. NestsWithin(FieldsOf(state)[f], d + 1)
    BY NestsUnfold
  <2>3. m \in NodesTo(FieldsOf(state)[f])[k]
    BY <1>2, <1>k, <2>2, ShallowNodes
  <2>4. Lift(f, m) \in Nodes(state)
    BY <1>2, <2>3, NodesUnfold DEF Nodes
  <2>5. Lift(f, m)[1] = path /\ Lift(f, m)[2] = m[2]
    BY <1>4, <2>1 DEF Lift
  <2> QED
    BY <2>1, <2>4, <2>5 DEF Leaf
<1> QED
  BY <1>3, <1>4

\* The way to a scalar is a path of field names.
LEMMA LeafPath ==
    ASSUME NEW state, NEW path, NEW x, Leaf(state, path, x)
    PROVE  path \in Seq(Field)
  BY NodeShape, ArenaAssumption DEF Leaf, Nodes

\* A valid parent is a struct or a topology; where "strict" says so, no valid
\* value has a hole either.
Made(state, strict) ==
    /\ IsValid(state) /\ HasFields(state) =>
         state.payload \in {Struct(FieldsOf(state)), Topology(FieldsOf(state))}
    /\ strict => IsNode(state)

\* What a binding holds, if the binding lies at the depth given.
IsTree(state, d, strict) ==
    /\ NestsWithin(state, d)
    /\ \A node \in Nodes(state) : Made(node[2], strict)

\* A tree, told by its fields.
LEMMA TreeUnfold ==
    ASSUME NEW state, NEW d \in Nat, NEW strict
    PROVE  IsTree(state, d, strict)
             <=> /\ Made(state, strict)
                 /\ HasFields(state) =>
                      /\ d < MaxDepth
                      /\ \A f \in FieldNames(state) :
                            IsTree(FieldsOf(state)[f], d + 1, strict)
<1>0. MaxDepth \in Nat /\ MaxDepth \in 0 .. MaxDepth
  BY ArenaAssumption
<1>r. << <<>>, state >> \in Nodes(state)
  BY <1>0, RootIsNode DEF Nodes
<1>1. CASE ~HasFields(state)
  <2>1. NestsWithin(state, d)
    BY <1>1, NestsUnfold
  <2>2. \A node \in Nodes(state) : node[2] = state
    BY <1>1, FlatNodes
  <2> QED
    BY <1>1, <1>r, <2>1, <2>2 DEF IsTree
<1>2. CASE HasFields(state)
  <2>1. ASSUME IsTree(state, d, strict)
        PROVE  /\ Made(state, strict)
               /\ d < MaxDepth
               /\ \A f \in FieldNames(state) : IsTree(FieldsOf(state)[f], d + 1, strict)
    <3>1. /\ d < MaxDepth
          /\ \A f \in FieldNames(state) : NestsWithin(FieldsOf(state)[f], d + 1)
      BY <1>2, <2>1, NestsUnfold DEF IsTree
    <3>2. Made(state, strict)
      BY <1>r, <2>1 DEF IsTree
    <3>3. ASSUME NEW f \in FieldNames(state), NEW m \in Nodes(FieldsOf(state)[f])
          PROVE  Made(m[2], strict)
      <4>1. MaxDepth # 0
        BY <1>0, <3>1
      <4>2. m \in NodesTo(FieldsOf(state)[f])[MaxDepth - 1]
        BY <3>1, <4>1, ShallowNodes
      <4>3. Lift(f, m) \in Nodes(state)
        BY <4>1, <4>2, NodesBelow
      <4>4. Lift(f, m)[2] = m[2]
        BY DEF Lift
      <4>5. Made(Lift(f, m)[2], strict)
        BY <2>1, <4>3 DEF IsTree
      <4> QED
        BY <4>4, <4>5
    <3> QED
      BY <3>1, <3>2, <3>3 DEF IsTree
  <2>2. ASSUME Made(state, strict), d < MaxDepth,
               \A f \in FieldNames(state) : IsTree(FieldsOf(state)[f], d + 1, strict)
        PROVE  IsTree(state, d, strict)
    <3>1. NestsWithin(state, d)
      BY <1>2, <2>2, NestsUnfold DEF IsTree
    <3>2. MaxDepth # 0 /\ MaxDepth - 1 \in Nat /\ MaxDepth - 1 <= MaxDepth
      BY <1>0, <2>2
    <3>3. ASSUME NEW node \in Nodes(state), node # << <<>>, state >>
          PROVE  Made(node[2], strict)
      <4>1. PICK f \in FieldNames(state) :
              \E m \in NodesTo(FieldsOf(state)[f])[MaxDepth - 1] : node = Lift(f, m)
        BY <3>2, <3>3, NodesBelow
      <4>2. PICK m \in NodesTo(FieldsOf(state)[f])[MaxDepth - 1] : node = Lift(f, m)
        BY <4>1
      <4>3. m \in Nodes(FieldsOf(state)[f])
        BY <1>0, <3>2, NodesGrow DEF Nodes
      <4>4. node[2] = m[2]
        BY <4>2 DEF Lift
      <4>5. Made(m[2], strict)
        BY <2>2, <4>3 DEF IsTree
      <4> QED
        BY <4>4, <4>5
    <3> QED
      BY <2>2, <3>1, <3>3 DEF IsTree
  <2> QED
    BY <1>2, <2>1, <2>2
<1> QED
  BY <1>1, <1>2

\* A state that looks like a tree is one, and holds the same scalars.
Alike(s, t) ==
    /\ IsValid(s) <=> IsValid(t)
    /\ HasFields(s) <=> HasFields(t)
    /\ HasFields(s) => FieldsOf(s) = FieldsOf(t)
    /\ IsValid(s) /\ ~HasFields(s) => s.payload = t.payload

\* The scalars of a state are those of one that has the same fields.
LEMMA AlikeLeaves ==
    ASSUME NEW s, NEW t, Alike(s, t), NEW d \in Nat, NEW e, IsTree(s, d, e),
           NEW path, NEW x
    PROVE  Leaf(t, path, x) <=> Leaf(s, path, x)
<1>1. CASE ~HasFields(s)
  BY <1>1, LeafFlat DEF Alike
<1>2. CASE HasFields(s)
  <2>1. HasFields(t) /\ FieldsOf(t) = FieldsOf(s) /\ FieldNames(t) = FieldNames(s)
    BY <1>2 DEF Alike, FieldNames
  <2>2. NestsWithin(s, d)
    BY DEF IsTree
  <2>3. NestsWithin(t, d)
    BY <1>2, <2>1, <2>2, NestsUnfold
  <2>4. Leaf(s, path, x) <=> \E f \in FieldNames(s) : \E q \in Seq(Field) :
                    path = Under(f, q) /\ Leaf(FieldsOf(s)[f], q, x)
    BY <1>2, <2>2, LeafUnfold
  <2>5. Leaf(t, path, x) <=> \E f \in FieldNames(t) : \E q \in Seq(Field) :
                    path = Under(f, q) /\ Leaf(FieldsOf(t)[f], q, x)
    BY <2>1, <2>3, LeafUnfold
  <2> QED
    BY <2>1, <2>4, <2>5
<1> QED
  BY <1>1, <1>2

\* A tree may lie less deep.
LEMMA TreeRises ==
    ASSUME NEW state, NEW d \in Nat, NEW strict, IsTree(state, d + 1, strict)
    PROVE  IsTree(state, d, strict)
<1>1. ASSUME NEW node \in Nodes(state), HasFields(node[2])
      PROVE  d + Len(node[1]) < MaxDepth
  <2>1. d + 1 + Len(node[1]) < MaxDepth
    BY <1>1 DEF IsTree, NestsWithin
  <2>2. PICK l \in Nat : l = Len(node[1])
    BY ArenaAssumption, NodeShape DEF Nodes
  <2>3. MaxDepth \in Nat
    BY ArenaAssumption
  <2>4. d + 1 + l < MaxDepth
    BY <2>1, <2>2
  <2>5. d + l < MaxDepth
    BY <2>3, <2>4
  <2> QED
    BY <2>2, <2>5
<1> QED
  BY <1>1 DEF IsTree, NestsWithin

\* A state without fields is a tree at any depth.
LEMMA FlatTree ==
    ASSUME NEW state, ~HasFields(state), NEW d \in Nat, NEW strict,
           strict => IsNode(state)
    PROVE  IsTree(state, d, strict)
  BY TreeUnfold DEF Made

\* What has been consumed holds nothing.
LEMMA ConsumedTree ==
    /\ \A d \in Nat : \A strict : IsTree(Consumed, d, strict)
    /\ \A path, x : ~Leaf(Consumed, path, x)
<1>1. ~HasFields(Consumed) /\ ~IsValid(Consumed) /\ IsNode(Consumed)
  BY DEF HasFields, IsValid, Consumed, IsNode
<1>2. ASSUME NEW d \in Nat, NEW strict
      PROVE  IsTree(Consumed, d, strict)
  BY <1>1, FlatTree
<1>3. ASSUME NEW path, NEW x
      PROVE  ~Leaf(Consumed, path, x)
  BY <1>1, LeafFlat
<1> QED
  BY <1>2, <1>3

\* A parent with new fields: a tree whose scalars are those of the fields.
LEMMA ParentTree ==
    ASSUME NEW state, HasFields(state), NEW d \in Nat, NEW strict, d < MaxDepth,
           Made(state, strict),
           \A f \in FieldNames(state) : IsTree(FieldsOf(state)[f], d + 1, strict)
    PROVE  /\ IsTree(state, d, strict)
           /\ \A path, x :
                Leaf(state, path, x)
                  <=> \E f \in FieldNames(state) : \E q \in Seq(Field) :
                         path = Under(f, q) /\ Leaf(FieldsOf(state)[f], q, x)
<1>1. IsTree(state, d, strict)
  BY TreeUnfold
<1>2. NestsWithin(state, d)
  BY <1>1 DEF IsTree
<1>3. ASSUME NEW path, NEW x
      PROVE  Leaf(state, path, x)
               <=> \E f \in FieldNames(state) : \E q \in Seq(Field) :
                      path = Under(f, q) /\ Leaf(FieldsOf(state)[f], q, x)
  BY <1>2, LeafUnfold
<1> QED
  BY <1>1, <1>3

\* The fields of a tree.
LEMMA FieldTree ==
    ASSUME NEW state, HasFields(state), NEW d \in Nat, NEW strict,
           IsTree(state, d, strict)
    PROVE  /\ d < MaxDepth
           /\ Made(state, strict)
           /\ \A f \in FieldNames(state) :
                /\ IsTree(FieldsOf(state)[f], d + 1, strict)
                /\ \A q, x : Leaf(FieldsOf(state)[f], q, x) =>
                                /\ q \in Seq(Field)
                                /\ Leaf(state, Under(f, q), x)
<1>1. /\ d < MaxDepth /\ Made(state, strict)
      /\ \A f \in FieldNames(state) : IsTree(FieldsOf(state)[f], d + 1, strict)
  BY TreeUnfold
<1>2. NestsWithin(state, d)
  BY DEF IsTree
<1>3. ASSUME NEW f \in FieldNames(state), NEW q, NEW x, Leaf(FieldsOf(state)[f], q, x)
      PROVE  q \in Seq(Field) /\ Leaf(state, Under(f, q), x)
  <2>1. q \in Seq(Field)
    BY <1>3, LeafPath
  <2>2. Leaf(state, Under(f, q), x)
    BY <1>2, <1>3, <2>1, LeafUnfold
  <2> QED
    BY <2>1, <2>2
<1> QED
  BY <1>1, <1>3

-----------------------------------------------------------------------------
(* What the operations of an arena take out of it and put into it *)

\* The scalar x is in the arena, at the end of a path from a name.
Has(arena, v, path, x) ==
    v \in DOMAIN arena.bindings /\ Leaf(arena.bindings[v], path, x)

\* Every binding is a tree.
AreTrees(arena, strict) ==
    \A v \in DOMAIN arena.bindings : IsTree(arena.bindings[v], 0, strict)

\* After an operation nothing is where it was not before.
Dwindles(before, after, strict) ==
    /\ AreTrees(after, strict)
    /\ \A v, path, x : Has(after, v, path, x) => Has(before, v, path, x)

\* Losing everything or a field reaches these paths.
Reached(what, path) == what.all \/ \E q \in Seq(Field) : path = Under(what.field, q)

\* Nothing is left where the loss reaches.
Lost(arena, w, what) ==
    \A path, x : Reached(what, path) => ~Has(arena, w, path, x)

\* One binding changes into a tree.
LEMMA ChangedTrees ==
    ASSUME NEW arena, NEW strict, AreTrees(arena, strict), NEW k, NEW state,
           IsTree(state, 0, strict), NEW after,
           after.bindings = Put(arena.bindings, k, state)
    PROVE  /\ AreTrees(after, strict)
           /\ \A v, path, x : Has(after, v, path, x)
                <=> IF v = k THEN Leaf(state, path, x) ELSE Has(arena, v, path, x)
<1>1. /\ DOMAIN after.bindings = DOMAIN arena.bindings \union {k}
      /\ after.bindings[k] = state
      /\ \A v \in DOMAIN arena.bindings \ {k} : after.bindings[v] = arena.bindings[v]
  BY DEF Put
<1> QED
  BY <1>1 DEF AreTrees, Has

\* A binding leaves the map.
LEMMA DroppedTrees ==
    ASSUME NEW arena, NEW strict, AreTrees(arena, strict), NEW k, NEW after,
           after.bindings = Drop(arena.bindings, k)
    PROVE  /\ Dwindles(arena, after, strict)
           /\ \A path, x : ~Has(after, k, path, x)
<1>1. /\ DOMAIN after.bindings = DOMAIN arena.bindings \ {k}
      /\ \A v \in DOMAIN arena.bindings \ {k} : after.bindings[v] = arena.bindings[v]
  BY DEF Drop, Restrict
<1> QED
  BY <1>1 DEF AreTrees, Has, Dwindles

\* Nothing changes.
LEMMA SameDwindles ==
    ASSUME NEW arena, NEW strict, AreTrees(arena, strict)
    PROVE  Dwindles(arena, arena, strict)
  BY DEF Dwindles

\* A binding is marked as consumed.
LEMMA ConsumedDwindles ==
    ASSUME NEW arena, NEW strict, AreTrees(arena, strict), NEW k, NEW after,
           after.bindings = Put(arena.bindings, k, Consumed),
           k \in DOMAIN arena.bindings
    PROVE  /\ Dwindles(arena, after, strict)
           /\ \A path, x : ~Has(after, k, path, x)
<1>1. IsTree(Consumed, 0, strict) /\ \A path, x : ~Leaf(Consumed, path, x)
  BY ConsumedTree
<1> QED
  BY <1>1, ChangedTrees DEF Dwindles

\* The bindings that Change leaves.
LEMMA ChangeBindings ==
    ASSUME NEW arena, Sound(arena), NEW k \in DOMAIN arena.bindings, NEW state
    PROVE  Change(arena, k, state).bindings = Put(arena.bindings, k, state)
  BY ChangeSound

\* The bindings that an update of one component leaves.
LEMMA BindingsUpdate ==
    ASSUME NEW arena, Sound(arena), NEW bindings
    PROVE  [arena EXCEPT !.bindings = bindings].bindings = bindings
<1>1. arena = [capacity |-> arena.capacity, used |-> arena.used,
               bindings |-> arena.bindings]
  BY DEF Sound
<1> QED
  BY <1>1

\* What a read returns was in the arena, at the place the expression says, and
\* is not there any more.
Takes(before, read, k, what, strict) ==
    /\ Dwindles(before, read.arena, strict)
    /\ read.error = "none" =>
         /\ IsTree(read.state, 0, strict)
         /\ Lost(read.arena, k, what)
         /\ \A q, x : Leaf(read.state, q, x) =>
              \/ what.all /\ Has(before, k, q, x)
              \/ /\ ~what.all /\ q \in Seq(Field)
                 /\ Has(before, k, Under(what.field, q), x)

\* Consume takes a name.
LEMMA ConsumeTakes ==
    ASSUME NEW arena, Sound(arena), NEW strict, AreTrees(arena, strict), NEW k
    PROVE  /\ Takes(arena, Consume(arena, k), k, Everything, strict)
           /\ Consume(arena, k).error = "none" => IsValid(Consume(arena, k).state)
<1> DEFINE state == StateOf(arena, k)
<1>e. Everything.all = TRUE
  BY DEF Everything
<1>1. CASE IsValid(state)
  <2>1. Consume(arena, k) = Ok(Change(arena, k, Consumed), state)
    BY <1>1 DEF Consume, IsValid
  <2>2. k \in DOMAIN arena.bindings /\ state = arena.bindings[k]
    BY <1>1, FieldsNeedBinding
  <2> DEFINE after == Change(arena, k, Consumed)
  <2>3. after.bindings = Put(arena.bindings, k, Consumed)
    BY <2>2, ChangeBindings
  <2> HIDE DEF after
  <2>4. Dwindles(arena, after, strict) /\ \A path, x : ~Has(after, k, path, x)
    BY <2>2, <2>3, ConsumedDwindles
  <2>5. IsTree(state, 0, strict) /\ \A q, x : Leaf(state, q, x) => Has(arena, k, q, x)
    BY <2>2 DEF AreTrees, Has
  <2>6. Ok(after, state).arena = after /\ Ok(after, state).state = state
    BY DEF Ok
  <2> QED
    BY <1>1, <1>e, <2>1, <2>4, <2>5, <2>6 DEF Takes, Lost, after
<1>2. CASE ~IsValid(state)
  <2>1. Consume(arena, k) \in {Err("StructurallyDecayed", arena),
                               Err("AlreadyConsumed", arena)}
    BY <1>2 DEF Consume
  <2>2. Consume(arena, k).arena = arena /\ Consume(arena, k).error # "none"
    BY <2>1 DEF Err
  <2> QED
    BY <2>2, SameDwindles DEF Takes
<1> QED
  BY <1>1, <1>2

\* ConsumeEntropic takes a name whatever its state.
LEMMA ConsumeEntropicTakes ==
    ASSUME NEW arena, Sound(arena), NEW strict, AreTrees(arena, strict), NEW k
    PROVE  Takes(arena, ConsumeEntropic(arena, k), k, Everything, strict)
<1>e. Everything.all = TRUE
  BY DEF Everything
<1>1. CASE k \in DOMAIN arena.bindings
  <2> DEFINE after == Change(arena, k, Consumed)
             state == arena.bindings[k]
  <2>1. ConsumeEntropic(arena, k) = Ok(after, state)
    BY <1>1 DEF ConsumeEntropic
  <2>3. after.bindings = Put(arena.bindings, k, Consumed)
    BY <1>1, ChangeBindings
  <2> HIDE DEF after
  <2>4. Dwindles(arena, after, strict) /\ \A path, x : ~Has(after, k, path, x)
    BY <1>1, <2>3, ConsumedDwindles
  <2>5. IsTree(state, 0, strict) /\ \A q, x : Leaf(state, q, x) => Has(arena, k, q, x)
    BY <1>1 DEF AreTrees, Has
  <2>6. Ok(after, state).arena = after /\ Ok(after, state).state = state
    BY DEF Ok
  <2> HIDE DEF state
  <2> QED
    BY <1>e, <2>1, <2>4, <2>5, <2>6 DEF Takes, Lost
<1>2. CASE k \notin DOMAIN arena.bindings
  <2>1. ConsumeEntropic(arena, k) = Err("AlreadyConsumed", arena)
    BY <1>2 DEF ConsumeEntropic
  <2>2. ConsumeEntropic(arena, k).arena = arena
        /\ ConsumeEntropic(arena, k).error # "none"
    BY <2>1 DEF Err
  <2> QED
    BY <2>2, SameDwindles DEF Takes
<1> QED
  BY <1>1, <1>2

\* SetConsumed leaves nothing of a name, bound or not.
LEMMA SetConsumedLoses ==
    ASSUME NEW arena, Sound(arena), NEW strict, AreTrees(arena, strict), NEW k
    PROVE  /\ Dwindles(arena, SetConsumed(arena, k).arena, strict)
           /\ \A path, x : ~Has(SetConsumed(arena, k).arena, k, path, x)
<1>1. CASE k \in DOMAIN arena.bindings
  <2> DEFINE after == Change(arena, k, Consumed)
  <2>1. SetConsumed(arena, k).arena = after
    BY <1>1 DEF SetConsumed, Ok
  <2>2. after.bindings = Put(arena.bindings, k, Consumed)
    BY <1>1, ChangeBindings
  <2> HIDE DEF after
  <2> QED
    BY <1>1, <2>1, <2>2, ConsumedDwindles
<1>2. CASE k \notin DOMAIN arena.bindings
  <2>1. SetConsumed(arena, k).arena = arena
    BY <1>2 DEF SetConsumed, Err
  <2> QED
    BY <1>2, <2>1, SameDwindles DEF Has
<1> QED
  BY <1>1, <1>2

\* A parent one of whose fields is put.
LEMMA PutTree ==
    ASSUME NEW state, HasFields(state), NEW d \in Nat, NEW strict,
           IsTree(state, d, strict), NEW f \in Field, NEW value,
           IsTree(value, d + 1, strict), NEW t, HasFields(t), Made(t, strict),
           FieldsOf(t) = Put(FieldsOf(state), f, value)
    PROVE  /\ IsTree(t, d, strict)
           /\ \A path, x : Leaf(t, path, x) =>
                \/ \E q \in Seq(Field) : path = Under(f, q) /\ Leaf(value, q, x)
                \/ /\ Leaf(state, path, x)
                   /\ \A q \in Seq(Field) : path # Under(f, q)
<1>1. /\ DOMAIN FieldsOf(t) = DOMAIN FieldsOf(state) \union {f}
      /\ FieldsOf(t)[f] = value
      /\ \A g \in DOMAIN FieldsOf(state) \ {f} : FieldsOf(t)[g] = FieldsOf(state)[g]
  BY DEF Put
<1>2. FieldNames(t) = FieldNames(state) \union {f}
  BY <1>1 DEF FieldNames
<1>3. /\ d < MaxDepth
      /\ \A g \in FieldNames(state) :
           /\ IsTree(FieldsOf(state)[g], d + 1, strict)
           /\ \A q, x : Leaf(FieldsOf(state)[g], q, x) => Leaf(state, Under(g, q), x)
  BY FieldTree
<1>4. \A g \in FieldNames(t) \ {f} : /\ g \in FieldNames(state)
                                     /\ FieldsOf(t)[g] = FieldsOf(state)[g]
  BY <1>1, <1>2 DEF FieldNames
<1>5. \A g \in FieldNames(t) : IsTree(FieldsOf(t)[g], d + 1, strict)
  BY <1>1, <1>3, <1>4
<1>6. /\ IsTree(t, d, strict)
      /\ \A path, x : Leaf(t, path, x)
           <=> \E g \in FieldNames(t) : \E q \in Seq(Field) :
                  path = Under(g, q) /\ Leaf(FieldsOf(t)[g], q, x)
  BY <1>3, <1>5, ParentTree
<1>7. ASSUME NEW path, NEW x, Leaf(t, path, x)
      PROVE  \/ \E q \in Seq(Field) : path = Under(f, q) /\ Leaf(value, q, x)
             \/ /\ Leaf(state, path, x)
                /\ \A q \in Seq(Field) : path # Under(f, q)
  <2>1. PICK g \in FieldNames(t) : \E q \in Seq(Field) :
                  path = Under(g, q) /\ Leaf(FieldsOf(t)[g], q, x)
    BY <1>6, <1>7
  <2>2. PICK q \in Seq(Field) : path = Under(g, q) /\ Leaf(FieldsOf(t)[g], q, x)
    BY <2>1
  <2>3. CASE g = f
    BY <1>1, <2>2, <2>3
  <2>4. CASE g # f
    <3>1. Leaf(state, path, x)
      BY <1>3, <1>4, <2>2, <2>4
    <3>2. \A o \in Seq(Field) : Under(g, q) # Under(f, o)
      <4>1. g \in Field
        BY DEF FieldNames
      <4>2. Under(g, q)[1] = g
        BY <4>1, UnderPath
      <4>3. \A o \in Seq(Field) : Under(f, o)[1] = f
        BY UnderPath
      <4> QED
        BY <2>4, <4>2, <4>3
    <3> QED
      BY <2>2, <3>1, <3>2
  <2> QED
    BY <2>3, <2>4
<1> QED
  BY <1>6, <1>7

\* ConsumeFieldEntropic leaves nothing of the field, taken or not.
LEMMA ConsumeFieldEntropicTakes ==
    ASSUME NEW arena, Sound(arena), NEW strict, AreTrees(arena, strict), NEW k,
           NEW f \in Field
    PROVE  LET read == ConsumeFieldEntropic(arena, k, f)
           IN  /\ Takes(arena, read, k, OneField(f), strict)
               /\ Lost(read.arena, k, OneField(f))
<1> DEFINE state == StateOf(arena, k)
           read  == ConsumeFieldEntropic(arena, k, f)
           what  == OneField(f)
<1>w. what.all = FALSE /\ what.field = f
  BY DEF OneField
<1> HIDE DEF what
<1>1. CASE k \notin DOMAIN arena.bindings
  <2>1. read = Err("AlreadyConsumed", arena)
    BY <1>1, StateFacts DEF ConsumeFieldEntropic
  <2>2. read.arena = arena /\ read.error # "none"
    BY <2>1 DEF Err
  <2> QED
    BY <1>1, <2>2, SameDwindles DEF Takes, Lost, Has, what
<1>2. CASE k \in DOMAIN arena.bindings /\ ~HasFields(state)
  <2>1. read = Err("NotAStruct", arena)
    BY <1>2 DEF ConsumeFieldEntropic
  <2>2. read.arena = arena /\ read.error # "none"
    BY <2>1 DEF Err
  <2>3. ASSUME NEW q \in Seq(Field), NEW x
        PROVE  ~Has(arena, k, Under(f, q), x)
    <3>1. Under(f, q) # <<>>
      BY UnderPath
    <3>2. state = arena.bindings[k]
      BY <1>2 DEF StateOf
    <3>3. ~Leaf(state, Under(f, q), x)
      BY <1>2, <3>1, LeafFlat
    <3> QED
      BY <3>2, <3>3 DEF Has
  <2> QED
    BY <1>w, <2>2, <2>3, SameDwindles DEF Takes, Lost, Reached, what
<1>3. CASE HasFields(state) /\ f \notin DOMAIN FieldsOf(state)
  <2> DEFINE after == [arena EXCEPT !.bindings = Drop(arena.bindings, k)]
  <2>0. k \in DOMAIN arena.bindings
    BY <1>3, FieldsNeedBinding
  <2>1. read = Err("KeyNotFound", after)
    BY <1>3, <2>0 DEF ConsumeFieldEntropic
  <2>2. after.bindings = Drop(arena.bindings, k)
    BY BindingsUpdate
  <2> HIDE DEF after
  <2>3. read.arena = after /\ read.error # "none"
    BY <2>1 DEF Err
  <2>4. Dwindles(arena, after, strict) /\ \A path, x : ~Has(after, k, path, x)
    BY <2>2, DroppedTrees
  <2> QED
    BY <2>3, <2>4 DEF Takes, Lost, what
<1>4. CASE HasFields(state) /\ f \in DOMAIN FieldsOf(state)
  <2> DEFINE rest  == Decayed(Put(FieldsOf(state), f, Consumed))
             after == Change(arena, k, rest)
             taken == FieldsOf(state)[f]
  <2>0. k \in DOMAIN arena.bindings /\ state = arena.bindings[k]
    BY <1>4, FieldsNeedBinding
  <2>1. read = Ok(after, taken)
    BY <1>4, <2>0 DEF ConsumeFieldEntropic
  <2>2. after.bindings = Put(arena.bindings, k, rest)
    BY <2>0, ChangeBindings
  <2>3. read.arena = after /\ read.state = taken
    BY <2>1 DEF Ok
  <2>4. IsTree(state, 0, strict)
    BY <2>0 DEF AreTrees
  <2>5. /\ HasFields(rest) /\ ~IsValid(rest)
        /\ FieldsOf(rest) = Put(FieldsOf(state), f, Consumed)
        /\ rest.tag = "Decayed"
    BY DEF HasFields, IsValid, FieldsOf, Decayed
  <2>6. /\ Made(state, strict)
        /\ \A g \in FieldNames(state) :
             /\ IsTree(FieldsOf(state)[g], 0 + 1, strict)
             /\ \A q, x : Leaf(FieldsOf(state)[g], q, x) =>
                            q \in Seq(Field) /\ Leaf(state, Under(g, q), x)
    BY <1>4, <2>4, FieldTree
  <2>7. Made(rest, strict)
    <3>1. DOMAIN FieldsOf(rest) = DOMAIN FieldsOf(state)
      BY <1>4, <2>5 DEF Put
    <3> HIDE DEF rest, state
    <3> QED
      BY <1>4, <2>5, <2>6, <3>1 DEF Made, IsNode
  <2> HIDE DEF rest, after
  <2>8. IsTree(Consumed, 0 + 1, strict) /\ \A path, x : ~Leaf(Consumed, path, x)
    BY ConsumedTree
  <2>9. /\ IsTree(rest, 0, strict)
        /\ \A path, x : Leaf(rest, path, x) =>
                /\ Leaf(state, path, x)
                /\ \A q \in Seq(Field) : path # Under(f, q)
    BY <1>4, <2>4, <2>5, <2>7, <2>8, PutTree
  <2>10. /\ AreTrees(after, strict)
         /\ \A v, path, x : Has(after, v, path, x)
                <=> IF v = k THEN Leaf(rest, path, x) ELSE Has(arena, v, path, x)
    BY <2>2, <2>9, ChangedTrees
  <2>11. Dwindles(arena, after, strict)
    BY <2>0, <2>9, <2>10 DEF Dwindles, Has
  <2>12. Lost(after, k, what)
    BY <1>w, <2>9, <2>10 DEF Lost, Reached
  <2>13. f \in FieldNames(state)
    BY <1>4 DEF FieldNames
  <2>14. IsTree(taken, 0, strict)
    BY <2>6, <2>13, TreeRises
  <2>15. ASSUME NEW q, NEW x, Leaf(taken, q, x)
         PROVE  q \in Seq(Field) /\ Has(arena, k, Under(f, q), x)
    BY <2>0, <2>6, <2>13, <2>15 DEF Has
  <2> HIDE DEF taken, state
  <2> QED
    BY <1>w, <2>3, <2>11, <2>12, <2>14, <2>15 DEF Takes, what
<1>5. \/ k \notin DOMAIN arena.bindings
      \/ k \in DOMAIN arena.bindings /\ ~HasFields(state)
      \/ HasFields(state) /\ f \notin DOMAIN FieldsOf(state)
      \/ HasFields(state) /\ f \in DOMAIN FieldsOf(state)
  OBVIOUS
<1> HIDE DEF state
<1> QED
  BY <1>1, <1>2, <1>3, <1>4, <1>5 DEF what

\* So does ConsumeField, also when what it took is of no use.
LEMMA ConsumeFieldTakes ==
    ASSUME NEW arena, Sound(arena), NEW strict, AreTrees(arena, strict), NEW k,
           NEW f \in Field
    PROVE  LET read == ConsumeField(arena, k, f)
           IN  /\ Takes(arena, read, k, OneField(f), strict)
               /\ Lost(read.arena, k, OneField(f))
               /\ read.error = "none" => IsValid(read.state)
<1> DEFINE taken == ConsumeFieldEntropic(arena, k, f)
           read  == ConsumeField(arena, k, f)
<1>1. /\ Takes(arena, taken, k, OneField(f), strict)
      /\ Lost(taken.arena, k, OneField(f))
  BY ConsumeFieldEntropicTakes
<1>2. read = IF taken.error = "none" /\ ~IsValid(taken.state)
             THEN Err("AlreadyConsumed", taken.arena) ELSE taken
  BY DEF ConsumeField
<1> HIDE DEF taken, read
<1>3. read.arena = taken.arena
  BY <1>2 DEF Err
<1>4. read.error = "none" => read = taken /\ IsValid(read.state)
  BY <1>2 DEF Err
<1>5. Takes(arena, read, k, OneField(f), strict)
  BY <1>1, <1>3, <1>4 DEF Takes
<1> QED
  BY <1>1, <1>3, <1>4, <1>5 DEF read

\* What is lost by losing everything or a field that exists.
IsLossOf(what) == what = Everything \/ \E f \in Field : what = OneField(f)

\* A partner that loses a name or a field of it has nothing left there.
LEMMA LoseDwindles ==
    ASSUME NEW arena, Sound(arena), NEW strict, AreTrees(arena, strict), NEW w,
           NEW what, IsLossOf(what)
    PROVE  /\ Dwindles(arena, Lose(arena, w, what), strict)
           /\ Lost(Lose(arena, w, what), w, what)
<1>1. CASE what = Everything
  <2>1. Lose(arena, w, what) = SetConsumed(arena, w).arena
    BY <1>1 DEF Lose, Everything
  <2> QED
    BY <2>1, SetConsumedLoses DEF Lost
<1>2. ASSUME NEW f \in Field, what = OneField(f)
      PROVE  /\ Dwindles(arena, Lose(arena, w, what), strict)
             /\ Lost(Lose(arena, w, what), w, what)
  <2>1. Lose(arena, w, what) = ConsumeField(arena, w, f).arena
    BY <1>2 DEF Lose, OneField
  <2>2. /\ Takes(arena, ConsumeField(arena, w, f), w, OneField(f), strict)
        /\ Lost(ConsumeField(arena, w, f).arena, w, OneField(f))
    BY ConsumeFieldTakes
  <2> QED
    BY <1>2, <2>1, <2>2 DEF Takes
<1> QED
  BY <1>1, <1>2 DEF IsLossOf

\* What dwindles twice has dwindled, and what was lost before stays lost.
LEMMA DwindlesTwice ==
    ASSUME NEW a, NEW b, NEW c, NEW strict, Dwindles(a, b, strict),
           Dwindles(b, c, strict)
    PROVE  /\ Dwindles(a, c, strict)
           /\ \A w, what : Lost(b, w, what) => Lost(c, w, what)
  BY DEF Dwindles, Lost

\* Every name that an arena loses has nothing left where the loss reaches.
LEMMA LoseAllDwindles ==
    ASSUME NEW arena, Sound(arena), NEW strict, AreTrees(arena, strict),
           NEW S \in SUBSET Name, NEW what, IsLossOf(what)
    PROVE  /\ Dwindles(arena, LoseAll(arena, S, what), strict)
           /\ \A w \in S : Lost(LoseAll(arena, S, what), w, what)
<1>1. IsFiniteSet(S)
  BY NamesFinite
<1>2. PICK g : IsLoss(g, arena, S, what) /\ LoseAll(arena, S, what) = g[S]
  BY <1>1, LossUnfolds
<1> DEFINE T == {A \in SUBSET S : /\ Sound(g[A])
                                  /\ Dwindles(arena, g[A], strict)
                                  /\ \A w \in A : Lost(g[A], w, what)}
<1>3. {} \in T
  <2>1. g[{}] = arena
    BY <1>2 DEF IsLoss
  <2> QED
    BY <2>1, SameDwindles
<1>4. ASSUME NEW A \in SUBSET S, A # {}, \A x \in A : A \ {x} \in T
      PROVE  A \in T
  <2>1. PICK some \in A : some = Some(A)
    BY <1>4, SomeIn
  <2> DEFINE B == A \ {some}
  <2>2. /\ Sound(g[B])
        /\ Dwindles(arena, g[B], strict)
        /\ \A w \in B : Lost(g[B], w, what)
    BY <1>4
  <2>3. g[A] = Lose(g[B], some, what)
    BY <1>2, <1>4, <2>1 DEF IsLoss
  <2> HIDE DEF B
  <2>4. AreTrees(g[B], strict)
    BY <2>2 DEF Dwindles
  <2>5. Dwindles(g[B], g[A], strict) /\ Lost(g[A], some, what)
    BY <2>2, <2>3, <2>4, LoseDwindles
  <2>6. Sound(g[A])
    BY <2>2, <2>3, LoseHarmless DEF Harmless
  <2>7. /\ Dwindles(arena, g[A], strict)
        /\ \A w \in B : Lost(g[A], w, what)
    BY <2>2, <2>5, DwindlesTwice
  <2>8. \A w \in A : Lost(g[A], w, what)
    BY <2>5, <2>7 DEF B
  <2> QED
    BY <2>6, <2>7, <2>8
<1>5. S \in T
  <2> HIDE DEF T
  <2>1. \A B \in SUBSET S : B # {} /\ (\A x \in B : B \ {x} \in T) => B \in T
    BY <1>4
  <2>2. \A B \in SUBSET S : B \in T
    BY <1>1, <1>3, <2>1, SubsetInduction
  <2> QED
    BY <2>2
<1> QED
  BY <1>2, <1>5

-----------------------------------------------------------------------------
(* What the timelines hold *)

\* The scalar x is at a place of an active timeline.
Holds(ts, c, v, path, x) == ts[c] # NoTimeline /\ Has(ts[c].arena, v, path, x)

\* What all timelines hold is well formed.
AllTrees(ts, strict) ==
    \A c \in Branch : ts[c] # NoTimeline => AreTrees(ts[c].arena, strict)

\* The same timelines, of which only the bindings may differ.
Frame(t, u) ==
    /\ u.parent = t.parent
    /\ u.anchors = t.anchors
    /\ u.arena.capacity = t.arena.capacity

\* After a step the same timelines are active and nothing is anywhere where it
\* was not before.
Dwindling(ts, us, strict) ==
    /\ AreTimelines(us)
    /\ \A c \in Branch :
         /\ ts[c] = NoTimeline => us[c] = NoTimeline
         /\ ts[c] # NoTimeline => /\ us[c] # NoTimeline
                                  /\ Frame(ts[c], us[c])
                                  /\ Dwindles(ts[c].arena, us[c].arena, strict)

\* An update of the arena of a timeline.
LEMMA TimelineFrame ==
    ASSUME NEW t, IsTimeline(t), NEW arena, Sound(arena),
           arena.capacity = t.arena.capacity
    PROVE  /\ IsTimeline([t EXCEPT !.arena = arena])
           /\ [t EXCEPT !.arena = arena].arena = arena
           /\ [t EXCEPT !.arena = arena] # NoTimeline
           /\ Frame(t, [t EXCEPT !.arena = arena])
<1>1. t = [arena |-> t.arena, anchors |-> t.anchors, parent |-> t.parent]
  BY DEF IsTimeline
<1>2. [t EXCEPT !.arena = arena] =
        [arena |-> arena, anchors |-> t.anchors, parent |-> t.parent]
  BY <1>1
<1>3. IsTimeline([t EXCEPT !.arena = arena])
  BY TimelineUpdate
<1>4. [t EXCEPT !.arena = arena] # NoTimeline
  BY <1>3, TimelineIsActive
<1> QED
  BY <1>2, <1>3, <1>4 DEF Frame

\* The other timelines do not notice.
LEMMA SetFrame ==
    ASSUME NEW ts, AreTimelines(ts), NEW b \in Branch, ts[b] # NoTimeline,
           NEW arena, Sound(arena), arena.capacity = ts[b].arena.capacity
    PROVE  LET us == SetArena(ts, b, arena)
           IN  /\ AreTimelines(us)
               /\ us[b] # NoTimeline
               /\ us[b].arena = arena
               /\ Frame(ts[b], us[b])
               /\ \A c \in Branch \ {b} : us[c] = ts[c]
<1>1. IsTimeline(ts[b])
  BY DEF AreTimelines
<1> DEFINE us == SetArena(ts, b, arena)
<1>2. /\ AreTimelines(us)
      /\ us[b].arena = arena
      /\ \A c \in Branch \ {b} : us[c] = ts[c]
  BY <1>1, SetArenaAt
<1>3. us[b] = [ts[b] EXCEPT !.arena = arena]
  BY DEF SetArena, AreTimelines
<1> HIDE DEF us
<1>4. us[b] # NoTimeline /\ Frame(ts[b], us[b])
  BY <1>1, <1>3, TimelineFrame
<1> QED
  BY <1>2, <1>4 DEF us

\* An operation on the arena of one timeline.
LEMMA SetDwindling ==
    ASSUME NEW ts, AreTimelines(ts), NEW strict, AllTrees(ts, strict),
           NEW b \in Branch, ts[b] # NoTimeline, NEW arena, Sound(arena),
           arena.capacity = ts[b].arena.capacity,
           Dwindles(ts[b].arena, arena, strict)
    PROVE  Dwindling(ts, SetArena(ts, b, arena), strict)
<1> DEFINE us == SetArena(ts, b, arena)
<1>1. /\ AreTimelines(us)
      /\ us[b] # NoTimeline
      /\ us[b].arena = arena
      /\ Frame(ts[b], us[b])
      /\ \A c \in Branch \ {b} : us[c] = ts[c]
  BY SetFrame
<1> HIDE DEF us
<1>2. ASSUME NEW c \in Branch, ts[c] # NoTimeline
      PROVE  /\ us[c] # NoTimeline
             /\ Frame(ts[c], us[c])
             /\ Dwindles(ts[c].arena, us[c].arena, strict)
  <2>1. CASE c = b
    BY <1>1, <2>1
  <2>2. CASE c # b
    <3>1. us[c] = ts[c]
      BY <1>1, <2>2
    <3>2. Dwindles(ts[c].arena, ts[c].arena, strict)
      BY <1>2, SameDwindles DEF AllTrees
    <3> QED
      BY <1>2, <3>1, <3>2 DEF Frame
  <2> QED
    BY <2>1, <2>2
<1>3. \A c \in Branch : ts[c] = NoTimeline => us[c] = NoTimeline
  BY <1>1
<1>4. Dwindling(ts, us, strict)
  BY <1>1, <1>2, <1>3 DEF Dwindling
<1> QED
  BY <1>4 DEF us

\* Every partner has lost what it had to lose.
LEMMA PartnersDwindling ==
    ASSUME NEW ts, AreTimelines(ts), NEW strict, AllTrees(ts, strict), NEW b, NEW v,
           NEW what, IsLossOf(what)
    PROVE  LET us == OnPartners(ts, b, v, what)
           IN  /\ Dwindling(ts, us, strict)
               /\ \A c \in Branch : \A w \in Name :
                    ts[c] # NoTimeline /\ <<c, w>> \in Partners(b, v)
                      => Lost(us[c].arena, w, what)
<1> DEFINE us == OnPartners(ts, b, v, what)
<1>1. AreTimelines(us)
  BY PartnersHarmless DEF HarmlessAll
<1>2. ASSUME NEW c \in Branch, ts[c] = NoTimeline
      PROVE  us[c] = NoTimeline
  BY <1>2 DEF OnPartners
<1>3. ASSUME NEW c \in Branch, ts[c] # NoTimeline
      PROVE  /\ us[c] # NoTimeline
             /\ Frame(ts[c], us[c])
             /\ Dwindles(ts[c].arena, us[c].arena, strict)
             /\ \A w \in Name : <<c, w>> \in Partners(b, v)
                                  => Lost(us[c].arena, w, what)
  <2> DEFINE S == {w \in Name : <<c, w>> \in Partners(b, v)}
  <2>1. PICK arena : arena = LoseAll(ts[c].arena, S, what)
    OBVIOUS
  <2>2. us[c] = [ts[c] EXCEPT !.arena = arena]
    BY <1>3, <2>1 DEF OnPartners
  <2>3. IsTimeline(ts[c]) /\ Sound(ts[c].arena) /\ AreTrees(ts[c].arena, strict)
    BY <1>3 DEF AreTimelines, IsTimeline, AllTrees
  <2>4. S \in SUBSET Name
    OBVIOUS
  <2> HIDE DEF us
  <2>5. Sound(arena) /\ arena.capacity = ts[c].arena.capacity
    BY <2>1, <2>3, <2>4, LoseAllHarmless DEF Harmless, Shrinks
  <2>6. /\ Dwindles(ts[c].arena, arena, strict)
        /\ \A w \in S : Lost(arena, w, what)
    BY <2>1, <2>3, <2>4, LoseAllDwindles
  <2>7. us[c].arena = arena /\ us[c] # NoTimeline /\ Frame(ts[c], us[c])
    BY <2>2, <2>3, <2>5, TimelineFrame
  <2> QED
    BY <2>6, <2>7
<1> HIDE DEF us
<1>4. Dwindling(ts, us, strict)
  BY <1>1, <1>2, <1>3 DEF Dwindling
<1> QED
  BY <1>3, <1>4 DEF us

\* What dwindles twice has dwindled, seen from the map.
LEMMA DwindlingTwice ==
    ASSUME NEW ts, NEW us, NEW vs, NEW strict, Dwindling(ts, us, strict),
           Dwindling(us, vs, strict)
    PROVE  Dwindling(ts, vs, strict)
<1>1. ASSUME NEW c \in Branch, ts[c] # NoTimeline
      PROVE  /\ vs[c] # NoTimeline
             /\ Frame(ts[c], vs[c])
             /\ Dwindles(ts[c].arena, vs[c].arena, strict)
  <2>1. /\ us[c] # NoTimeline /\ Frame(ts[c], us[c])
        /\ Dwindles(ts[c].arena, us[c].arena, strict)
    BY <1>1 DEF Dwindling
  <2>2. /\ vs[c] # NoTimeline /\ Frame(us[c], vs[c])
        /\ Dwindles(us[c].arena, vs[c].arena, strict)
    BY <2>1 DEF Dwindling
  <2> QED
    BY <2>1, <2>2, DwindlesTwice DEF Frame
<1> QED
  BY <1>1 DEF Dwindling

\* What an expression takes from its name, and where in it.
Extent(e) == IF e.kind = "identifier" THEN Everything ELSE OneField(e.field)

\* Where in its name a part of the value that it takes is.
Place(e, q) == IF e.kind = "identifier" THEN q ELSE Under(e.field, q)

\* An evaluation takes what it returns out of its timeline and out of every
\* timeline that the value is entangled with.
Takeover(b, e, value, strict) ==
    /\ Dwindling(timeline, value.timelines, strict)
    /\ value.error = "none" =>
         /\ IsTree(value.state, 0, strict)
         /\ \A c \in Branch : \A w \in Name :
              /\ timeline[c] # NoTimeline
              /\ <<c, w>> = <<b, e.name>> \/ <<c, w>> \in Partners(b, e.name)
              => Lost(value.timelines[c].arena, w, Extent(e))
         /\ \A q, x : Leaf(value.state, q, x) =>
              /\ q \in Seq(Field)
              /\ Has(timeline[b].arena, e.name, Place(e, q), x)

\* The forms of an expression.
LEMMA ExpressionForms ==
    ASSUME NEW e \in Expressions
    PROVE  /\ e.name \in Name
           /\ IsLossOf(Extent(e))
           /\ \/ e.kind = "identifier" /\ Extent(e) = Everything
              \/ e.kind = "field" /\ e.field \in Field /\ Extent(e) = OneField(e.field)
  BY DEF Expressions, Identifier, FieldAccess, Extent, IsLossOf

\* A place lies where the expression reaches, and belongs to one path.
LEMMA PlaceReached ==
    ASSUME NEW e \in Expressions, NEW q \in Seq(Field)
    PROVE  /\ Reached(Extent(e), Place(e, q))
           /\ Place(e, q) \in Seq(Field)
           /\ \A o \in Seq(Field) : Place(e, o) = Place(e, q) => o = q
<1>1. CASE e.kind = "identifier"
  BY <1>1 DEF Place, Extent, Reached, Everything
<1>2. CASE e.kind # "identifier"
  <2>1. e.field \in Field
    BY <1>2, ExpressionForms
  <2>2. Extent(e) = OneField(e.field) /\ \A o : Place(e, o) = Under(e.field, o)
    BY <1>2 DEF Extent, Place
  <2>3. Reached(Extent(e), Place(e, q))
    BY <2>2 DEF Reached, OneField
  <2>4. \A o \in Seq(Field) : Tail(Under(e.field, o)) = o
    BY <2>1, UnderPath
  <2>5. Under(e.field, q) \in Seq(Field)
    BY <2>1, UnderPath
  <2> QED
    BY <2>2, <2>3, <2>4, <2>5
<1> QED
  BY <1>1, <1>2

\* The two ways to evaluate differ in how they read.
LEMMA ReadTakesOver ==
    ASSUME AreTimelines(timeline), NEW strict, AllTrees(timeline, strict),
           NEW b \in Branch, Active(b), NEW e \in Expressions, NEW read,
           Harmless(timeline[b].arena, read.arena),
           Takes(timeline[b].arena, read, e.name, Extent(e), strict), NEW value,
           value.error = read.error, value.state = read.state,
           value.timelines =
             IF read.error = "none"
             THEN OnPartners(SetArena(timeline, b, read.arena), b, e.name, Extent(e))
             ELSE SetArena(timeline, b, read.arena)
    PROVE  Takeover(b, e, value, strict)
<1> DEFINE after == SetArena(timeline, b, read.arena)
<1>1. Sound(read.arena) /\ read.arena.capacity = timeline[b].arena.capacity
  BY DEF Harmless, Shrinks
<1>2. Dwindles(timeline[b].arena, read.arena, strict)
  BY DEF Takes
<1>3. Dwindling(timeline, after, strict)
  BY <1>1, <1>2, SetDwindling DEF Active
<1>4. after[b].arena = read.arena /\ after[b] # NoTimeline
  BY <1>1, SetFrame DEF Active
<1> HIDE DEF after
<1>5. CASE read.error # "none"
  BY <1>3, <1>5 DEF Takeover, after
<1>6. CASE read.error = "none"
  <2> DEFINE us == OnPartners(after, b, e.name, Extent(e))
  <2>1. value.timelines = us
    BY <1>6 DEF after
  <2>2. AreTimelines(after) /\ AllTrees(after, strict)
    BY <1>3 DEF Dwindling, AllTrees, Dwindles
  <2>3. /\ Dwindling(after, us, strict)
        /\ \A c \in Branch : \A w \in Name :
             after[c] # NoTimeline /\ <<c, w>> \in Partners(b, e.name)
               => Lost(us[c].arena, w, Extent(e))
    BY <2>2, ExpressionForms, PartnersDwindling
  <2> HIDE DEF us
  <2>4. Dwindling(timeline, us, strict)
    BY <1>3, <2>3, DwindlingTwice
  <2>5. ASSUME NEW c \in Branch, NEW w \in Name, timeline[c] # NoTimeline,
               <<c, w>> = <<b, e.name>> \/ <<c, w>> \in Partners(b, e.name)
        PROVE  Lost(us[c].arena, w, Extent(e))
    <3>1. CASE <<c, w>> \in Partners(b, e.name)
      BY <1>3, <2>3, <2>5, <3>1 DEF Dwindling
    <3>2. CASE c = b /\ w = e.name
      <4>1. Lost(read.arena, e.name, Extent(e))
        BY <1>6 DEF Takes
      <4>2. Dwindles(read.arena, us[b].arena, strict)
        BY <1>4, <2>3 DEF Dwindling
      <4> QED
        BY <3>2, <4>1, <4>2 DEF Lost, Dwindles
    <3> QED
      BY <2>5, <3>1, <3>2
  <2>6. IsTree(value.state, 0, strict)
    BY <1>6 DEF Takes
  <2>7. ASSUME NEW q, NEW x, Leaf(value.state, q, x)
        PROVE  /\ q \in Seq(Field)
               /\ Has(timeline[b].arena, e.name, Place(e, q), x)
    <3>1. q \in Seq(Field)
      BY <2>7, LeafPath
    <3>2. \/ Extent(e).all /\ Has(timeline[b].arena, e.name, q, x)
          \/ /\ ~Extent(e).all
             /\ Has(timeline[b].arena, e.name, Under(Extent(e).field, q), x)
      BY <1>6, <2>7 DEF Takes
    <3>3. Has(timeline[b].arena, e.name, Place(e, q), x)
      BY <3>2, ExpressionForms DEF Extent, Place, Everything, OneField
    <3> QED
      BY <3>1, <3>3
  <2> QED
    BY <2>1, <2>4, <2>5, <2>6, <2>7 DEF Takeover
<1> QED
  BY <1>5, <1>6

\* Evaluate takes over a valid value.
LEMMA EvaluateTakesOver ==
    ASSUME AreTimelines(timeline), NEW strict, AllTrees(timeline, strict),
           NEW b \in Branch, Active(b), NEW e \in Expressions
    PROVE  /\ Takeover(b, e, Evaluate(b, e), strict)
           /\ Evaluate(b, e).error = "none" => IsValid(Evaluate(b, e).state)
<1>1. PICK read : read = IF e.kind = "identifier"
                         THEN Consume(timeline[b].arena, e.name)
                         ELSE ConsumeField(timeline[b].arena, e.name, e.field)
  OBVIOUS
<1>2. Sound(timeline[b].arena) /\ AreTrees(timeline[b].arena, strict)
  BY DEF AreTimelines, Active, IsTimeline, AllTrees
<1>3. Harmless(timeline[b].arena, read.arena)
  BY <1>1, <1>2, ConsumeHarmless, ConsumeFieldHarmless
<1>4. /\ Takes(timeline[b].arena, read, e.name, Extent(e), strict)
      /\ read.error = "none" => IsValid(read.state)
  <2>1. CASE e.kind = "identifier"
    BY <1>1, <1>2, <2>1, ConsumeTakes DEF Extent
  <2>2. CASE e.kind # "identifier"
    BY <1>1, <1>2, <2>2, ExpressionForms, ConsumeFieldTakes DEF Extent
  <2> QED
    BY <2>1, <2>2
<1>5. PICK after : after = SetArena(timeline, b, read.arena)
  OBVIOUS
<1>6. /\ Evaluate(b, e).error = read.error
      /\ Evaluate(b, e).state = read.state
      /\ Evaluate(b, e).timelines =
           IF read.error = "none" THEN OnPartners(after, b, e.name, Extent(e))
           ELSE after
  <2>0. e.kind = "identifier" \/ e.kind = "field"
    BY ExpressionForms
  <2>1. CASE read.error # "none"
    BY <1>1, <1>5, <2>0, <2>1 DEF Evaluate
  <2>2. CASE read.error = "none" /\ e.kind = "identifier"
    BY <1>1, <1>5, <2>2 DEF Evaluate, PropagateEntanglement, Extent
  <2>3. CASE read.error = "none" /\ e.kind = "field"
    BY <1>1, <1>5, <2>3 DEF Evaluate, PropagateFieldDecay, Extent
  <2> QED
    BY <2>0, <2>1, <2>2, <2>3
<1>7. Takeover(b, e, Evaluate(b, e), strict)
  BY <1>3, <1>4, <1>5, <1>6, ReadTakesOver
<1> QED
  BY <1>4, <1>6, <1>7

\* EvaluateEntropic takes over whatever is there.
LEMMA EvaluateEntropicTakesOver ==
    ASSUME AreTimelines(timeline), NEW strict, AllTrees(timeline, strict),
           NEW b \in Branch, Active(b), NEW e \in Expressions
    PROVE  Takeover(b, e, EvaluateEntropic(b, e), strict)
<1>1. PICK read : read = IF e.kind = "identifier"
                         THEN ConsumeEntropic(timeline[b].arena, e.name)
                         ELSE ConsumeFieldEntropic(timeline[b].arena, e.name,
                                                   e.field)
  OBVIOUS
<1>2. Sound(timeline[b].arena) /\ AreTrees(timeline[b].arena, strict)
  BY DEF AreTimelines, Active, IsTimeline, AllTrees
<1>3. Harmless(timeline[b].arena, read.arena)
  BY <1>1, <1>2, ConsumeEntropicHarmless, ConsumeFieldEntropicHarmless
<1>4. Takes(timeline[b].arena, read, e.name, Extent(e), strict)
  <2>1. CASE e.kind = "identifier"
    BY <1>1, <1>2, <2>1, ConsumeEntropicTakes DEF Extent
  <2>2. CASE e.kind # "identifier"
    BY <1>1, <1>2, <2>2, ExpressionForms, ConsumeFieldEntropicTakes DEF Extent
  <2> QED
    BY <2>1, <2>2
<1>5. PICK after : after = SetArena(timeline, b, read.arena)
  OBVIOUS
<1>6. /\ EvaluateEntropic(b, e).error = read.error
      /\ EvaluateEntropic(b, e).state = read.state
      /\ EvaluateEntropic(b, e).timelines =
           IF read.error = "none" THEN OnPartners(after, b, e.name, Extent(e))
           ELSE after
  <2>0. e.kind = "identifier" \/ e.kind = "field"
    BY ExpressionForms
  <2>1. CASE read.error # "none"
    BY <1>1, <1>5, <2>0, <2>1 DEF EvaluateEntropic
  <2>2. CASE read.error = "none" /\ e.kind = "identifier"
    BY <1>1, <1>5, <2>2 DEF EvaluateEntropic, PropagateEntanglement, Extent
  <2>3. CASE read.error = "none" /\ e.kind = "field"
    BY <1>1, <1>5, <2>3 DEF EvaluateEntropic, PropagateFieldDecay, Extent
  <2> QED
    BY <2>0, <2>1, <2>2, <2>3
<1> QED
  BY <1>3, <1>4, <1>5, <1>6, ReadTakesOver

\* An arena where a tree may have been bound to a name: what was there before is
\* forgotten.
Receives(before, after, k, state, strict) ==
    /\ AreTrees(after, strict)
    /\ Sound(after)
    /\ after.capacity = before.capacity
    /\ \A v, p, x : Has(after, v, p, x) =>
         \/ Has(before, v, p, x)
         \/ v = k /\ Leaf(state, p, x)
    /\ \/ after = before
       \/ \A p, x : Has(after, k, p, x) => Leaf(state, p, x)

\* Insert binds the tree or, where it does not fit, nothing.
LEMMA InsertReceives ==
    ASSUME NEW arena, NEW strict, AreTrees(arena, strict), Sound(arena), NEW k \in Name,
           NEW state, IsTree(state, 0, strict)
    PROVE  Receives(arena, Insert(arena, k, state).arena, k, state, strict)
<1> DEFINE after == Insert(arena, k, state).arena
<1>1. Sound(after) /\ after.capacity = arena.capacity
  BY InsertSound DEF Fits
<1>2. CASE Insert(arena, k, state).error = "none"
  <2>1. after.bindings = Put(arena.bindings, k, state)
    BY <1>2, InsertSound
  <2> HIDE DEF after
  <2>2. /\ AreTrees(after, strict)
        /\ \A v, p, x : Has(after, v, p, x)
                <=> IF v = k THEN Leaf(state, p, x) ELSE Has(arena, v, p, x)
    BY <2>1, ChangedTrees
  <2> QED
    BY <1>1, <2>2 DEF Receives, after
<1>3. CASE Insert(arena, k, state).error # "none"
  <2>1. after = arena
    BY <1>3 DEF Insert, Ok, Err
  <2> QED
    BY <1>1, <2>1 DEF Receives
<1> QED
  BY <1>2, <1>3

\* decay keeps the fields of a struct where they are.
LEMMA DecayDwindles ==
    ASSUME NEW arena, Sound(arena), NEW strict, AreTrees(arena, strict), NEW k
    PROVE  Dwindles(arena, Decay(arena, k).arena, strict)
<1> DEFINE state == StateOf(arena, k)
           after == Decay(arena, k).arena
<1>1. CASE k \notin DOMAIN arena.bindings \/ state.tag = "Decayed"
  <2>1. \/ Decay(arena, k) = Err("AlreadyConsumed", arena)
        \/ Decay(arena, k) = Ok(arena, state)
    BY <1>1, StateFacts DEF Decay
  <2>2. after = arena
    BY <2>1, ResultArena
  <2> QED
    BY <2>2, SameDwindles
<1>2. CASE /\ k \in DOMAIN arena.bindings /\ state.tag # "Decayed"
           /\ IsValid(state) /\ state.payload.kind = "struct"
  <2> DEFINE rest == Decayed(state.payload.fields)
  <2>0. Decay(arena, k) = Ok(Change(arena, k, rest), state)
    BY <1>2, StateFacts DEF Decay
  <2>1. after = Change(arena, k, rest)
    BY <2>0, ResultArena
  <2>2. state = arena.bindings[k]
    BY <1>2, FieldsNeedBinding
  <2>3. after.bindings = Put(arena.bindings, k, rest)
    BY <1>2, <2>1, ChangeBindings
  <2>4. HasFields(state) /\ FieldsOf(state) = state.payload.fields
    BY <1>2 DEF HasFields, FieldsOf
  <2>5. /\ HasFields(rest) /\ FieldsOf(rest) = FieldsOf(state)
        /\ ~IsValid(rest) /\ rest.tag = "Decayed"
    BY <2>4 DEF HasFields, FieldsOf, IsValid, Decayed
  <2>6. IsTree(state, 0, strict)
    BY <1>2, <2>2 DEF AreTrees
  <2> HIDE DEF rest, state, after
  <2>7. /\ 0 < MaxDepth
        /\ Made(state, strict)
        /\ \A f \in FieldNames(state) : IsTree(FieldsOf(state)[f], 0 + 1, strict)
    BY <2>4, <2>6, FieldTree
  <2>8. Made(rest, strict)
    BY <2>4, <2>5, <2>7 DEF Made, IsNode
  <2>9. FieldNames(rest) = FieldNames(state)
    BY <2>4, <2>5 DEF FieldNames
  <2>10. \A f \in FieldNames(rest) : IsTree(FieldsOf(rest)[f], 0 + 1, strict)
    BY <2>5, <2>7, <2>9
  <2>11. /\ IsTree(rest, 0, strict)
         /\ \A path, x : Leaf(rest, path, x)
              <=> \E f \in FieldNames(rest) : \E q \in Seq(Field) :
                     path = Under(f, q) /\ Leaf(FieldsOf(rest)[f], q, x)
    BY <2>5, <2>7, <2>8, <2>10, ParentTree
  <2>12. \A path, x : Leaf(state, path, x)
              <=> \E f \in FieldNames(state) : \E q \in Seq(Field) :
                     path = Under(f, q) /\ Leaf(FieldsOf(state)[f], q, x)
    BY <2>4, <2>7, ParentTree
  <2>13. \A path, x : Leaf(rest, path, x) => Leaf(state, path, x)
    BY <2>5, <2>9, <2>11, <2>12
  <2>14. /\ AreTrees(after, strict)
         /\ \A v, path, x : Has(after, v, path, x)
              <=> IF v = k THEN Leaf(rest, path, x) ELSE Has(arena, v, path, x)
    BY <2>3, <2>11, ChangedTrees
  <2>15. Dwindles(arena, after, strict)
    BY <1>2, <2>2, <2>13, <2>14 DEF Dwindles, Has
  <2> QED
    BY <2>15 DEF after
<1>3. CASE /\ k \in DOMAIN arena.bindings /\ state.tag # "Decayed"
           /\ ~ (IsValid(state) /\ state.payload.kind = "struct")
  <2>1. ~HasFields(state) \/ (IsValid(state) /\ state.payload.kind = "topology")
    BY <1>3 DEF HasFields
  <2>2. Decay(arena, k) = Ok(Change(arena, k, Consumed), state)
    <3>1. CASE ~HasFields(state)
      <4>1. ~ (IsValid(state) /\ state.payload.kind = "topology")
        BY <3>1 DEF HasFields
      <4> QED
        BY <1>3, <3>1, <4>1, StateFacts DEF Decay
    <3>2. CASE HasFields(state)
      BY <1>3, <2>1, <3>2, StateFacts DEF Decay
    <3> QED
      BY <3>1, <3>2
  <2>3. after = Change(arena, k, Consumed)
    BY <2>2, ResultArena
  <2>4. after.bindings = Put(arena.bindings, k, Consumed)
    BY <1>3, <2>3, ChangeBindings
  <2> HIDE DEF after
  <2>5. Dwindles(arena, after, strict)
    BY <1>3, <2>4, ConsumedDwindles
  <2> QED
    BY <2>5 DEF after
<1> QED
  BY <1>1, <1>2, <1>3

\* What compaction keeps was there.
LEMMA CompactDwindles ==
    ASSUME NEW arena, Sound(arena), NEW strict, AreTrees(arena, strict)
    PROVE  Dwindles(arena, CompactConsumed(arena), strict)
<1> DEFINE kept == RestrictValues(arena.bindings, LAMBDA s : s.tag # "Consumed")
           after == CompactConsumed(arena)
<1>1. /\ DOMAIN kept \subseteq DOMAIN arena.bindings
      /\ \A k \in DOMAIN kept : kept[k] = arena.bindings[k]
  BY DEF RestrictValues, Restrict
<1>2. after.bindings = kept
  <2>1. PICK used : used = Footprint(kept)
    OBVIOUS
  <2>2. PICK bindings : bindings = kept
    OBVIOUS
  <2>3. after = [arena EXCEPT !.used = used, !.bindings = bindings]
    BY <2>1, <2>2 DEF CompactConsumed
  <2>4. after = [capacity |-> arena.capacity, used |-> used, bindings |-> bindings]
    BY <2>3, ArenaUpdate DEF Sound
  <2> HIDE DEF after, kept
  <2> QED
    BY <2>2, <2>4
<1> HIDE DEF kept, after
<1>3. Dwindles(arena, after, strict)
  BY <1>1, <1>2 DEF Dwindles, AreTrees, Has
<1> QED
  BY <1>3 DEF after

-----------------------------------------------------------------------------
(* Updates in place *)

\* The maps that deep_set descends through.
IsDescent(into, fields, path) ==
    into = [i \in 1 .. Len(path) |->
              IF i = 1 THEN fields
              ELSE IF /\ path[i - 1] \in DOMAIN into[i - 1]
                      /\ HasFields(into[i - 1][path[i - 1]])
                   THEN FieldsOf(into[i - 1][path[i - 1]])
                   ELSE <<>>]

\* Descent is such maps, if there are any.
LEMMA DescentIs ==
    ASSUME NEW fields, NEW path, \E m : IsDescent(m, fields, path)
    PROVE  IsDescent(Descent(fields, path), fields, path)
<1> DEFINE M == CHOOSE m : IsDescent(m, fields, path)
<1>1. IsDescent(M, fields, path)
  OBVIOUS
<1>2. Descent(fields, path) = M
  BY DEF Descent, IsDescent
<1> HIDE DEF M
<1> QED
  BY <1>1, <1>2

\* The descent along a path of one or two names.
LEMMA DescentShort ==
    ASSUME NEW fields, NEW path, Len(path) \in {1, 2}
    PROVE  /\ Descent(fields, path)[1] = fields
           /\ Len(path) = 2 /\ path[1] \in DOMAIN fields /\ HasFields(fields[path[1]])
                => Descent(fields, path)[2] = FieldsOf(fields[path[1]])
<1> DEFINE next == IF path[1] \in DOMAIN fields /\ HasFields(fields[path[1]])
                   THEN FieldsOf(fields[path[1]]) ELSE <<>>
           f == [i \in 1 .. Len(path) |-> IF i = 1 THEN fields ELSE next]
<1>0. 1 \in 1 .. Len(path) /\ \A i \in 1 .. Len(path) : i = 1 \/ i = 2
  <2>1. CASE Len(path) = 1
    BY <2>1
  <2>2. CASE Len(path) = 2
    BY <2>2
  <2> QED
    BY <2>1, <2>2
<1>1. f[1] = fields
  BY <1>0
<1>2. ASSUME NEW i \in 1 .. Len(path)
      PROVE  f[i] = IF i = 1 THEN fields
                    ELSE IF /\ path[i - 1] \in DOMAIN f[i - 1]
                            /\ HasFields(f[i - 1][path[i - 1]])
                         THEN FieldsOf(f[i - 1][path[i - 1]])
                         ELSE <<>>
  <2>1. CASE i = 1
    BY <1>1, <2>1
  <2>2. CASE i = 2
    <3>1. i - 1 = 1 /\ f[2] = next
      BY <2>2
    <3> HIDE DEF f
    <3> QED
      BY <1>1, <2>2, <3>1
  <2> QED
    BY <1>0, <2>1, <2>2
<1>3. f = [i \in 1 .. Len(path) |-> f[i]]
  OBVIOUS
<1> HIDE DEF f
<1>4. IsDescent(f, fields, path)
  BY <1>2, <1>3 DEF IsDescent
<1>5. PICK into : into = Descent(fields, path) /\ IsDescent(into, fields, path)
  BY <1>4, DescentIs
<1>6. into[1] = fields
  BY <1>0, <1>5 DEF IsDescent
<1>7. ASSUME Len(path) = 2
      PROVE  into[2] = next
  <2>1. 2 \in 1 .. Len(path) /\ 2 # 1 /\ 2 - 1 = 1
    BY <1>7
  <2> QED
    BY <1>5, <1>6, <2>1 DEF IsDescent
<1> QED
  BY <1>5, <1>6, <1>7

\* The maps that deep_set builds on its way back.
IsDeepSet(out, into, path, state) ==
    out = [i \in 1 .. Len(path) |->
             IF i = Len(path) THEN Put(into[Len(path)], path[Len(path)], state)
             ELSE Put(into[i], path[i], WithFields(into[i][path[i]], out[i + 1]))]

\* DeepSet is the first of them, if there are any.
LEMMA DeepSetIs ==
    ASSUME NEW fields, NEW path, NEW state,
           \E m : IsDeepSet(m, Descent(fields, path), path, state)
    PROVE  \E m : /\ IsDeepSet(m, Descent(fields, path), path, state)
                  /\ DeepSet(fields, path, state) = m[1]
<1> DEFINE M == CHOOSE m : IsDeepSet(m, Descent(fields, path), path, state)
<1>1. IsDeepSet(M, Descent(fields, path), path, state)
  OBVIOUS
<1>2. DeepSet(fields, path, state) = M[1]
  BY DEF DeepSet, IsDeepSet
<1> HIDE DEF M
<1> QED
  BY <1>1, <1>2

\* A field is set.
LEMMA DeepSetOne ==
    ASSUME NEW fields, NEW path, Len(path) = 1, NEW state
    PROVE  DeepSet(fields, path, state) = Put(fields, path[1], state)
<1> DEFINE into == Descent(fields, path)
           f    == [i \in 1 .. 1 |-> Put(into[1], path[1], state)]
<1>1. 1 .. Len(path) = {1} /\ 1 .. 1 = {1}
  OBVIOUS
<1>2. into[1] = fields
  BY DescentShort
<1> HIDE DEF into
<1>3. IsDeepSet(f, into, path, state)
  BY <1>1 DEF IsDeepSet
<1>4. PICK m : /\ IsDeepSet(m, into, path, state)
               /\ DeepSet(fields, path, state) = m[1]
  BY <1>3, DeepSetIs DEF into
<1>5. m[1] = Put(into[1], path[1], state)
  BY <1>1, <1>4 DEF IsDeepSet
<1> QED
  BY <1>2, <1>4, <1>5

\* A field of a field is set.
LEMMA DeepSetTwo ==
    ASSUME NEW fields, NEW path, Len(path) = 2, NEW state,
           path[1] \in DOMAIN fields, HasFields(fields[path[1]])
    PROVE  DeepSet(fields, path, state) =
             Put(fields, path[1],
                 WithFields(fields[path[1]],
                            Put(FieldsOf(fields[path[1]]), path[2], state)))
<1> DEFINE into  == Descent(fields, path)
           inner == Put(into[2], path[2], state)
           outer == Put(into[1], path[1], WithFields(into[1][path[1]], inner))
           f     == [i \in 1 .. 2 |-> IF i = 2 THEN inner ELSE outer]
<1>1. 1 .. Len(path) = {1, 2} /\ 1 .. 2 = {1, 2} /\ 1 + 1 = 2 /\ 1 # 2
  OBVIOUS
<1>2. into[1] = fields /\ into[2] = FieldsOf(fields[path[1]])
  BY DescentShort
<1> HIDE DEF into, inner, outer
<1>3. f[1] = outer /\ f[2] = inner
  BY <1>1
<1>4. ASSUME NEW i \in 1 .. Len(path)
      PROVE  f[i] = IF i = Len(path) THEN Put(into[Len(path)], path[Len(path)], state)
                    ELSE Put(into[i], path[i], WithFields(into[i][path[i]], f[i + 1]))
  BY <1>1, <1>3 DEF inner, outer
<1>5. f = [i \in 1 .. Len(path) |-> f[i]]
  BY <1>1
<1> HIDE DEF f
<1>6. IsDeepSet(f, into, path, state)
  BY <1>4, <1>5 DEF IsDeepSet
<1>7. PICK m : /\ IsDeepSet(m, into, path, state)
               /\ DeepSet(fields, path, state) = m[1]
  BY <1>6, DeepSetIs DEF into
<1>8. m[2] = inner
  BY <1>1, <1>7 DEF IsDeepSet, inner
<1>9. m[1] = Put(into[1], path[1], WithFields(into[1][path[1]], m[2]))
  BY <1>1, <1>7 DEF IsDeepSet
<1> QED
  BY <1>2, <1>7, <1>8, <1>9 DEF inner

\* A parent keeps its form under new fields.
LEMMA WithFieldsMade ==
    ASSUME NEW state, HasFields(state), NEW strict, Made(state, strict), NEW fields,
           strict => /\ DOMAIN fields \subseteq Field
                     /\ IsValid(state) => \A f \in DOMAIN fields : IsValid(fields[f])
    PROVE  /\ HasFields(WithFields(state, fields))
           /\ FieldsOf(WithFields(state, fields)) = fields
           /\ IsValid(WithFields(state, fields)) <=> IsValid(state)
           /\ Made(WithFields(state, fields), strict)
<1> DEFINE t == WithFields(state, fields)
<1>1. CASE state.tag = "Decayed"
  <2>1. t = Decayed(fields)
    BY <1>1 DEF WithFields
  <2> HIDE DEF t
  <2>2. HasFields(t) /\ FieldsOf(t) = fields /\ ~IsValid(t) /\ ~IsValid(state)
        /\ t.tag = "Decayed"
    BY <1>1, <2>1 DEF HasFields, FieldsOf, IsValid, Decayed
  <2>3. Made(t, strict)
    BY <2>2 DEF Made, IsNode
  <2> QED
    BY <2>2, <2>3 DEF t
<1>2. CASE state.tag # "Decayed"
  <2>1. IsValid(state) /\ FieldsOf(state) = state.payload.fields
    BY <1>2 DEF HasFields, FieldsOf
  <2>2. state.payload \in {Struct(FieldsOf(state)), Topology(FieldsOf(state))}
    BY <2>1 DEF Made
  <2>3. [state.payload EXCEPT !.fields = fields] \in {Struct(fields), Topology(fields)}
    BY <2>2 DEF Struct, Topology
  <2>4. \/ t = Valid(Struct(fields))
        \/ t = Valid(Topology(fields))
    BY <1>2, <2>3 DEF WithFields
  <2> HIDE DEF t
  <2>5. /\ IsValid(t) /\ HasFields(t) /\ FieldsOf(t) = fields
        /\ t.payload \in {Struct(fields), Topology(fields)}
        /\ t.tag = "Valid"
    BY <2>4 DEF IsValid, HasFields, FieldsOf, Valid, Struct, Topology
  <2>6. Made(t, strict)
    BY <2>1, <2>5 DEF Made, IsNode
  <2> QED
    BY <2>1, <2>5, <2>6 DEF t
<1> QED
  BY <1>1, <1>2

\* A valid value moves as its payload.
LEMMA PayloadTree ==
    ASSUME NEW state, IsValid(state), NEW d \in Nat, NEW strict,
           IsTree(state, d, strict)
    PROVE  /\ IsTree(Valid(state.payload), d, strict)
           /\ IsValid(Valid(state.payload))
           /\ \A q, x : Leaf(Valid(state.payload), q, x) <=> Leaf(state, q, x)
<1> DEFINE t == Valid(state.payload)
<1>1. t.tag = "Valid" /\ t.payload = state.payload
  BY DEF Valid
<1> HIDE DEF t
<1>2. IsValid(t) /\ (HasFields(t) <=> HasFields(state)) /\ FieldsOf(t) = FieldsOf(state)
  BY <1>1 DEF IsValid, HasFields, FieldsOf
<1>3. FieldNames(t) = FieldNames(state)
  BY <1>2 DEF FieldNames
<1>4. Made(state, strict)
  BY TreeUnfold
<1>5. Made(t, strict)
  BY <1>1, <1>2, <1>4 DEF Made, IsNode
<1>6. IsTree(t, d, strict)
  <2>1. HasFields(state) => /\ d < MaxDepth
                            /\ \A f \in FieldNames(state) :
                                  IsTree(FieldsOf(state)[f], d + 1, strict)
    BY TreeUnfold
  <2>2. HasFields(t) => /\ d < MaxDepth
                        /\ \A f \in FieldNames(t) : IsTree(FieldsOf(t)[f], d + 1, strict)
    BY <1>2, <1>3, <2>1
  <2> QED
    BY <1>5, <2>2, TreeUnfold
<1>7. Alike(state, t)
  BY <1>1, <1>2 DEF Alike
<1>8. \A q, x : Leaf(t, q, x) <=> Leaf(state, q, x)
  BY <1>7, AlikeLeaves
<1> QED
  BY <1>2, <1>6, <1>8 DEF t

\* Where the value of an update comes to lie.
Below(path, q) == IF Len(path) = 1 THEN Under(path[1], q)
                  ELSE Under(path[1], Under(path[2], q))

\* The paths of updates.
LEMMA PathForms ==
    ASSUME NEW path \in Paths
    PROVE  /\ Len(path) \in {1, 2}
           /\ path[1] \in Field
           /\ Len(path) = 2 => path[2] \in Field
  BY DEF Paths

\* What a parent holds whose field was set along a path.
LEMMA PutWithFields ==
    ASSUME NEW state, HasFields(state), NEW d \in Nat, NEW strict,
           IsTree(state, d, strict), NEW f \in Field, NEW value,
           IsTree(value, d + 1, strict), strict /\ IsValid(state) => IsValid(value)
    PROVE  LET t == WithFields(state, Put(FieldsOf(state), f, value))
           IN  /\ IsTree(t, d, strict)
               /\ HasFields(t)
               /\ IsValid(t) <=> IsValid(state)
               /\ \A path, x : Leaf(t, path, x) =>
                    \/ Leaf(state, path, x)
                    \/ \E q \in Seq(Field) : path = Under(f, q) /\ Leaf(value, q, x)
<1> DEFINE fields == Put(FieldsOf(state), f, value)
           t == WithFields(state, fields)
<1>1. Made(state, strict)
  BY TreeUnfold
<1>2. /\ DOMAIN fields = DOMAIN FieldsOf(state) \union {f}
      /\ fields[f] = value
      /\ \A g \in DOMAIN FieldsOf(state) \ {f} : fields[g] = FieldsOf(state)[g]
  BY DEF Put
<1>f. fields = Put(FieldsOf(state), f, value)
  OBVIOUS
<1> HIDE DEF fields
<1>3. strict => /\ DOMAIN fields \subseteq Field
                /\ IsValid(state) => \A g \in DOMAIN fields : IsValid(fields[g])
  BY <1>1, <1>2 DEF Made, IsNode
<1>4. HasFields(t) /\ FieldsOf(t) = fields /\ (IsValid(t) <=> IsValid(state))
      /\ Made(t, strict)
  BY <1>1, <1>3, WithFieldsMade
<1> HIDE DEF t
<1>5. /\ IsTree(t, d, strict)
      /\ \A path, x : Leaf(t, path, x) =>
           \/ \E q \in Seq(Field) : path = Under(f, q) /\ Leaf(value, q, x)
           \/ /\ Leaf(state, path, x)
              /\ \A q \in Seq(Field) : path # Under(f, q)
  BY <1>4, <1>f, PutTree
<1> QED
  BY <1>4, <1>5 DEF t, fields

\* What a parent holds whose field, or a field of whose field, was set.
LEMMA PathTree ==
    ASSUME NEW state, HasFields(state), NEW strict, IsTree(state, 0, strict),
           NEW path \in Paths, Reachable(FieldsOf(state), path), NEW value,
           IsTree(value, Len(path), strict), IsValid(value)
    PROVE  LET t == WithFields(state, DeepSet(FieldsOf(state), path, value))
           IN  /\ IsTree(t, 0, strict)
               /\ \A p, x : Leaf(t, p, x) =>
                    \/ Leaf(state, p, x)
                    \/ \E q \in Seq(Field) : p = Below(path, q) /\ Leaf(value, q, x)
<1>0. /\ Len(path) \in {1, 2} /\ path[1] \in Field
      /\ Len(path) = 2 => path[2] \in Field
  BY PathForms
<1> DEFINE t == WithFields(state, DeepSet(FieldsOf(state), path, value))
<1>1. CASE Len(path) = 1
  <2>1. DeepSet(FieldsOf(state), path, value) = Put(FieldsOf(state), path[1], value)
    BY <1>1, DeepSetOne
  <2>2. IsTree(value, 0 + 1, strict)
    BY <1>1
  <2>3. /\ IsTree(t, 0, strict)
        /\ \A p, x : Leaf(t, p, x) =>
             \/ Leaf(state, p, x)
             \/ \E q \in Seq(Field) : p = Under(path[1], q) /\ Leaf(value, q, x)
    BY <1>0, <2>1, <2>2, PutWithFields
  <2> QED
    BY <1>1, <2>3 DEF Below
<1>2. CASE Len(path) = 2
  <2> DEFINE f     == path[1]
             g     == path[2]
             inner == FieldsOf(state)[f]
             new   == WithFields(inner, Put(FieldsOf(inner), g, value))
  <2>1. f \in DOMAIN FieldsOf(state) /\ HasFields(inner)
    <3>1. 1 \in 1 .. Len(path) - 1
      BY <1>2
    <3>2. Descent(FieldsOf(state), path)[1] = FieldsOf(state)
      BY <1>0, DescentShort
    <3> QED
      BY <3>1, <3>2 DEF Reachable
  <2>2. DeepSet(FieldsOf(state), path, value) = Put(FieldsOf(state), f, new)
    BY <1>2, <2>1, DeepSetTwo
  <2>3. f \in Field /\ g \in Field /\ f \in FieldNames(state)
    BY <1>0, <1>2, <2>1 DEF FieldNames
  <2>4. /\ IsTree(inner, 0 + 1, strict)
        /\ Made(state, strict)
        /\ \A q, x : Leaf(inner, q, x) => q \in Seq(Field) /\ Leaf(state, Under(f, q), x)
    BY <2>3, FieldTree
  <2>5. IsTree(value, (0 + 1) + 1, strict)
    BY <1>2
  <2>6. /\ IsTree(new, 0 + 1, strict)
        /\ IsValid(new) <=> IsValid(inner)
        /\ \A p, x : Leaf(new, p, x) =>
             \/ Leaf(inner, p, x)
             \/ \E q \in Seq(Field) : p = Under(g, q) /\ Leaf(value, q, x)
    BY <2>1, <2>3, <2>4, <2>5, PutWithFields
  <2>7. strict /\ IsValid(state) => IsValid(new)
    BY <2>1, <2>4, <2>6 DEF Made, IsNode
  <2> HIDE DEF new, inner, f, g
  <2>8. /\ IsTree(t, 0, strict)
        /\ \A p, x : Leaf(t, p, x) =>
             \/ Leaf(state, p, x)
             \/ \E q \in Seq(Field) : p = Under(f, q) /\ Leaf(new, q, x)
    BY <2>2, <2>3, <2>6, <2>7, PutWithFields
  <2>9. ASSUME NEW p, NEW x, Leaf(t, p, x)
        PROVE  \/ Leaf(state, p, x)
               \/ \E q \in Seq(Field) : p = Below(path, q) /\ Leaf(value, q, x)
    <3>1. CASE Leaf(state, p, x)
      BY <3>1
    <3>2. CASE ~Leaf(state, p, x)
      <4>1. PICK o \in Seq(Field) : p = Under(f, o) /\ Leaf(new, o, x)
        BY <2>8, <2>9, <3>2
      <4>2. ~Leaf(inner, o, x)
        BY <2>4, <3>2, <4>1
      <4>3. PICK q \in Seq(Field) : o = Under(g, q) /\ Leaf(value, q, x)
        BY <2>6, <4>1, <4>2
      <4>4. p = Below(path, q)
        BY <1>2, <4>1, <4>3 DEF Below, f, g
      <4> QED
        BY <4>3, <4>4
    <3> QED
      BY <3>1, <3>2
  <2> HIDE DEF t
  <2> QED
    BY <2>8, <2>9 DEF t
<1> QED
  BY <1>0, <1>1, <1>2

\* An update puts the value below its path, or it keeps or loses what was there.
UpdatedAt(before, after, w, path, state, strict) ==
    /\ AreTrees(after, strict)
    /\ \A v, p, x : Has(after, v, p, x) =>
         \/ Has(before, v, p, x)
         \/ /\ v = w
            /\ \E q \in Seq(Field) : p = Below(path, q) /\ Leaf(state, q, x)

\* An update along a path.
LEMMA UpdateReceives ==
    ASSUME NEW arena, Sound(arena), NEW strict, AreTrees(arena, strict), NEW k,
           NEW path \in Paths, NEW state, IsValid(state), IsTree(state, Len(path), strict)
    PROVE  UpdatedAt(arena, UpdateDeepField(arena, k, path, state.payload).arena, k,
                     path, state, strict)
<1> DEFINE parent == StateOf(arena, k)
           payload == state.payload
           value == Valid(payload)
           after == UpdateDeepField(arena, k, path, payload).arena
<1>0. Len(path) \in Nat
  BY PathForms
<1>v. /\ IsTree(value, Len(path), strict) /\ IsValid(value)
      /\ \A q, x : Leaf(value, q, x) <=> Leaf(state, q, x)
  BY <1>0, PayloadTree
<1>s. \A a : Dwindles(arena, a, strict) => UpdatedAt(arena, a, k, path, state, strict)
  BY DEF Dwindles, UpdatedAt
<1>1. CASE k \notin DOMAIN arena.bindings \/ ~HasFields(parent)
  <2>1. \/ UpdateDeepField(arena, k, path, payload) = Err("AlreadyConsumed", arena)
        \/ UpdateDeepField(arena, k, path, payload) = Err("NotAStruct", arena)
    BY <1>1, StateFacts DEF UpdateDeepField
  <2>2. after = arena
    BY <2>1, ResultArena
  <2> QED
    BY <1>s, <2>2, SameDwindles
<1>2. CASE /\ k \in DOMAIN arena.bindings /\ HasFields(parent)
           /\ ~Reachable(FieldsOf(parent), path)
  <2>1. after = [arena EXCEPT !.bindings = Drop(arena.bindings, k)]
    BY <1>2, StateFacts DEF UpdateDeepField, Err
  <2>2. after.bindings = Drop(arena.bindings, k)
    BY <2>1, BindingsUpdate
  <2> HIDE DEF after
  <2>3. Dwindles(arena, after, strict)
    BY <2>2, DroppedTrees
  <2> QED
    BY <1>s, <2>3 DEF after
<1>3. CASE /\ k \in DOMAIN arena.bindings /\ HasFields(parent)
           /\ Reachable(FieldsOf(parent), path)
  <2> DEFINE fields == DeepSet(FieldsOf(parent), path, value)
             new    == WithFields(arena.bindings[k], fields)
             update == Change(arena, k, new)
  <2>1. after = Replace(arena, k, fields).arena
    BY <1>3, StateFacts DEF UpdateDeepField
  <2>2. CASE update.used <= arena.capacity
    <3>1. after = update
      BY <2>1, <2>2 DEF Replace, Ok
    <3>2. update.bindings = Put(arena.bindings, k, new)
      BY <1>3, ChangeBindings
    <3>3. parent = arena.bindings[k]
      BY <1>3 DEF StateOf
    <3>4. IsTree(parent, 0, strict)
      BY <1>3, <3>3 DEF AreTrees
    <3>5. /\ IsTree(new, 0, strict)
          /\ \A p, x : Leaf(new, p, x) =>
               \/ Leaf(parent, p, x)
               \/ \E q \in Seq(Field) : p = Below(path, q) /\ Leaf(value, q, x)
      BY <1>3, <1>v, <3>3, <3>4, PathTree
    <3> HIDE DEF new, update, after, value, parent
    <3>6. /\ AreTrees(after, strict)
          /\ \A v, p, x : Has(after, v, p, x)
               <=> IF v = k THEN Leaf(new, p, x) ELSE Has(arena, v, p, x)
      BY <3>1, <3>2, <3>5, ChangedTrees
    <3>7. ASSUME NEW v, NEW p, NEW x, Has(after, v, p, x)
          PROVE  \/ Has(arena, v, p, x)
                 \/ /\ v = k
                    /\ \E q \in Seq(Field) : p = Below(path, q) /\ Leaf(state, q, x)
      <4>1. CASE v # k
        BY <3>6, <3>7, <4>1
      <4>2. CASE v = k
        <5>1. Leaf(new, p, x)
          BY <3>6, <3>7, <4>2
        <5>2. \/ Leaf(parent, p, x)
              \/ \E q \in Seq(Field) : p = Below(path, q) /\ Leaf(state, q, x)
          BY <1>v, <3>5, <5>1
        <5> QED
          BY <1>3, <3>3, <4>2, <5>2 DEF Has
      <4> QED
        BY <4>1, <4>2
    <3> QED
      BY <3>6, <3>7 DEF UpdatedAt, after
  <2>3. CASE ~ (update.used <= arena.capacity)
    <3>1. after = [arena EXCEPT !.bindings = Put(arena.bindings, k, Consumed)]
      BY <2>1, <2>3 DEF Replace, Err
    <3>2. after.bindings = Put(arena.bindings, k, Consumed)
      BY <3>1, BindingsUpdate
    <3> HIDE DEF after
    <3>3. Dwindles(arena, after, strict)
      BY <1>3, <3>2, ConsumedDwindles
    <3> QED
      BY <1>s, <3>3 DEF after
  <2> QED
    BY <2>2, <2>3
<1> QED
  BY <1>1, <1>2, <1>3

-----------------------------------------------------------------------------
(* Literals *)

\* Two and three elements as sequences.
LEMMA Couples ==
    ASSUME NEW a, NEW b
    PROVE  <<a>> \o <<b>> = <<a, b>> /\ Append(<<a>>, b) = <<a, b>>
<1>1. PICK S : S = {a, b}
  OBVIOUS
<1>2. <<a>> \in Seq(S) /\ <<b>> \in Seq(S) /\ b \in S /\ <<a, b>> \in Seq(S)
  BY <1>1
<1>3. Len(<<a, b>>) = 2
  OBVIOUS
<1>4. /\ <<a>> \o <<b>> \in Seq(S) /\ Len(<<a>> \o <<b>>) = 2
      /\ \A i \in 1 .. 2 : (<<a>> \o <<b>>)[i] = <<a, b>>[i]
  BY <1>2
<1>5. /\ Append(<<a>>, b) \in Seq(S) /\ Len(Append(<<a>>, b)) = 2
      /\ \A i \in 1 .. 2 : Append(<<a>>, b)[i] = <<a, b>>[i]
  BY <1>2
<1>6. <<a>> \o <<b>> = <<a, b>>
  BY <1>2, <1>3, <1>4, SeqEqual
<1>7. Append(<<a>>, b) = <<a, b>>
  BY <1>2, <1>3, <1>5, SeqEqual
<1> QED
  BY <1>6, <1>7

\* The same for three elements.
LEMMA Triples ==
    ASSUME NEW a, NEW b, NEW c
    PROVE  <<a>> \o <<b, c>> = <<a, b, c>> /\ Append(<<a, b>>, c) = <<a, b, c>>
<1>1. PICK S : S = {a, b, c}
  OBVIOUS
<1>2. /\ <<a>> \in Seq(S) /\ <<b, c>> \in Seq(S) /\ c \in S /\ <<a, b>> \in Seq(S)
      /\ <<a, b, c>> \in Seq(S)
  BY <1>1
<1>3. Len(<<a, b, c>>) = 3
  OBVIOUS
<1>4. /\ <<a>> \o <<b, c>> \in Seq(S) /\ Len(<<a>> \o <<b, c>>) = 3
      /\ \A i \in 1 .. 3 : (<<a>> \o <<b, c>>)[i] = <<a, b, c>>[i]
  BY <1>2
<1>5. /\ Append(<<a, b>>, c) \in Seq(S) /\ Len(Append(<<a, b>>, c)) = 3
      /\ \A i \in 1 .. 3 : Append(<<a, b>>, c)[i] = <<a, b, c>>[i]
  BY <1>2
<1>6. <<a>> \o <<b, c>> = <<a, b, c>>
  BY <1>2, <1>3, <1>4, SeqEqual
<1>7. Append(<<a, b>>, c) = <<a, b, c>>
  BY <1>2, <1>3, <1>5, SeqEqual
<1> QED
  BY <1>6, <1>7

\* A row of scalars under a parent.
Row(fs, place) == [f \in fs |-> Valid(Scalar(Append(place, f)))]

\* The scalars of a row lie one level down.
InRow(state, fs, place) ==
    \A q, x : Leaf(state, q, x) => \E f \in fs : q = <<f>> /\ x = Append(place, f)

\* A parent with a row is a tree, and its scalars are those of the row.
LEMMA RowTree ==
    ASSUME NEW fs, fs \subseteq Field, NEW place, NEW state, HasFields(state),
           FieldsOf(state) = Row(fs, place), IsValid(state),
           state.payload \in {Struct(FieldsOf(state)), Topology(FieldsOf(state))},
           state.tag = "Valid", NEW d \in Nat, d < MaxDepth, NEW strict
    PROVE  IsTree(state, d, strict) /\ InRow(state, fs, place)
<1>1. DOMAIN FieldsOf(state) = fs /\ FieldNames(state) = fs
  BY DEF Row, FieldNames
<1>2. ASSUME NEW f \in fs
      PROVE  /\ ~HasFields(FieldsOf(state)[f])
             /\ IsValid(FieldsOf(state)[f])
             /\ FieldsOf(state)[f].tag = "Valid"
             /\ FieldsOf(state)[f].payload.value = Append(place, f)
  BY DEF Row, HasFields, IsValid, Valid, Scalar
<1>3. ASSUME NEW f \in fs
      PROVE  IsTree(FieldsOf(state)[f], d + 1, strict)
  <2>1. IsNode(FieldsOf(state)[f])
    BY <1>2 DEF IsNode
  <2> QED
    BY <1>2, <2>1, FlatTree
<1>4. Made(state, strict)
  BY <1>1, <1>2 DEF Made, IsNode
<1>5. /\ IsTree(state, d, strict)
      /\ \A q, x : Leaf(state, q, x)
              <=> \E f \in FieldNames(state) : \E p \in Seq(Field) :
                     q = Under(f, p) /\ Leaf(FieldsOf(state)[f], p, x)
  BY <1>1, <1>3, <1>4, ParentTree
<1>6. ASSUME NEW q, NEW x, Leaf(state, q, x)
      PROVE  \E f \in fs : q = <<f>> /\ x = Append(place, f)
  <2>1. PICK f \in fs : \E p \in Seq(Field) :
                           q = Under(f, p) /\ Leaf(FieldsOf(state)[f], p, x)
    BY <1>1, <1>5, <1>6
  <2>2. PICK p \in Seq(Field) : q = Under(f, p) /\ Leaf(FieldsOf(state)[f], p, x)
    BY <2>1
  <2>3. p = <<>> /\ x = Append(place, f)
    BY <1>2, <2>2, LeafFlat
  <2>4. q = <<f>>
    BY <2>2, <2>3 DEF Under
  <2> QED
    BY <2>3, <2>4
<1> QED
  BY <1>5, <1>6 DEF InRow

\* The scalar of a literal spells the way to it.
Spelled(state, n) == \A q, x : Leaf(state, q, x) => x = <<n>> \o q

\* A literal is well formed, and spells the ways to its scalars.
LEMMA LiteralTree ==
    ASSUME NEW kind \in Literals, NEW fs, fs \subseteq Field, NEW n, NEW strict,
           NestsWithin(Literal(kind, n, fs), 0)
    PROVE  /\ IsTree(Literal(kind, n, fs), 0, strict)
           /\ Spelled(Literal(kind, n, fs), n)
<1> DEFINE state == Literal(kind, n, fs)
           at(place) == [f \in fs |-> Valid(Scalar(Append(place, f)))]
<1>0. \A place : at(place) = Row(fs, place)
  BY DEF Row
<1> HIDE DEF at
<1>1. CASE kind = "scalar"
  <2>1. state = Valid(Scalar(<<n>>))
    BY <1>1 DEF Literal
  <2>2. ~HasFields(state) /\ IsValid(state) /\ state.payload.value = <<n>>
        /\ state.tag = "Valid"
    BY <2>1 DEF HasFields, IsValid, Valid, Scalar
  <2>3. IsTree(state, 0, strict)
    BY <2>2, FlatTree DEF IsNode
  <2> HIDE DEF state
  <2>4. ASSUME NEW q, NEW x, Leaf(state, q, x)
        PROVE  x = <<n>> \o q
    <3>1. q = <<>> /\ x = <<n>>
      BY <2>2, <2>4, LeafFlat
    <3> QED
      BY <3>1
  <2>5. Spelled(state, n)
    BY <2>4 DEF Spelled
  <2> QED
    BY <2>3, <2>5 DEF state
<1>2. CASE kind \in {"struct", "topology"}
  <2>1. state \in {Valid(Struct(Row(fs, <<n>>))), Valid(Topology(Row(fs, <<n>>)))}
    BY <1>2 DEF Literal, Row
  <2>2. /\ HasFields(state) /\ IsValid(state) /\ state.tag = "Valid"
        /\ FieldsOf(state) = Row(fs, <<n>>)
        /\ state.payload \in {Struct(FieldsOf(state)), Topology(FieldsOf(state))}
    BY <2>1 DEF HasFields, IsValid, Valid, Struct, Topology, FieldsOf
  <2>3. 0 < MaxDepth
    BY <2>2, NestsUnfold
  <2> HIDE DEF state
  <2>4. IsTree(state, 0, strict) /\ InRow(state, fs, <<n>>)
    BY <2>2, <2>3, RowTree
  <2>5. ASSUME NEW q, NEW x, Leaf(state, q, x)
        PROVE  x = <<n>> \o q
    <3>1. PICK f \in fs : q = <<f>> /\ x = Append(<<n>>, f)
      BY <2>4, <2>5 DEF InRow
    <3> QED
      BY <3>1, Couples
  <2>6. Spelled(state, n)
    BY <2>5 DEF Spelled
  <2> QED
    BY <2>4, <2>6 DEF state
<1>3. CASE kind = "nested"
  <2> DEFINE part(f) == Valid(Struct(Row(fs, <<n, f>>)))
             parts == [f \in fs |-> part(f)]
  <2>1. state = Valid(Struct(parts))
    BY <1>3 DEF Literal, Row
  <2> HIDE DEF state, parts
  <2>2. /\ HasFields(state) /\ IsValid(state) /\ state.tag = "Valid"
        /\ FieldsOf(state) = parts
        /\ state.payload = Struct(FieldsOf(state))
    BY <2>1 DEF HasFields, IsValid, Valid, Struct, FieldsOf
  <2>3. DOMAIN parts = fs /\ \A f \in fs : parts[f] = part(f)
    BY DEF parts
  <2>4. \A f \in fs : /\ HasFields(part(f)) /\ IsValid(part(f)) /\ part(f).tag = "Valid"
                      /\ FieldsOf(part(f)) = Row(fs, <<n, f>>)
                      /\ part(f).payload = Struct(FieldsOf(part(f)))
    BY DEF HasFields, IsValid, Valid, Struct, FieldsOf
  <2> HIDE DEF part
  <2>5. FieldNames(state) = fs
    BY <2>2, <2>3 DEF FieldNames
  <2>6. 0 < MaxDepth /\ \A f \in fs : NestsWithin(part(f), 0 + 1)
    BY <2>2, <2>3, <2>5, NestsUnfold DEF state
  <2>7. ASSUME NEW f \in fs
        PROVE  IsTree(part(f), 0 + 1, strict) /\ InRow(part(f), fs, <<n, f>>)
    <3>1. PICK s : s = part(f)
      OBVIOUS
    <3>2. /\ HasFields(s) /\ IsValid(s) /\ s.tag = "Valid"
          /\ FieldsOf(s) = Row(fs, <<n, f>>)
          /\ s.payload \in {Struct(FieldsOf(s)), Topology(FieldsOf(s))}
      BY <2>4, <3>1
    <3>3. NestsWithin(s, 1)
      BY <2>6, <3>1
    <3>4. 1 < MaxDepth /\ 0 + 1 = 1
      BY <3>2, <3>3, NestsUnfold
    <3>5. IsTree(s, 1, strict) /\ InRow(s, fs, <<n, f>>)
      BY <3>2, <3>4, RowTree
    <3> QED
      BY <3>1, <3>4, <3>5
  <2>8. Made(state, strict)
    BY <2>2, <2>3, <2>4 DEF Made, IsNode
  <2>9. /\ IsTree(state, 0, strict)
        /\ \A q, x : Leaf(state, q, x)
              <=> \E f \in FieldNames(state) : \E p \in Seq(Field) :
                     q = Under(f, p) /\ Leaf(FieldsOf(state)[f], p, x)
    <3>1. \A f \in FieldNames(state) : IsTree(FieldsOf(state)[f], 0 + 1, strict)
      BY <2>2, <2>3, <2>5, <2>7
    <3> QED
      BY <2>2, <2>6, <2>8, <3>1, ParentTree
  <2>10. ASSUME NEW q, NEW x, Leaf(state, q, x)
         PROVE  x = <<n>> \o q
    <3>1. PICK f \in fs : \E p \in Seq(Field) :
                             q = Under(f, p) /\ Leaf(FieldsOf(state)[f], p, x)
      BY <2>5, <2>9, <2>10
    <3>2. PICK p \in Seq(Field) : q = Under(f, p) /\ Leaf(part(f), p, x)
      BY <2>2, <2>3, <3>1
    <3>3. PICK g \in fs : p = <<g>> /\ x = Append(<<n, f>>, g)
      BY <2>7, <3>2 DEF InRow
    <3>4. q = <<f, g>>
      BY <3>2, <3>3, Couples DEF Under
    <3>5. x = <<n, f, g>> /\ <<n>> \o <<f, g>> = <<n, f, g>>
      BY <3>3, Triples
    <3> QED
      BY <3>4, <3>5
  <2>11. Spelled(state, n)
    BY <2>10 DEF Spelled
  <2> QED
    BY <2>9, <2>11 DEF state
<1> QED
  BY <1>1, <1>2, <1>3 DEF Literals

-----------------------------------------------------------------------------
(* Groups *)

\* Groups of variables on timelines.
AreGroups(gs) == gs \in Seq(SUBSET (Branch \X Name))

\* Groups that only grow keep the timelines that are kin.
Grow(gs, hs) ==
    /\ DOMAIN gs \subseteq DOMAIN hs
    /\ \A i \in DOMAIN gs : gs[i] \subseteq hs[i]

\* entangle adds a group.
LEMMA EntangleGroups ==
    ASSUME AreGroups(groups), NEW b \in Branch, NEW names \in NonEmpty(Name),
           Entangle(b, names)
    PROVE  Grow(groups, groups') /\ AreGroups(groups')
<1>1. PICK g : g = {<<b, v>> : v \in names}
  OBVIOUS
<1>2. PICK hs : hs = groups'
  OBVIOUS
<1>3. hs = Append(groups, g)
  BY <1>1, <1>2 DEF Entangle
<1>4. g \in SUBSET (Branch \X Name)
  BY <1>1 DEF NonEmpty
<1>5. /\ Append(groups, g) \in Seq(SUBSET (Branch \X Name))
      /\ \A i \in 1 .. Len(groups) : Append(groups, g)[i] = groups[i]
      /\ DOMAIN groups = 1 .. Len(groups)
      /\ DOMAIN Append(groups, g) = 1 .. Len(groups) + 1
      /\ Len(groups) \in Nat
  BY <1>4 DEF AreGroups
<1>6. Grow(groups, hs) /\ AreGroups(hs)
  BY <1>3, <1>5 DEF Grow, AreGroups
<1> QED
  BY <1>2, <1>6

\* split adds the copies to the groups of the originals.
LEMMA SplitGroups ==
    ASSUME AreGroups(groups), NEW p \in Branch, NEW c \in Branch, Split(p, c)
    PROVE  /\ Grow(groups, groups') /\ AreGroups(groups')
           /\ DOMAIN groups' = DOMAIN groups
           /\ \A i \in DOMAIN groups : \A v \in Name :
                 <<p, v>> \in groups[i] => <<c, v>> \in groups'[i]
<1>1. PICK hs : hs = groups'
  OBVIOUS
<1>2. hs = [i \in DOMAIN groups |->
               groups[i] \union {<<c, v>> : v \in {w \in Name : <<p, w>> \in groups[i]}}]
  BY <1>1 DEF Split
<1>3. DOMAIN groups = 1 .. Len(groups) /\ Len(groups) \in Nat
      /\ \A i \in DOMAIN groups : groups[i] \in SUBSET (Branch \X Name)
  BY DEF AreGroups
<1>4. ASSUME NEW i \in DOMAIN groups
      PROVE  /\ hs[i] \in SUBSET (Branch \X Name) /\ groups[i] \subseteq hs[i]
             /\ \A v \in Name : <<p, v>> \in groups[i] => <<c, v>> \in hs[i]
  <2>1. hs[i] = groups[i] \union {<<c, v>> : v \in {w \in Name : <<p, w>> \in groups[i]}}
    BY <1>2
  <2>2. \A v \in Name : <<c, v>> \in Branch \X Name
    OBVIOUS
  <2>3. groups[i] \subseteq Branch \X Name
    BY <1>3
  <2>4. ASSUME NEW m \in hs[i]
        PROVE  m \in Branch \X Name
    <3>1. CASE m \in groups[i]
      BY <2>3, <3>1
    <3>2. CASE m \notin groups[i]
      <4>1. PICK v \in Name : m = <<c, v>>
        BY <2>1, <2>4, <3>2
      <4> QED
        BY <2>2, <4>1
    <3> QED
      BY <3>1, <3>2
  <2> QED
    BY <2>1, <2>4
<1>5. DOMAIN hs = 1 .. Len(groups)
  BY <1>2, <1>3
<1>6. hs \in [1 .. Len(groups) -> SUBSET (Branch \X Name)]
  BY <1>2, <1>3, <1>4
<1>7. hs \in Seq(SUBSET (Branch \X Name))
  BY <1>3, <1>6
<1>8. Grow(groups, hs) /\ AreGroups(hs)
  BY <1>3, <1>4, <1>5, <1>7 DEF Grow, AreGroups
<1> QED
  BY <1>1, <1>3, <1>4, <1>5, <1>8

-----------------------------------------------------------------------------
(* What a merge combines is what its timelines bring *)

\* The kinds of strategy that resolve_entropic_conflict knows.
KnownKinds == {"FirstWins", "Custom", "Priority", "Decay", "Auto"} \union PerFieldKinds

\* Strategies of the kinds that there are, with those they give to fields; where
\* "strict" says so, none works field by field.
AreStrategies(all, strict) ==
    \A s \in all :
        /\ s.kind \in KnownKinds
        /\ strict => s.kind \notin PerFieldKinds
        /\ s.kind \in PerFieldKinds =>
             s.default \in all /\ \A k \in DOMAIN s.rules : s.rules[k] \in all

\* A conflict of trees.
IsConflict(c, d, all, strict) ==
    /\ c.strategy \in all
    /\ IsTree(c.existing, d, strict)
    /\ IsTree(c.incoming, d, strict)

\* What becomes of it is a tree again, and has its scalars where one side had them.
Settles(c, state, d, strict) ==
    /\ IsTree(state, d, strict)
    /\ \A path, x : Leaf(state, path, x)
                      => Leaf(c.existing, path, x) \/ Leaf(c.incoming, path, x)

\* The conflicts of the fields that both sides have are conflicts of trees.
LEMMA FieldConflicts ==
    ASSUME NEW all, NEW strict, AreStrategies(all, strict), NEW d \in Nat,
           NEW c, IsConflict(c, d, all, strict), c.strategy.kind \in PerFieldKinds,
           HasFields(c.existing), HasFields(c.incoming),
           NEW k \in SharedFields(c) \intersect Field
    PROVE  IsConflict(FieldConflict(c, k), d + 1, all, strict)
<1>1. k \in FieldNames(c.existing) /\ k \in FieldNames(c.incoming)
  BY DEF SharedFields, FieldNames
<1>2. IsTree(FieldsOf(c.existing)[k], d + 1, strict)
      /\ IsTree(FieldsOf(c.incoming)[k], d + 1, strict)
  BY <1>1, FieldTree DEF IsConflict
<1>3. SubStrategy(c.strategy, k) \in all
  BY DEF AreStrategies, IsConflict, SubStrategy
<1>4. /\ FieldConflict(c, k).existing = FieldsOf(c.existing)[k]
      /\ FieldConflict(c, k).incoming = FieldsOf(c.incoming)[k]
      /\ FieldConflict(c, k).strategy = SubStrategy(c.strategy, k)
  BY DEF FieldConflict, Conflict
<1> QED
  BY <1>2, <1>3, <1>4 DEF IsConflict

\* Fields that are combined key by key under a parent.
LEMMA CombinedFields ==
    ASSUME NEW d \in Nat, NEW c, IsTree(c.existing, d, FALSE), IsTree(c.incoming, d, FALSE),
           HasFields(c.existing), HasFields(c.incoming),
           NEW below,
           \A k \in SharedFields(c) \intersect Field :
              Settles(FieldConflict(c, k), below[FieldConflict(c, k)].state, d + 1, FALSE),
           NEW keys,
           keys \subseteq DOMAIN FieldsOf(c.existing) \union DOMAIN FieldsOf(c.incoming),
           NEW state, HasFields(state),
           FieldsOf(state) = ResolveFields(c, keys, below).fields,
           IsValid(state) => state.payload \in {Struct(FieldsOf(state)),
                                                Topology(FieldsOf(state))}
    PROVE  Settles(c, state, d, FALSE)
<1> DEFINE mine == FieldsOf(c.existing)
           theirs == FieldsOf(c.incoming)
           fields == FieldsOf(state)
<1>1. /\ DOMAIN fields = keys
      /\ \A k \in keys : fields[k] = IF k \in SharedFields(c)
                                     THEN below[FieldConflict(c, k)].state
                                     ELSE IF k \in DOMAIN mine THEN mine[k]
                                     ELSE theirs[k]
  BY DEF ResolveFields
<1>2. FieldNames(state) = Field \intersect keys
  BY <1>1 DEF FieldNames
<1>3. /\ FieldNames(c.existing) = Field \intersect DOMAIN mine
      /\ FieldNames(c.incoming) = Field \intersect DOMAIN theirs
  BY DEF FieldNames
<1>4. /\ d < MaxDepth
      /\ \A f \in FieldNames(c.existing) :
           /\ IsTree(mine[f], d + 1, FALSE)
           /\ \A q, x : Leaf(mine[f], q, x) => Leaf(c.existing, Under(f, q), x)
  BY FieldTree
<1>5. \A f \in FieldNames(c.incoming) :
           /\ IsTree(theirs[f], d + 1, FALSE)
           /\ \A q, x : Leaf(theirs[f], q, x) => Leaf(c.incoming, Under(f, q), x)
  BY FieldTree
<1>6. ASSUME NEW f \in FieldNames(state)
      PROVE  /\ IsTree(fields[f], d + 1, FALSE)
             /\ \A q, x : Leaf(fields[f], q, x) =>
                  \/ Leaf(c.existing, Under(f, q), x)
                  \/ Leaf(c.incoming, Under(f, q), x)
  <2>1. CASE f \in SharedFields(c)
    <3>1. Settles(FieldConflict(c, f), fields[f], d + 1, FALSE)
      BY <1>1, <1>2, <2>1
    <3>2. /\ FieldConflict(c, f).existing = mine[f]
          /\ FieldConflict(c, f).incoming = theirs[f]
      BY DEF FieldConflict, Conflict
    <3>3. f \in FieldNames(c.existing) /\ f \in FieldNames(c.incoming)
      BY <1>2, <1>3, <2>1 DEF SharedFields
    <3> HIDE DEF fields, mine, theirs
    <3> QED
      BY <1>4, <1>5, <3>1, <3>2, <3>3 DEF Settles
  <2>2. CASE f \notin SharedFields(c) /\ f \in DOMAIN mine
    <3>1. fields[f] = mine[f] /\ f \in FieldNames(c.existing)
      BY <1>1, <1>2, <1>3, <2>2
    <3> HIDE DEF fields, mine, theirs
    <3> QED
      BY <1>4, <3>1
  <2>3. CASE f \notin SharedFields(c) /\ f \notin DOMAIN mine
    <3>1. fields[f] = theirs[f] /\ f \in FieldNames(c.incoming)
      BY <1>1, <1>2, <1>3, <2>3
    <3> HIDE DEF fields, mine, theirs
    <3> QED
      BY <1>5, <3>1
  <2> QED
    BY <2>1, <2>2, <2>3
<1>7. Made(state, FALSE)
  BY DEF Made
<1>8. /\ IsTree(state, d, FALSE)
      /\ \A path, x : Leaf(state, path, x)
              <=> \E f \in FieldNames(state) : \E q \in Seq(Field) :
                     path = Under(f, q) /\ Leaf(fields[f], q, x)
  BY <1>4, <1>6, <1>7, ParentTree
<1> HIDE DEF fields
<1>9. ASSUME NEW path, NEW x, Leaf(state, path, x)
      PROVE  Leaf(c.existing, path, x) \/ Leaf(c.incoming, path, x)
  <2>1. PICK f \in FieldNames(state) : \E q \in Seq(Field) :
                     path = Under(f, q) /\ Leaf(fields[f], q, x)
    BY <1>8, <1>9
  <2>2. PICK q \in Seq(Field) : path = Under(f, q) /\ Leaf(fields[f], q, x)
    BY <2>1
  <2> QED
    BY <1>6, <2>2
<1> QED
  BY <1>8, <1>9 DEF Settles

\* A side that is kept, or nothing.
LEMMA SideSettles ==
    ASSUME NEW d \in Nat, NEW all, NEW strict, NEW c, IsConflict(c, d, all, strict),
           NEW state \in {c.existing, c.incoming, Consumed}
    PROVE  Settles(c, state, d, strict)
  BY ConsumedTree DEF Settles, IsConflict

\* What becomes of a conflict.
LEMMA OutcomeSettles ==
    ASSUME NEW all, NEW strict, strict \in BOOLEAN, AreStrategies(all, strict),
           NEW d \in Nat, NEW c, IsConflict(c, d, all, strict), NEW branch, NEW below,
           \A e \in ConflictsBelow(c) :
              IsConflict(e, d + 1, all, strict) =>
                 Settles(e, below[e].state, d + 1, strict)
    PROVE  Settles(c, Outcome(c, branch, below).state, d, strict)
<1> DEFINE settled == ConsumedWins(c.existing, c.incoming)
           kind == c.strategy.kind
           outcome == Outcome(c, branch, below)
<1>1. kind \in KnownKinds
  BY DEF AreStrategies, IsConflict
<1>2. \A s, r : Resolved(s, r).state = s
  BY DEF Resolved
<1>3. CASE ~(kind \in PerFieldKinds /\ Combinable(c) /\ ~settled)
  <2>1. outcome.state \in {c.existing, c.incoming, Consumed}
    <3>1. CASE settled
      <4>1. outcome = Resolved(Consumed, {})
        BY <3>1 DEF Outcome, PerFieldKinds
      <4> QED
        BY <1>2, <4>1
    <3>2. CASE ~settled /\ kind \in {"FirstWins", "Custom"}
      <4>1. outcome = Resolved(c.existing, {})
        BY <3>2 DEF Outcome, PerFieldKinds
      <4> QED
        BY <1>2, <4>1
    <3>3. CASE ~settled /\ kind = "Priority"
      <4>1. outcome = Resolved(IF c.strategy.branch = branch THEN c.incoming
                               ELSE c.existing, {})
        BY <3>3 DEF Outcome, PerFieldKinds
      <4> QED
        BY <1>2, <4>1
    <3>4. CASE ~settled /\ kind = "Decay"
      <4>1. outcome = Resolved(Consumed, {})
        BY <3>4 DEF Outcome, PerFieldKinds
      <4> QED
        BY <1>2, <4>1
    <3>5. CASE ~settled /\ kind = "Auto"
      <4>1. outcome = Resolved(IF c.existing = c.incoming THEN c.existing
                               ELSE Consumed, {})
        BY <3>5 DEF Outcome, PerFieldKinds
      <4> QED
        BY <1>2, <4>1
    <3>6. CASE ~settled /\ kind \in PerFieldKinds /\ ~Combinable(c)
      <4>1. outcome = Resolved(Consumed, NoteOnInvalid(c.strategy))
        BY <3>6 DEF Outcome, PerFieldKinds
      <4> QED
        BY <1>2, <4>1
    <3> HIDE DEF outcome
    <3> QED
      BY <1>1, <1>3, <3>1, <3>2, <3>3, <3>4, <3>5, <3>6 DEF KnownKinds
  <2> HIDE DEF outcome
  <2>2. Settles(c, outcome.state, d, strict)
    BY <2>1, SideSettles
  <2> QED
    BY <2>2 DEF outcome
<1>4. CASE kind \in PerFieldKinds /\ Combinable(c) /\ ~settled
  <2>1. strict = FALSE
    BY <1>4 DEF AreStrategies, IsConflict
  <2>2. HasFields(c.existing) /\ HasFields(c.incoming)
    BY <1>4 DEF Combinable
  <2>3. ASSUME NEW k \in SharedFields(c) \intersect Field
        PROVE  Settles(FieldConflict(c, k), below[FieldConflict(c, k)].state, d + 1, FALSE)
    <3>1. IsConflict(FieldConflict(c, k), d + 1, all, strict)
      BY <1>4, <2>2, FieldConflicts
    <3>2. FieldConflict(c, k) \in ConflictsBelow(c)
      BY <1>4 DEF ConflictsBelow
    <3> QED
      BY <2>1, <3>1, <3>2
  <2>4. IsTree(c.existing, d, FALSE) /\ IsTree(c.incoming, d, FALSE)
    BY <2>1 DEF IsConflict
  <2>5. CASE kind = "Union"
    <3> DEFINE keys == DOMAIN FieldsOf(c.existing) \union DOMAIN FieldsOf(c.incoming)
    <3>1. PICK fields : fields = ResolveFields(c, keys, below).fields
      OBVIOUS
    <3>2. outcome = ResolveUnion(c, below)
      BY <1>4, <2>5 DEF Outcome, PerFieldKinds
    <3>3. outcome.state \in {Decayed(fields), Valid(Topology(fields)),
                             Valid(Struct(fields))}
      BY <3>1, <3>2 DEF ResolveUnion, Resolved
    <3>4. PICK state : state = outcome.state
      OBVIOUS
    <3>5. /\ HasFields(state) /\ FieldsOf(state) = fields
          /\ IsValid(state) => state.payload \in {Struct(fields), Topology(fields)}
      BY <3>3, <3>4
         DEF HasFields, FieldsOf, IsValid, Decayed, Valid, Topology, Struct
    <3> HIDE DEF outcome
    <3>6. keys \subseteq DOMAIN FieldsOf(c.existing) \union DOMAIN FieldsOf(c.incoming)
      OBVIOUS
    <3> HIDE DEF keys
    <3>7. Settles(c, state, d, FALSE)
      BY <2>2, <2>3, <2>4, <3>1, <3>5, <3>6, CombinedFields
    <3> QED
      BY <2>1, <3>4, <3>7 DEF outcome
  <2>6. CASE kind = "Intersect"
    <3> DEFINE keys == SharedFields(c)
    <3>1. PICK fields : fields = ResolveFields(c, keys, below).fields
      OBVIOUS
    <3>2. outcome = ResolveIntersect(c, below)
      BY <1>4, <2>6 DEF Outcome, PerFieldKinds
    <3>3. outcome.state = WithFields(c.existing, fields)
      BY <3>1, <3>2 DEF ResolveIntersect, Resolved
    <3>4. PICK state : state = outcome.state
      OBVIOUS
    <3>5. /\ HasFields(state) /\ FieldsOf(state) = fields
          /\ IsValid(state) => state.payload \in {Struct(fields), Topology(fields)}
      <4>1. PICK mine : mine = c.existing
        OBVIOUS
      <4>2. HasFields(mine) /\ Made(mine, FALSE)
        BY <2>2, <2>4, <4>1, FieldTree
      <4>3. state = WithFields(mine, fields)
        BY <3>3, <3>4, <4>1
      <4>4. /\ HasFields(WithFields(mine, fields))
            /\ FieldsOf(WithFields(mine, fields)) = fields
            /\ Made(WithFields(mine, fields), FALSE)
        BY <4>2, WithFieldsMade
      <4> QED
        BY <4>3, <4>4 DEF Made
    <3> HIDE DEF outcome
    <3>6. keys \subseteq DOMAIN FieldsOf(c.existing) \union DOMAIN FieldsOf(c.incoming)
      BY DEF SharedFields
    <3> HIDE DEF keys
    <3>7. Settles(c, state, d, FALSE)
      BY <2>2, <2>3, <2>4, <3>1, <3>5, <3>6, CombinedFields
    <3> QED
      BY <2>1, <3>4, <3>7 DEF outcome
  <2> QED
    BY <1>4, <2>5, <2>6 DEF PerFieldKinds
<1> QED
  BY <1>3, <1>4

\* f has the conflicts of each depth up to n.
ConflictsTo(f, top, n) ==
    f = [m \in 0 .. n |->
           IF m = 0 THEN ConflictsBelow(top)
           ELSE UNION {ConflictsBelow(c) : c \in f[m - 1]}]

\* There are such conflicts.
LEMMA ConflictsExist ==
    ASSUME NEW top, NEW n \in Nat
    PROVE  \E f : ConflictsTo(f, top, n)
<1> DEFINE T == {m \in Nat : \E f : ConflictsTo(f, top, m)}
<1>1. 0 \in T
  <2> DEFINE f == [m \in 0 .. 0 |-> ConflictsBelow(top)]
  <2>1. ConflictsTo(f, top, 0)
    BY DEF ConflictsTo
  <2> QED
    BY <2>1
<1>2. \A m \in Nat : m \in T => m + 1 \in T
  <2> SUFFICES ASSUME NEW m \in Nat, m \in T
               PROVE  \E f : ConflictsTo(f, top, m + 1)
    OBVIOUS
  <2>1. PICK t : ConflictsTo(t, top, m)
    OBVIOUS
  <2> DEFINE Level(f, k) == IF k = 0 THEN ConflictsBelow(top)
                            ELSE UNION {ConflictsBelow(c) : c \in f[k - 1]}
             h == [k \in 0 .. m + 1 |-> Level(t, k)]
  <2>2. \A k \in 0 .. m + 1 : h[k] = Level(t, k)
    OBVIOUS
  <2>3. \A k \in 0 .. m : t[k] = Level(t, k)
    BY <2>1 DEF ConflictsTo
  <2>4. \A k \in 0 .. m : h[k] = t[k]
    <3> HIDE DEF Level, h
    <3>1. 0 .. m \subseteq 0 .. m + 1
      OBVIOUS
    <3> QED
      BY <2>2, <2>3, <3>1
  <2>5. \A k \in 0 .. m + 1 : Level(h, k) = Level(t, k)
    <3> TAKE k \in 0 .. m + 1
    <3>1. CASE k = 0
      BY <3>1
    <3>2. CASE k # 0
      <4>1. k - 1 \in 0 .. m
        BY <3>2
      <4>2. h[k - 1] = t[k - 1]
        BY <2>4, <4>1
      <4> HIDE DEF h
      <4> QED
        BY <4>2
    <3> QED
      BY <3>1, <3>2
  <2>6. h = [k \in 0 .. m + 1 |-> h[k]]
    OBVIOUS
  <2>7. h = [k \in 0 .. m + 1 |-> Level(h, k)]
    <3> HIDE DEF h, Level
    <3> QED
      BY <2>2, <2>5, <2>6
  <2>8. ConflictsTo(h, top, m + 1)
    <3> HIDE DEF h
    <3> QED
      BY <2>7 DEF ConflictsTo
  <2> QED
    BY <2>8
<1>3. n \in T
  <2> HIDE DEF T
  <2> QED
    BY <1>1, <1>2, NaturalInduction
<1> QED
  BY <1>3

\* o has what becomes of the conflicts of the n deepest levels, from the deepest up.
OutcomesTo(o, conflicts, branch, n) ==
    o = [m \in 0 .. n |->
           [c \in conflicts[MaxDepth - m] |->
              Outcome(c, branch, IF m = 0 THEN <<>> ELSE o[m - 1])]]

\* There are such outcomes.
LEMMA OutcomesExist ==
    ASSUME NEW conflicts, NEW branch, NEW n \in Nat
    PROVE  \E o : OutcomesTo(o, conflicts, branch, n)
<1> DEFINE T == {m \in Nat : \E o : OutcomesTo(o, conflicts, branch, m)}
           Level(o, m) == [c \in conflicts[MaxDepth - m] |->
                             Outcome(c, branch, IF m = 0 THEN <<>> ELSE o[m - 1])]
<1>1. 0 \in T
  <2> DEFINE o == [m \in 0 .. 0 |-> Level(<<>>, m)]
  <2>1. o = [m \in 0 .. 0 |-> Level(o, m)]
    <3>1. \A m \in 0 .. 0 : m = 0
      OBVIOUS
    <3>2. \A m \in 0 .. 0 : Level(<<>>, m) = Level(o, m)
      <4> HIDE DEF o
      <4> QED
        BY <3>1
    <3> HIDE DEF Level
    <3> QED
      BY <3>2
  <2> HIDE DEF o
  <2>2. OutcomesTo(o, conflicts, branch, 0)
    BY <2>1 DEF OutcomesTo
  <2> QED
    BY <2>2
<1>2. \A m \in Nat : m \in T => m + 1 \in T
  <2> SUFFICES ASSUME NEW m \in Nat, m \in T
               PROVE  \E o : OutcomesTo(o, conflicts, branch, m + 1)
    OBVIOUS
  <2>1. PICK t : OutcomesTo(t, conflicts, branch, m)
    OBVIOUS
  <2> DEFINE h == [k \in 0 .. m + 1 |-> Level(t, k)]
  <2>2. \A k \in 0 .. m + 1 : h[k] = Level(t, k)
    OBVIOUS
  <2>3. \A k \in 0 .. m : t[k] = Level(t, k)
    BY <2>1 DEF OutcomesTo
  <2>4. \A k \in 0 .. m : h[k] = t[k]
    <3> HIDE DEF Level, h
    <3>1. 0 .. m \subseteq 0 .. m + 1
      OBVIOUS
    <3> QED
      BY <2>2, <2>3, <3>1
  <2>5. \A k \in 0 .. m + 1 : Level(h, k) = Level(t, k)
    <3> TAKE k \in 0 .. m + 1
    <3>1. CASE k = 0
      BY <3>1
    <3>2. CASE k # 0
      <4>1. k - 1 \in 0 .. m
        BY <3>2
      <4>2. h[k - 1] = t[k - 1]
        BY <2>4, <4>1
      <4> HIDE DEF h
      <4> QED
        BY <4>2
    <3> QED
      BY <3>1, <3>2
  <2>6. h = [k \in 0 .. m + 1 |-> h[k]]
    OBVIOUS
  <2>7. h = [k \in 0 .. m + 1 |-> Level(h, k)]
    <3> HIDE DEF h, Level
    <3> QED
      BY <2>2, <2>5, <2>6
  <2>8. OutcomesTo(h, conflicts, branch, m + 1)
    <3> HIDE DEF h
    <3> QED
      BY <2>7 DEF OutcomesTo
  <2> QED
    BY <2>8
<1>3. n \in T
  <2> HIDE DEF T
  <2> QED
    BY <1>1, <1>2, NaturalInduction
<1> QED
  BY <1>3

\* Resolve unrolled.
LEMMA ResolveIs ==
    ASSUME NEW existing, NEW incoming, NEW strategy, NEW branch
    PROVE  \E f, o : LET top == Conflict(existing, incoming, strategy)
                     IN  /\ ConflictsTo(f, top, MaxDepth)
                         /\ OutcomesTo(o, f, branch, MaxDepth)
                         /\ Resolve(existing, incoming, strategy, branch)
                              = Outcome(top, branch, o[MaxDepth])
<1> DEFINE top == Conflict(existing, incoming, strategy)
           F == CHOOSE f : ConflictsTo(f, top, MaxDepth)
           O == CHOOSE o : OutcomesTo(o, F, branch, MaxDepth)
<1>0. MaxDepth \in Nat
  BY ArenaAssumption
<1>1. ConflictsTo(F, top, MaxDepth)
  <2> HIDE DEF top
  <2> QED
    BY <1>0, ConflictsExist
<1>2. OutcomesTo(O, F, branch, MaxDepth)
  <2> HIDE DEF F
  <2> QED
    BY <1>0, OutcomesExist
<1>3. Resolve(existing, incoming, strategy, branch) = Outcome(top, branch, O[MaxDepth])
  BY DEF Resolve, ConflictsTo, OutcomesTo
<1> QED
  BY <1>1, <1>2, <1>3

\* A conflict of trees resolves to a tree that has nothing of its own.
LEMMA ResolveSettles ==
    ASSUME NEW all, NEW strict, strict \in BOOLEAN, AreStrategies(all, strict),
           NEW existing, NEW incoming, NEW strategy \in all, NEW branch,
           IsTree(existing, 0, strict), IsTree(incoming, 0, strict)
    PROVE  Settles(Conflict(existing, incoming, strategy),
                   Resolve(existing, incoming, strategy, branch).state, 0, strict)
<1>1. PICK top : top = Conflict(existing, incoming, strategy)
  OBVIOUS
<1>2. PICK f, o : /\ ConflictsTo(f, top, MaxDepth)
                  /\ OutcomesTo(o, f, branch, MaxDepth)
                  /\ Resolve(existing, incoming, strategy, branch)
                       = Outcome(top, branch, o[MaxDepth])
  BY <1>1, ResolveIs
<1>3. PICK N \in Nat : N = MaxDepth
  BY ArenaAssumption
<1>4. /\ f[0] = ConflictsBelow(top)
      /\ \A m \in 0 .. N : m # 0 => f[m] = UNION {ConflictsBelow(c) : c \in f[m - 1]}
  BY <1>2, <1>3 DEF ConflictsTo
<1>5. \A m \in 0 .. N : \A c \in f[N - m] :
         o[m][c] = Outcome(c, branch, IF m = 0 THEN <<>> ELSE o[m - 1])
  BY <1>2, <1>3 DEF OutcomesTo
<1> DEFINE T == {m \in Nat : m <= N => \A c \in f[N - m] :
                    IsConflict(c, N - m + 1, all, strict) =>
                       Settles(c, o[m][c].state, N - m + 1, strict)}
<1>6. 0 \in T
  <2> SUFFICES ASSUME NEW c \in f[N - 0], IsConflict(c, N - 0 + 1, all, strict)
               PROVE  Settles(c, o[0][c].state, N - 0 + 1, strict)
    OBVIOUS
  <2>1. N - 0 + 1 = N + 1 /\ N + 1 \in Nat /\ 0 \in 0 .. N
    OBVIOUS
  <2>2. IsConflict(c, N + 1, all, strict)
    BY <2>1
  <2>3. ~HasFields(c.existing)
    <3>1. IsTree(c.existing, N + 1, strict)
      BY <2>2 DEF IsConflict
    <3>2. HasFields(c.existing) => N + 1 < MaxDepth
      BY <2>1, <3>1, TreeUnfold
    <3> QED
      BY <1>3, <3>2
  <2>4. ConflictsBelow(c) = {}
    BY <2>3 DEF ConflictsBelow, Combinable
  <2>5. PICK below : below = <<>>
    OBVIOUS
  <2>6. o[0][c] = Outcome(c, branch, below)
    BY <1>5, <2>1, <2>5
  <2>7. Settles(c, Outcome(c, branch, below).state, N + 1, strict)
    BY <2>1, <2>2, <2>4, OutcomeSettles
  <2> QED
    BY <2>1, <2>6, <2>7
<1>7. \A m \in Nat : m \in T => m + 1 \in T
  <2> SUFFICES ASSUME NEW m \in Nat, m \in T, m + 1 <= N,
                      NEW c \in f[N - (m + 1)],
                      IsConflict(c, N - (m + 1) + 1, all, strict)
               PROVE  Settles(c, o[m + 1][c].state, N - (m + 1) + 1, strict)
    OBVIOUS
  <2>1. PICK d \in Nat : d = N - m
    OBVIOUS
  <2>2. /\ N - (m + 1) + 1 = d /\ N - m + 1 = d + 1 /\ m <= N
        /\ m + 1 \in 0 .. N /\ m + 1 # 0 /\ (m + 1) - 1 = m
        /\ N - m \in 0 .. N /\ N - m # 0 /\ (N - m) - 1 = N - (m + 1)
    BY <2>1
  <2>3. PICK below : below = o[m]
    OBVIOUS
  <2>4. o[m + 1][c] = Outcome(c, branch, below)
    BY <1>5, <2>2, <2>3
  <2>5. f[N - m] = UNION {ConflictsBelow(e) : e \in f[N - (m + 1)]}
    BY <1>4, <2>2
  <2>6. ASSUME NEW e \in ConflictsBelow(c), IsConflict(e, d + 1, all, strict)
        PROVE  Settles(e, below[e].state, d + 1, strict)
    <3>1. e \in f[N - m]
      BY <2>5
    <3>2. IsConflict(e, N - m + 1, all, strict)
      BY <2>2, <2>6
    <3>3. Settles(e, o[m][e].state, N - m + 1, strict)
      BY <2>2, <3>1, <3>2
    <3> QED
      BY <2>2, <2>3, <3>3
  <2> HIDE DEF T
  <2>7. IsConflict(c, d, all, strict)
    BY <2>2
  <2>8. Settles(c, Outcome(c, branch, below).state, d, strict)
    BY <2>6, <2>7, OutcomeSettles
  <2> QED
    BY <2>2, <2>4, <2>8
<1>8. N \in T
  <2> HIDE DEF T
  <2> QED
    BY <1>6, <1>7, NaturalInduction
<1>9. PICK below : below = o[N]
  OBVIOUS
<1>10. ASSUME NEW e \in ConflictsBelow(top), IsConflict(e, 0 + 1, all, strict)
       PROVE  Settles(e, below[e].state, 0 + 1, strict)
  <2>1. N - N + 1 = 0 + 1 /\ N <= N /\ N - N = 0
    OBVIOUS
  <2>2. e \in f[N - N] /\ IsConflict(e, N - N + 1, all, strict)
    BY <1>4, <1>10, <2>1
  <2>3. Settles(e, o[N][e].state, N - N + 1, strict)
    BY <1>8, <2>1, <2>2
  <2> QED
    BY <1>9, <2>1, <2>3
<1>11. /\ top.existing = existing /\ top.incoming = incoming
       /\ top.strategy = strategy
  BY <1>1 DEF Conflict
<1> HIDE DEF T
<1>12. IsConflict(top, 0, all, strict)
  BY <1>11 DEF IsConflict
<1>13. Settles(top, Outcome(top, branch, below).state, 0, strict)
  BY <1>10, <1>12, OutcomeSettles
<1>14. Resolve(existing, incoming, strategy, branch) = Outcome(top, branch, below)
  BY <1>2, <1>3, <1>9
<1> QED
  BY <1>1, <1>13, <1>14

\* Under every name that is merged there is a tree, with nothing in it but what a
\* merging timeline has in that place.
Brings(merged, bs, strict) ==
    \A k \in DOMAIN merged :
        /\ IsTree(merged[k], 0, strict)
        /\ \A p, x : Leaf(merged[k], p, x) =>
              \E b \in Range(bs) : Has(timeline[b].arena, k, p, x)

\* What the merging timelines bring together, resolved where they meet.
LEMMA CombinedBrings ==
    ASSUME NEW all, NEW strict, strict \in BOOLEAN, AreStrategies(all, strict),
           Strategies \subseteq all, AreTimelines(timeline), AllTrees(timeline, strict),
           NEW bs \in Merging, \A b \in Range(bs) : Active(b),
           NEW resolution \in [Contested(bs) -> Strategies]
    PROVE  Brings(Combined(bs, resolution).merged, bs, strict)
<1>1. /\ Len(bs) \in {1, 2} /\ DOMAIN bs = 1 .. Len(bs)
      /\ \A i \in 1 .. Len(bs) : bs[i] \in Branch /\ bs[i] \in Range(bs)
  BY MergingIs DEF Range
<1>2. ASSUME NEW i \in 1 .. Len(bs), NEW k \in DOMAIN BindingsOf(bs[i])
      PROVE  /\ k \in Name
             /\ IsTree(BindingsOf(bs[i])[k], 0, strict)
             /\ \A p, x : Leaf(BindingsOf(bs[i])[k], p, x) =>
                   Has(timeline[bs[i]].arena, k, p, x)
  <2>1. timeline[bs[i]] # NoTimeline
    BY <1>1 DEF Active
  <2>2. Sound(timeline[bs[i]].arena) /\ AreTrees(timeline[bs[i]].arena, strict)
    BY <1>1, <2>1 DEF AreTimelines, AllTrees, IsTimeline
  <2> QED
    BY <2>2 DEF Sound, AreTrees, Has, BindingsOf
<1>3. PICK merged : merged = Combined(bs, resolution).merged
  OBVIOUS
<1>4. CASE Len(bs) = 1
  <2>1. 1 \in 1 .. Len(bs)
    BY <1>4
  <2>2. merged = BindingsOf(bs[1])
    BY <1>3, <1>4, CombinedOne
  <2>3. Brings(merged, bs, strict)
    BY <1>1, <1>2, <2>1, <2>2 DEF Brings
  <2> QED
    BY <1>3, <2>3
<1>5. CASE Len(bs) = 2
  <2> DEFINE one == BindingsOf(bs[1])
             two == BindingsOf(bs[2])
  <2>1. 1 \in 1 .. Len(bs) /\ 2 \in 1 .. Len(bs)
    BY <1>5
  <2>2. merged = [k \in DOMAIN one \union DOMAIN two |->
                    IF k \in DOMAIN one \intersect DOMAIN two
                    THEN Resolve(one[k], two[k], resolution[k], bs[2]).state
                    ELSE IF k \in DOMAIN one THEN one[k] ELSE two[k]]
    BY <1>3, <1>5, CombinedPair
  <2>3. \A k \in DOMAIN one :
           /\ k \in Name
           /\ IsTree(one[k], 0, strict)
           /\ \A p, x : Leaf(one[k], p, x) => Has(timeline[bs[1]].arena, k, p, x)
    BY <1>2, <2>1
  <2>4. \A k \in DOMAIN two :
           /\ k \in Name
           /\ IsTree(two[k], 0, strict)
           /\ \A p, x : Leaf(two[k], p, x) => Has(timeline[bs[2]].arena, k, p, x)
    BY <1>2, <2>1
  <2>5. \A k \in DOMAIN one \intersect DOMAIN two : k \in Contested(bs)
    BY <1>1, <2>1, <2>3 DEF Contested, BindingsOf
  <2> HIDE DEF one, two
  <2>6. ASSUME NEW k \in DOMAIN merged
        PROVE  /\ IsTree(merged[k], 0, strict)
               /\ \A p, x : Leaf(merged[k], p, x) =>
                     \E b \in Range(bs) : Has(timeline[b].arena, k, p, x)
    <3>1. CASE k \in DOMAIN one \intersect DOMAIN two
      <4>1. PICK c : c = Conflict(one[k], two[k], resolution[k])
        OBVIOUS
      <4>2. merged[k] = Resolve(one[k], two[k], resolution[k], bs[2]).state
        BY <2>2, <3>1
      <4>3. resolution[k] \in all
        BY <2>5, <3>1
      <4>4. Settles(c, merged[k], 0, strict)
        BY <2>3, <2>4, <3>1, <4>1, <4>2, <4>3, ResolveSettles
      <4>5. c.existing = one[k] /\ c.incoming = two[k]
        BY <4>1 DEF Conflict
      <4>6. /\ \A p, x : Leaf(one[k], p, x) => Has(timeline[bs[1]].arena, k, p, x)
            /\ \A p, x : Leaf(two[k], p, x) => Has(timeline[bs[2]].arena, k, p, x)
        BY <2>3, <2>4, <3>1
      <4> QED
        BY <1>1, <2>1, <4>4, <4>5, <4>6 DEF Settles
    <3>2. CASE k \in DOMAIN one /\ k \notin DOMAIN two
      <4>1. merged[k] = one[k]
        BY <2>2, <3>2
      <4> QED
        BY <1>1, <2>1, <2>3, <3>2, <4>1
    <3>3. CASE k \notin DOMAIN one
      <4>1. k \in DOMAIN two /\ merged[k] = two[k]
        BY <2>2, <3>3
      <4> QED
        BY <1>1, <2>1, <2>4, <4>1
    <3> QED
      BY <3>1, <3>2, <3>3
  <2>7. Brings(merged, bs, strict)
    BY <2>6 DEF Brings
  <2> QED
    BY <1>3, <2>7
<1> QED
  BY <1>1, <1>4, <1>5

\* What an arena has it had before, or it comes from a merging timeline.
Inherits(after, before, bs) ==
    \A v, p, x : Has(after, v, p, x) =>
       \/ Has(before, v, p, x)
       \/ \E b \in Range(bs) : Has(timeline[b].arena, v, p, x)

\* An arena that draws on what is merged.
LEMMA DrawnTrees ==
    ASSUME NEW before, NEW after, NEW strict, AreTrees(before, strict), NEW bs,
           NEW merged, Brings(merged, bs, strict), Draws(after, before, merged)
    PROVE  AreTrees(after, strict) /\ Inherits(after, before, bs)
<1>1. ASSUME NEW v \in DOMAIN after.bindings
      PROVE  /\ IsTree(after.bindings[v], 0, strict)
             /\ \A p, x : Leaf(after.bindings[v], p, x) =>
                  \/ Has(before, v, p, x)
                  \/ \E b \in Range(bs) : Has(timeline[b].arena, v, p, x)
  <2>1. CASE v \in DOMAIN before.bindings /\ after.bindings[v] = before.bindings[v]
    BY <2>1 DEF AreTrees, Has
  <2>2. CASE v \in DOMAIN merged /\ after.bindings[v] = merged[v]
    BY <2>2 DEF Brings
  <2> QED
    BY <2>1, <2>2 DEF Draws
<1> QED
  BY <1>1 DEF AreTrees, Has, Inherits

-----------------------------------------------------------------------------
(* Types *)

\* An arena of the capacities of the program, with valid values that are valid
\* all through.
WellTyped(arena) == arena.capacity \in Capacities /\ AreTrees(arena, TRUE)

\* Such a timeline: its snapshots are of the same form.
IsTyped(t) ==
    /\ IsTimeline(t)
    /\ WellTyped(t.arena)
    /\ DOMAIN t.anchors \subseteq AnchorName
    /\ \A a \in DOMAIN t.anchors : WellTyped(t.anchors[a])
    /\ t.parent \in Branch

\* Such timelines; main is always there.
AllTyped(ts) ==
    /\ AreTimelines(ts)
    /\ ts[Root] # NoTimeline
    /\ \A c \in Branch : ts[c] # NoTimeline => IsTyped(ts[c])

\* Their values are well formed.
LEMMA TypedTrees ==
    ASSUME NEW ts, AllTyped(ts)
    PROVE  AreTimelines(ts) /\ AllTrees(ts, TRUE)
  BY DEF AllTyped, IsTyped, WellTyped, AllTrees

\* A timeline keeps its snapshots and its parent when its arena changes.
LEMMA TypedUpdate ==
    ASSUME NEW t, IsTyped(t), NEW arena, Sound(arena), WellTyped(arena)
    PROVE  IsTyped([t EXCEPT !.arena = arena])
<1>1. PICK u : u = [t EXCEPT !.arena = arena]
  OBVIOUS
<1>2. t = [arena |-> t.arena, anchors |-> t.anchors, parent |-> t.parent]
  BY DEF IsTyped, IsTimeline
<1>3. u = [arena |-> arena, anchors |-> t.anchors, parent |-> t.parent]
  BY <1>1, <1>2
<1>4. u.arena = arena /\ u.anchors = t.anchors /\ u.parent = t.parent
  BY <1>3
<1>5. IsTimeline(u)
  BY <1>1, TimelineUpdate DEF IsTyped
<1>6. IsTyped(u)
  BY <1>4, <1>5 DEF IsTyped
<1> QED
  BY <1>1, <1>6

\* Timelines that only lose keep their types.
LEMMA DwindlingTyped ==
    ASSUME NEW ts, AllTyped(ts), NEW us, Dwindling(ts, us, TRUE)
    PROVE  AllTyped(us)
<1>1. ASSUME NEW c \in Branch, us[c] # NoTimeline
      PROVE  IsTyped(us[c])
  <2>1. ts[c] # NoTimeline /\ Frame(ts[c], us[c]) /\ AreTrees(us[c].arena, TRUE)
    BY <1>1 DEF Dwindling, Dwindles
  <2>2. IsTimeline(us[c])
    BY <1>1 DEF Dwindling, AreTimelines
  <2>3. IsTyped(ts[c])
    BY <2>1 DEF AllTyped
  <2> QED
    BY <2>1, <2>2, <2>3 DEF IsTyped, WellTyped, Frame
<1>2. us[Root] # NoTimeline
  BY EntangledAssumption DEF AllTyped, Dwindling
<1> QED
  BY <1>1, <1>2 DEF AllTyped, Dwindling

\* So do timelines of which one is replaced by a typed one.
LEMMA ReplaceTyped ==
    ASSUME NEW ts, AllTyped(ts), NEW b \in Branch, NEW u, IsTyped(u)
    PROVE  AllTyped(Replaced(ts, b, u))
<1>1. PICK us : us = Replaced(ts, b, u)
  OBVIOUS
<1>2. AreTimelines(us) /\ us[b] = u /\ \A c \in Branch \ {b} : us[c] = ts[c]
  BY <1>1, ReplaceTimeline DEF AllTyped, IsTyped
<1>3. u # NoTimeline
  BY TimelineIsActive DEF IsTyped
<1>4. \A c \in Branch : us[c] # NoTimeline => IsTyped(us[c])
  BY <1>2 DEF AllTyped
<1>5. us[Root] # NoTimeline
  BY <1>2, <1>3, EntangledAssumption DEF AllTyped
<1>6. AllTyped(us)
  BY <1>2, <1>4, <1>5 DEF AllTyped
<1> QED
  BY <1>1, <1>6

\* So do timelines of which one has a new arena.
LEMMA SetTyped ==
    ASSUME NEW ts, AllTyped(ts), NEW b \in Branch, ts[b] # NoTimeline,
           NEW arena, Sound(arena), WellTyped(arena)
    PROVE  AllTyped(SetArena(ts, b, arena))
<1>1. PICK u : u = [ts[b] EXCEPT !.arena = arena]
  OBVIOUS
<1>2. IsTyped(u)
  BY <1>1, TypedUpdate DEF AllTyped
<1>3. SetArena(ts, b, arena) = Replaced(ts, b, u)
  <2>1. ts = [c \in Branch |-> ts[c]]
    BY DEF AllTyped, AreTimelines
  <2> QED
    BY <1>1, <2>1 DEF SetArena, Replaced
<1>4. AllTyped(Replaced(ts, b, u))
  BY <1>2, ReplaceTyped
<1> QED
  BY <1>3, <1>4

\* What evaluating an expression leaves is typed.
LEMMA TakeoverTyped ==
    ASSUME AllTyped(timeline), NEW b \in Branch, Active(b), NEW e, NEW value,
           Takeover(b, e, value, TRUE)
    PROVE  /\ AllTyped(value.timelines)
           /\ value.timelines[b] # NoTimeline
           /\ Sound(value.timelines[b].arena) /\ WellTyped(value.timelines[b].arena)
<1>1. Dwindling(timeline, value.timelines, TRUE)
  BY DEF Takeover
<1>2. AllTyped(value.timelines)
  BY <1>1, DwindlingTyped
<1>3. value.timelines[b] # NoTimeline
  BY <1>1 DEF Dwindling, Active
<1> QED
  BY <1>2, <1>3 DEF AllTyped, IsTyped, IsTimeline

\* let v = <literal>
LEMMA LetTyped ==
    ASSUME AllTyped(timeline), NEW b \in Branch, NEW v \in Name,
           NEW kind \in Literals, NEW fs \in NonEmpty(Field), Let(b, v, kind, fs)
    PROVE  AllTyped(timeline')
<1>1. PICK state : state = Literal(kind, nextValue, fs)
  OBVIOUS
<1>2. PICK before : before = timeline[b].arena
  OBVIOUS
<1>3. PICK arena : arena = Insert(before, v, state).arena
  OBVIOUS
<1>4. /\ timeline[b] # NoTimeline
      /\ NestsWithin(state, 0)
      /\ timeline' = SetArena(timeline, b, arena)
  BY <1>1, <1>2, <1>3 DEF Let, Executes, Active
<1>5. fs \subseteq Field
  BY DEF NonEmpty
<1>6. IsTree(state, 0, TRUE)
  BY <1>1, <1>4, <1>5, LiteralTree
<1>7. Sound(before) /\ WellTyped(before)
  BY <1>2, <1>4 DEF AllTyped, IsTyped, IsTimeline
<1>8. Receives(before, arena, v, state, TRUE)
  BY <1>3, <1>6, <1>7, InsertReceives DEF WellTyped
<1>9. Sound(arena) /\ WellTyped(arena)
  BY <1>7, <1>8 DEF Receives, WellTyped
<1> QED
  BY <1>4, <1>9, SetTyped

\* Where a value goes when it is bound.
LEMMA BindTyped ==
    ASSUME AllTyped(timeline), NEW b \in Branch, Active(b), NEW e, NEW value,
           Takeover(b, e, value, TRUE), value.error = "none", NEW v \in Name
    PROVE  AllTyped(SetArena(value.timelines, b,
                             Insert(value.timelines[b].arena, v, value.state).arena))
<1>1. PICK before : before = value.timelines[b].arena
  OBVIOUS
<1>2. PICK arena : arena = Insert(before, v, value.state).arena
  OBVIOUS
<1>3. /\ AllTyped(value.timelines) /\ value.timelines[b] # NoTimeline
      /\ Sound(before) /\ WellTyped(before)
  BY <1>1, TakeoverTyped
<1>4. IsTree(value.state, 0, TRUE)
  BY DEF Takeover
<1>5. Receives(before, arena, v, value.state, TRUE)
  BY <1>2, <1>3, <1>4, InsertReceives DEF WellTyped
<1>6. Sound(arena) /\ WellTyped(arena)
  BY <1>3, <1>5 DEF Receives, WellTyped
<1>7. AllTyped(SetArena(value.timelines, b, arena))
  BY <1>3, <1>6, SetTyped
<1> QED
  BY <1>1, <1>2, <1>7

\* let v = e
LEMMA AssignTyped ==
    ASSUME AllTyped(timeline), NEW b \in Branch, NEW v \in Name,
           NEW e \in Expressions, Assign(b, v, e)
    PROVE  AllTyped(timeline')
<1>1. Active(b)
  BY DEF Assign, Executes
<1>2. PICK value : value = Evaluate(b, e)
  OBVIOUS
<1>3. Takeover(b, e, value, TRUE)
  BY <1>1, <1>2, EvaluateTakesOver, TypedTrees
<1>4. CASE value.error # "none"
  <2>1. timeline' = value.timelines
    BY <1>2, <1>4 DEF Assign
  <2> QED
    BY <1>1, <1>3, <2>1, TakeoverTyped
<1>5. CASE value.error = "none"
  <2>1. timeline' = SetArena(value.timelines, b,
                       Insert(value.timelines[b].arena, v, value.state).arena)
    BY <1>2, <1>5 DEF Assign
  <2> QED
    BY <1>1, <1>3, <1>5, <2>1, BindTyped
<1> QED
  BY <1>4, <1>5

\* match entropy e
LEMMA MatchEntropyTyped ==
    ASSUME AllTyped(timeline), NEW b \in Branch, NEW v \in Name,
           NEW e \in Expressions, MatchEntropy(b, e, v)
    PROVE  AllTyped(timeline')
<1>1. Active(b)
  BY DEF MatchEntropy, Executes
<1>2. PICK value : value = EvaluateEntropic(b, e)
  OBVIOUS
<1>3. Takeover(b, e, value, TRUE)
  BY <1>1, <1>2, EvaluateEntropicTakesOver, TypedTrees
<1>4. CASE value.error # "none"
  <2>1. timeline' = value.timelines
    BY <1>2, <1>4 DEF MatchEntropy
  <2> QED
    BY <1>1, <1>3, <2>1, TakeoverTyped
<1>5. CASE value.error = "none"
  <2>1. timeline' = SetArena(value.timelines, b,
                       Insert(value.timelines[b].arena, v, value.state).arena)
    BY <1>2, <1>5 DEF MatchEntropy
  <2> QED
    BY <1>1, <1>3, <1>5, <2>1, BindTyped
<1> QED
  BY <1>4, <1>5

\* e as a statement
LEMMA ExpressionTyped ==
    ASSUME AllTyped(timeline), NEW b \in Branch, NEW e \in Expressions,
           Expression(b, e)
    PROVE  AllTyped(timeline')
<1>1. Active(b)
  BY DEF Expression, Executes
<1>2. PICK value : value = Evaluate(b, e)
  OBVIOUS
<1>3. Takeover(b, e, value, TRUE)
  BY <1>1, <1>2, EvaluateTakesOver, TypedTrees
<1>4. timeline' = value.timelines
  BY <1>2 DEF Expression
<1> QED
  BY <1>1, <1>3, <1>4, TakeoverTyped

\* w.path = e
LEMMA FieldUpdateTyped ==
    ASSUME AllTyped(timeline), NEW b \in Branch, NEW w \in Name, NEW path \in Paths,
           NEW e \in Expressions, FieldUpdate(b, w, path, e)
    PROVE  AllTyped(timeline')
<1>1. Active(b)
  BY DEF FieldUpdate, Executes
<1>2. PICK value : value = Evaluate(b, e)
  OBVIOUS
<1>3. Takeover(b, e, value, TRUE) /\ (value.error = "none" => IsValid(value.state))
  BY <1>1, <1>2, EvaluateTakesOver, TypedTrees
<1>4. CASE value.error # "none"
  <2>1. timeline' = value.timelines
    BY <1>2, <1>4 DEF FieldUpdate
  <2> QED
    BY <1>1, <1>3, <2>1, TakeoverTyped
<1>5. CASE value.error = "none"
  <2>1. PICK before : before = value.timelines[b].arena
    OBVIOUS
  <2>2. PICK arena : arena = UpdateDeepField(before, w, path, value.state.payload).arena
    OBVIOUS
  <2>3. /\ NestsWithin(value.state, Len(path))
        /\ timeline' = SetArena(value.timelines, b, arena)
    BY <1>2, <1>5, <2>1, <2>2 DEF FieldUpdate
  <2>4. /\ AllTyped(value.timelines) /\ value.timelines[b] # NoTimeline
        /\ Sound(before) /\ WellTyped(before)
    BY <1>1, <1>3, <2>1, TakeoverTyped
  <2>5. IsTree(value.state, Len(path), TRUE) /\ IsValid(value.state)
    BY <1>3, <1>5, <2>3 DEF Takeover, IsTree
  <2>6. UpdatedAt(before, arena, w, path, value.state, TRUE)
    BY <2>2, <2>4, <2>5, UpdateReceives DEF WellTyped
  <2>7. Sound(arena) /\ arena.capacity = before.capacity
    BY <2>2, <2>4, UpdateFits DEF Fits
  <2>8. WellTyped(arena)
    BY <2>4, <2>6, <2>7 DEF UpdatedAt, WellTyped
  <2> QED
    BY <2>3, <2>4, <2>7, <2>8, SetTyped
<1> QED
  BY <1>4, <1>5

\* A value decays.
LEMMA DecayVariableTyped ==
    ASSUME AllTyped(timeline), NEW b \in Branch, NEW v, DecayVariable(b, v)
    PROVE  AllTyped(timeline')
<1>1. PICK before, arena : /\ before = timeline[b].arena
                           /\ arena = Decay(before, v).arena
  OBVIOUS
<1>2. timeline[b] # NoTimeline /\ timeline' = SetArena(timeline, b, arena)
  BY <1>1 DEF DecayVariable, Executes, Active
<1>3. Sound(before) /\ WellTyped(before)
  BY <1>1, <1>2 DEF AllTyped, IsTyped, IsTimeline
<1>4. Dwindles(before, arena, TRUE)
  BY <1>1, <1>3, DecayDwindles DEF WellTyped
<1>5. Sound(arena) /\ arena.capacity = before.capacity
  BY <1>1, <1>3, DecayHarmless DEF Harmless, Shrinks
<1>6. WellTyped(arena)
  BY <1>3, <1>4, <1>5 DEF WellTyped, Dwindles
<1> QED
  BY <1>2, <1>5, <1>6, SetTyped

\* isolate sets one of the capacities of the program.
LEMMA IsolateTyped ==
    ASSUME AllTyped(timeline), NEW b \in Branch, NEW capacity \in Capacities,
           Isolate(b, capacity)
    PROVE  AllTyped(timeline')
<1>1. IsTyped(timeline[b])
  BY DEF Isolate, Executes, Active, AllTyped
<1>2. PICK u : /\ timeline' = Replaced(timeline, b, u)
               /\ IsTimeline(u)
               /\ u.arena.capacity = capacity
               /\ u.arena.bindings = timeline[b].arena.bindings
               /\ u.anchors = timeline[b].anchors
               /\ u.parent = timeline[b].parent
  BY <1>1, IsolateReplaces DEF IsTyped
<1>3. WellTyped(u.arena)
  BY <1>1, <1>2 DEF IsTyped, WellTyped, AreTrees
<1>4. IsTyped(u)
  BY <1>1, <1>2, <1>3 DEF IsTyped
<1> QED
  BY <1>2, <1>4, ReplaceTyped

\* A new snapshot is a copy of the arena.
LEMMA SetAnchorTyped ==
    ASSUME AllTyped(timeline), NEW b \in Branch, NEW a \in AnchorName, SetAnchor(b, a)
    PROVE  AllTyped(timeline')
<1>1. IsTyped(timeline[b])
  BY DEF SetAnchor, Executes, Active, AllTyped
<1>2. PICK u : /\ timeline' = Replaced(timeline, b, u)
               /\ IsTimeline(u)
               /\ u.arena = timeline[b].arena
               /\ u.anchors = Put(timeline[b].anchors, a, timeline[b].arena)
               /\ u.parent = timeline[b].parent
  BY <1>1, SetAnchorReplaces DEF IsTyped
<1>3. /\ DOMAIN u.anchors = DOMAIN timeline[b].anchors \union {a}
      /\ \A x \in DOMAIN u.anchors : \/ u.anchors[x] = timeline[b].arena
                                     \/ /\ x \in DOMAIN timeline[b].anchors
                                        /\ u.anchors[x] = timeline[b].anchors[x]
  BY <1>2 DEF Put
<1>4. IsTyped(u)
  BY <1>1, <1>2, <1>3 DEF IsTyped
<1> QED
  BY <1>2, <1>4, ReplaceTyped

\* A return to a snapshot: of rewind, and of a merge that reverts.
LEMMA ToAnchorTyped ==
    ASSUME AllTyped(timeline), NEW b, Active(b), NEW a,
           a \in DOMAIN timeline[b].anchors,
           timeline' = SetArena(timeline, b, timeline[b].anchors[a])
    PROVE  AllTyped(timeline')
<1>1. CASE b \in Branch
  <2>1. PICK arena : arena = timeline[b].anchors[a]
    OBVIOUS
  <2>2. timeline[b] # NoTimeline /\ IsTyped(timeline[b])
    BY <1>1 DEF Active, AllTyped
  <2>3. Sound(arena) /\ WellTyped(arena)
    BY <2>1, <2>2 DEF IsTyped, IsTimeline
  <2> QED
    BY <1>1, <2>1, <2>2, <2>3, SetTyped
<1>2. CASE b \notin Branch
  <2>1. DOMAIN timeline = Branch
    BY DEF AllTyped, AreTimelines
  <2>2. timeline' = timeline
    BY <1>2, <2>1 DEF SetArena, AllTyped, AreTimelines
  <2> QED
    BY <2>2
<1> QED
  BY <1>1, <1>2

\* commit forgets the snapshots and what has been consumed.
LEMMA CommitTyped ==
    ASSUME AllTyped(timeline), NEW b \in Branch, Commit(b)
    PROVE  AllTyped(timeline')
<1>1. IsTyped(timeline[b]) /\ AreTimelines(timeline)
  BY DEF Commit, Executes, Active, AllTyped
<1>2. PICK u : /\ timeline' = Replaced(timeline, b, u)
               /\ IsTimeline(u)
               /\ u.arena = CompactConsumed(timeline[b].arena)
               /\ DOMAIN u.anchors = {}
               /\ u.parent = timeline[b].parent
  BY <1>1, CommitReplaces DEF IsTyped
<1>3. Sound(timeline[b].arena) /\ AreTrees(timeline[b].arena, TRUE)
  BY <1>1 DEF IsTyped, IsTimeline, WellTyped
<1>4. AreTrees(u.arena, TRUE)
  BY <1>2, <1>3, CompactDwindles DEF Dwindles
<1>5. u.arena.capacity = timeline[b].arena.capacity
  BY <1>2, <1>3, CompactSound DEF Shrinks
<1>6. IsTyped(u)
  BY <1>1, <1>2, <1>4, <1>5 DEF IsTyped, WellTyped
<1> QED
  BY <1>2, <1>6, ReplaceTyped

\* A new timeline has a copy of the arena of its parent.
LEMMA SplitTyped ==
    ASSUME AllTyped(timeline), NEW p \in Branch, NEW c \in Branch, Split(p, c)
    PROVE  AllTyped(timeline')
<1>1. IsTyped(timeline[p])
  BY DEF Split, Executes, Active, AllTyped
<1>2. PICK u : u = NewTimeline(timeline[p].arena, p)
  OBVIOUS
<1>3. timeline' = Replaced(timeline, c, u)
  BY <1>2 DEF Split, Replaced
<1>4. /\ u.arena = timeline[p].arena /\ u.parent = p /\ DOMAIN u.anchors = {}
      /\ u = [arena |-> u.arena, anchors |-> u.anchors, parent |-> u.parent]
  BY <1>2, EmptyDomain DEF NewTimeline
<1>5. IsTimeline(u)
  BY <1>1, <1>4 DEF IsTyped, IsTimeline
<1>6. IsTyped(u)
  BY <1>1, <1>4, <1>5 DEF IsTyped
<1> QED
  BY <1>3, <1>6, ReplaceTyped

\* No merge of the program combines field by field: what is left when a strategy
\* that does so puts valid and invalid fields together is not well formed.
PlainMerges ==
    "merge" \in Stmts => \A s \in Strategies : s.kind \in KnownKinds \ PerFieldKinds

\* What merges is well formed, and so is what the parent has afterwards.
LEMMA MergeTyped ==
    ASSUME PlainMerges, AllTyped(timeline), NEW t \in Branch, NEW bs \in Merging,
           Merge(bs, t)
    PROVE  AllTyped(timeline')
<1>1. Active(t) /\ \A b \in Range(bs) : Active(b) /\ b # Root
  BY DEF Merge, Executes
<1>2. AreStrategies(Strategies, TRUE)
  BY DEF Merge, Executes, PlainMerges, AreStrategies
<1>3. AreTimelines(timeline) /\ AllTrees(timeline, TRUE)
  BY TypedTrees
<1>4. CASE Reverts
  BY <1>4, ToAnchorTyped DEF Reverts
<1>5. ASSUME NEW resolution \in [Contested(bs) -> Strategies], NEW merged, NEW insert,
             merged = Combined(bs, resolution).merged, Delivers(insert, merged, bs, t)
      PROVE  AllTyped(timeline')
  <2>1. Brings(merged, bs, TRUE)
    <3>1. Strategies \subseteq Strategies /\ TRUE \in BOOLEAN
      OBVIOUS
    <3> QED
      BY <1>1, <1>2, <1>3, <1>5, <3>1, CombinedBrings
  <2>2. IsTyped(timeline[t])
    BY <1>1 DEF AllTyped, Active
  <2>3. AreTrees(insert.arena, TRUE)
    <3>1. Draws(insert.arena, timeline[t].arena, merged)
      BY <1>5 DEF Delivers
    <3> QED
      BY <2>1, <2>2, <3>1, DrawnTrees DEF IsTyped, WellTyped
  <2>4. Sound(insert.arena) /\ WellTyped(insert.arena)
    BY <1>5, <2>2, <2>3 DEF Delivers, Fits, IsTyped, WellTyped
  <2>5. PICK u : u = [timeline[t] EXCEPT !.arena = insert.arena]
    OBVIOUS
  <2>6. IsTyped(u) /\ u # NoTimeline
    BY <2>2, <2>4, <2>5, TypedUpdate, TimelineIsActive DEF IsTyped
  <2>7. \A c \in Branch : timeline'[c] \in {NoTimeline, timeline[c], u}
    BY <1>5, <2>5 DEF Delivers
  <2>8. timeline'[Root] \in {timeline[Root], u}
    BY <1>1, <1>5, <2>5, EntangledAssumption DEF Delivers
  <2>9. AreTimelines(timeline')
    BY <1>1, <1>3, <1>5, DeliversKeeps DEF StepKeeps
  <2> QED
    BY <2>6, <2>7, <2>8, <2>9 DEF AllTyped
<1> QED
  BY <1>3, <1>4, <1>5, MergeCases

\* The history of what was spent: a count for every scalar that was.
Counts(sp) == \A x \in DOMAIN sp : sp[x] \in Nat \ {0}

\* What a statement does beside the timelines.
Bookkeeping ==
    /\ AreGroups(groups')
    /\ nextValue' \in 1 .. MaxValue + 1
    /\ Counts(spent')

\* A literal takes the next number, as long as there is one.
LEMMA LetBooks ==
    ASSUME AreGroups(groups), nextValue \in 1 .. MaxValue + 1, Counts(spent),
           NEW b, NEW v, NEW kind, NEW fs, Let(b, v, kind, fs)
    PROVE  Bookkeeping
<1>1. /\ groups' = groups /\ spent' = spent
      /\ nextValue <= MaxValue /\ nextValue' = nextValue + 1
  BY DEF Let
<1>2. MaxValue \in Nat
  BY EntangledAssumption
<1>3. nextValue' \in 1 .. MaxValue + 1
  BY <1>1, <1>2
<1> QED
  BY <1>1, <1>3 DEF Bookkeeping, AreGroups, Counts

\* An expression counts what it spends.
LEMMA ExpressionBooks ==
    ASSUME AreGroups(groups), nextValue \in 1 .. MaxValue + 1, Counts(spent),
           NEW b, NEW e, Expression(b, e)
    PROVE  Bookkeeping
<1>1. groups' = groups /\ nextValue' = nextValue
  BY DEF Expression
<1>2. CASE spent' = spent
  BY <1>1, <1>2 DEF Bookkeeping, AreGroups, Counts
<1>3. CASE spent' # spent
  <2>1. PICK value : value = Evaluate(b, e)
    OBVIOUS
  <2>2. PICK taken : taken = Scalars(value.state)
    OBVIOUS
  <2>3. spent' = [x \in DOMAIN spent \union taken |->
                    IF x \in taken THEN TimesSpent(x) + 1 ELSE spent[x]]
    BY <1>3, <2>1, <2>2 DEF Expression, Spend
  <2>4. \A x : TimesSpent(x) \in Nat
    BY DEF TimesSpent, Counts
  <2>5. ASSUME NEW x \in DOMAIN spent'
        PROVE  spent'[x] \in Nat \ {0}
    <3>1. CASE x \in taken
      <4>1. spent'[x] = TimesSpent(x) + 1
        BY <2>3, <3>1
      <4> QED
        BY <2>4, <4>1
    <3>2. CASE x \notin taken
      BY <2>3, <3>2 DEF Counts
    <3> QED
      BY <3>1, <3>2
  <2> QED
    BY <1>1, <2>5 DEF Bookkeeping, AreGroups, Counts
<1> QED
  BY <1>2, <1>3

\* The inductive invariant for types.
TypesKept ==
    /\ AllTyped(timeline)
    /\ AreGroups(groups)
    /\ nextValue \in 1 .. MaxValue + 1
    /\ Counts(spent)

\* Where nothing but the timelines changes.
LEMMA SameBooks ==
    ASSUME TypesKept, UNCHANGED <<groups, nextValue, spent>>
    PROVE  Bookkeeping
  BY DEF TypesKept, Bookkeeping, AreGroups, Counts

\* main is there at first, with an empty arena.
LEMMA InitTypes ==
    ASSUME Init
    PROVE  TypesKept
<1>1. nextValue = 1 /\ groups = <<>> /\ DOMAIN spent = {}
  BY EmptyDomain DEF Init
<1>2. AreGroups(groups) /\ Counts(spent) /\ nextValue \in 1 .. MaxValue + 1
  BY <1>1, EntangledAssumption DEF AreGroups, Counts
<1>3. PICK capacity \in Capacities :
         timeline = [b \in Branch |-> IF b = Root
                                      THEN NewTimeline(NewArena(capacity), Root)
                                      ELSE NoTimeline]
  BY DEF Init
<1>4. PICK u : u = NewTimeline(NewArena(capacity), Root)
  OBVIOUS
<1>5. AreTimelines(timeline) /\ timeline[Root] = u
  BY <1>3, <1>4, InitSound, EntangledAssumption
<1>6. /\ DOMAIN u.arena.bindings = {} /\ DOMAIN u.anchors = {}
      /\ u.arena.capacity = capacity /\ u.parent = Root
  BY <1>4, EmptyDomain DEF NewTimeline, NewArena
<1>7. IsTimeline(u) /\ u # NoTimeline
  <2>1. u # NoTimeline
    BY <1>4 DEF NewTimeline, NoTimeline
  <2> QED
    BY <1>5, <2>1, EntangledAssumption DEF AreTimelines
<1>8. IsTyped(u)
  BY <1>6, <1>7, EntangledAssumption DEF IsTyped, WellTyped, AreTrees
<1>9. \A c \in Branch : timeline[c] \in {u, NoTimeline}
  BY <1>3, <1>4
<1> QED
  BY <1>2, <1>5, <1>7, <1>8, <1>9 DEF TypesKept, AllTyped

\* Statements on values keep the types.
LEMMA ValueStatementTypes ==
    ASSUME TypesKept, NEW b \in Branch, ValueStatement(b)
    PROVE  AllTyped(timeline') /\ Bookkeeping
<1>0. AllTyped(timeline)
  BY DEF TypesKept
<1>1. CASE \E v \in Name, kind \in Literals, fs \in NonEmpty(Field) :
             Let(b, v, kind, fs)
  BY <1>0, <1>1, LetTyped, LetBooks DEF TypesKept
<1>2. CASE \E v \in Name, e \in Expressions : Assign(b, v, e)
  <2>1. UNCHANGED <<groups, nextValue, spent>>
    BY <1>2 DEF Assign
  <2> QED
    BY <1>0, <1>2, <2>1, AssignTyped, SameBooks
<1>3. CASE \E v \in Name, e \in Expressions : MatchEntropy(b, e, v)
  <2>1. UNCHANGED <<groups, nextValue, spent>>
    BY <1>3 DEF MatchEntropy
  <2> QED
    BY <1>0, <1>3, <2>1, MatchEntropyTyped, SameBooks
<1>4. CASE \E w \in Name, path \in Paths, e \in Expressions :
             FieldUpdate(b, w, path, e)
  <2>1. UNCHANGED <<groups, nextValue, spent>>
    BY <1>4 DEF FieldUpdate
  <2> QED
    BY <1>0, <1>4, <2>1, FieldUpdateTyped, SameBooks
<1>5. CASE \E e \in Expressions : Expression(b, e)
  BY <1>0, <1>5, ExpressionTyped, ExpressionBooks DEF TypesKept
<1>6. CASE \E v \in Name : DecayVariable(b, v)
  <2>1. UNCHANGED <<groups, nextValue, spent>>
    BY <1>6 DEF DecayVariable
  <2> QED
    BY <1>0, <1>6, <2>1, DecayVariableTyped, SameBooks
<1> QED
  BY <1>1, <1>2, <1>3, <1>4, <1>5, <1>6 DEF ValueStatement

\* So do statements on timelines.
LEMMA TimelineStatementTypes ==
    ASSUME PlainMerges, TypesKept, NEW b \in Branch, TimelineStatement(b)
    PROVE  AllTyped(timeline') /\ Bookkeeping
<1>0. AllTyped(timeline)
  BY DEF TypesKept
<1>1. CASE \E capacity \in Capacities : Isolate(b, capacity)
  <2>1. UNCHANGED <<groups, nextValue, spent>>
    BY <1>1 DEF Isolate
  <2> QED
    BY <1>0, <1>1, <2>1, IsolateTyped, SameBooks
<1>2. CASE \E a \in AnchorName : SetAnchor(b, a)
  <2>1. UNCHANGED <<groups, nextValue, spent>>
    BY <1>2 DEF SetAnchor
  <2> QED
    BY <1>0, <1>2, <2>1, SetAnchorTyped, SameBooks
<1>3. CASE \E a \in AnchorName : Rewind(b, a)
  <2>1. PICK a \in AnchorName : Rewind(b, a)
    BY <1>3
  <2>2. /\ Active(b) /\ a \in DOMAIN timeline[b].anchors
        /\ timeline' = SetArena(timeline, b, timeline[b].anchors[a])
        /\ UNCHANGED <<groups, nextValue, spent>>
    BY <2>1 DEF Rewind, Executes
  <2> QED
    BY <1>0, <2>2, ToAnchorTyped, SameBooks
<1>4. CASE Commit(b)
  <2>1. UNCHANGED <<groups, nextValue, spent>>
    BY <1>4 DEF Commit
  <2> QED
    BY <1>0, <1>4, <2>1, CommitTyped, SameBooks
<1>5. CASE \E names \in NonEmpty(Name) : Entangle(b, names)
  <2>1. /\ timeline' = timeline /\ UNCHANGED <<nextValue, spent>>
        /\ AreGroups(groups')
    BY <1>5, EntangleGroups DEF Entangle, TypesKept
  <2> QED
    BY <1>0, <2>1 DEF Bookkeeping, TypesKept, Counts
<1>6. CASE \E c \in Branch : Split(b, c)
  <2>1. PICK c \in Branch : Split(b, c)
    BY <1>6
  <2>2. AreGroups(groups') /\ UNCHANGED <<nextValue, spent>>
    BY <2>1, SplitGroups DEF Split, TypesKept
  <2>3. AllTyped(timeline')
    BY <1>0, <2>1, SplitTyped
  <2> QED
    BY <2>2, <2>3 DEF Bookkeeping, TypesKept, Counts
<1>7. CASE \E bs \in Merging : Merge(bs, b)
  <2>1. UNCHANGED <<groups, nextValue, spent>>
    BY <1>7 DEF Merge
  <2> QED
    BY <1>0, <1>7, <2>1, MergeTyped, SameBooks
<1> QED
  BY <1>1, <1>2, <1>3, <1>4, <1>5, <1>6, <1>7 DEF TimelineStatement

\* Every step keeps them.
LEMMA StepTypes ==
    ASSUME PlainMerges, TypesKept, [Next]_vars
    PROVE  TypesKept'
<1>1. CASE Next
  <2>1. AllTyped(timeline') /\ Bookkeeping
    BY <1>1, ValueStatementTypes, TimelineStatementTypes DEF Next
  <2> QED
    BY <2>1 DEF TypesKept, Bookkeeping, AllTyped, AreTimelines, AreGroups, Counts
<1>2. CASE UNCHANGED vars
  BY <1>2 DEF vars, TypesKept, AllTyped, AreTimelines, AreGroups, Counts
<1> QED
  BY <1>1, <1>2

\* An arena of well-formed values is an arena.
LEMMA TypedArena ==
    ASSUME NEW arena, Sound(arena), WellTyped(arena)
    PROVE  IsArena(arena)
<1>1. ASSUME NEW v \in DOMAIN arena.bindings
      PROVE  IsState(arena.bindings[v])
  <2>1. IsTree(arena.bindings[v], 0, TRUE)
    BY DEF WellTyped, AreTrees
  <2> QED
    BY <2>1 DEF IsTree, Made, IsState
<1> QED
  BY <1>1 DEF Sound, WellTyped, IsArena

\* The types are those of TypeOK.
LEMMA TypesAreOK ==
    ASSUME TypesKept
    PROVE  TypeOK
<1>1. ASSUME NEW b \in Branch, Active(b)
      PROVE  /\ IsArena(timeline[b].arena)
             /\ DOMAIN timeline[b].anchors \subseteq AnchorName
             /\ \A a \in DOMAIN timeline[b].anchors : IsArena(timeline[b].anchors[a])
             /\ timeline[b].parent \in Branch
  <2>1. IsTyped(timeline[b])
    BY <1>1 DEF TypesKept, AllTyped, Active
  <2> QED
    BY <2>1, TypedArena DEF IsTyped, IsTimeline
<1>2. Active(Root)
  BY DEF TypesKept, AllTyped, Active
<1>3. \A i \in DOMAIN groups : groups[i] \subseteq Branch \X Name
  BY DEF TypesKept, AreGroups
<1> QED
  BY <1>1, <1>2, <1>3 DEF TypesKept, Counts, TypeOK

\* TypeOK, for programs whose merges combine no fields (PlainMerges): no operation
\* of the arena, failing or not, leaves a hole in a value that is still valid, and
\* none of entangle, split and merge speaks of a timeline or a name there is not.
THEOREM TypesStayOK ==
    ASSUME PlainMerges
    PROVE  Spec => []TypeOK
<1>1. Init => TypesKept
  BY InitTypes
<1>2. TypesKept /\ [Next]_vars => TypesKept'
  BY StepTypes
<1>3. TypesKept => TypeOK
  BY TypesAreOK
<1> QED
  BY <1>1, <1>2, <1>3, PTL DEF Spec

=============================================================================
