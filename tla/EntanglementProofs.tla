-------------------------- MODULE EntanglementProofs --------------------------
(***************************************************************************)
(* Proof that no value is spent twice, whichever timelines take it whole   *)
(* or field by field, in programs that entangle what they copy.            *)
(*                                                                         *)
(* The invariant says where a scalar may be: at one place, the same on     *)
(* every timeline that holds it; and the timelines that hold it are in one *)
(* group with it and connected through their parents, so that who takes it *)
(* takes it from all, and a merge brings it to no timeline that is not kin.*)
(***************************************************************************)
EXTENDS ValueProofs

-----------------------------------------------------------------------------
(* Why no value is spent twice *)

\* A scalar is at one place, the same on every timeline that holds it.
OnePlace(ts) ==
    \A c, d \in Branch : \A v, w, p, q, x :
        Holds(ts, c, v, p, x) /\ Holds(ts, d, w, q, x) => v = w /\ p = q

\* What a literal is going to create is new.
Fresh(ts, n, sp) ==
    /\ \A c \in Branch : \A v, p, x : Holds(ts, c, v, p, x) =>
                                             x[1] \in Nat /\ x[1] < n
    /\ \A x \in DOMAIN sp : x[1] \in Nat /\ x[1] < n

\* What has been spent is nowhere.
Gone(ts, sp) ==
    \A x \in DOMAIN sp : /\ sp[x] = 1
                         /\ \A c \in Branch : \A v, p : ~Holds(ts, c, v, p, x)

\* Timelines of one group in which the name is entangled, connected through
\* their parents up to r.
Kin(ts, gs, anc, v, i, r, S) ==
    \A d \in S : /\ ts[d] # NoTimeline
                 /\ <<d, v>> \in gs[i]
                 /\ r \in anc[d]
                 /\ d = r \/ (d # Root /\ ts[d].parent \in S)

\* The timelines that hold a scalar in common are kin.
Linked(ts, gs, anc) ==
    \A c, d \in Branch : \A v, p, x :
        c # d /\ Holds(ts, c, v, p, x) /\ Holds(ts, d, v, p, x) =>
          \E i \in DOMAIN gs, r \in Branch, S \in SUBSET Branch :
             /\ \A a \in Branch : Holds(ts, a, v, p, x) => a \in S
             /\ Kin(ts, gs, anc, v, i, r, S)

\* The timelines from which an active one descends are active, and the way down
\* to it begins with a child.
Ancestry(ts, anc) ==
    /\ anc \in [Branch -> SUBSET Branch]
    /\ \A d \in Branch : ts[d] # NoTimeline =>
         /\ d \in anc[d]
         /\ \A a \in anc[d] :
              /\ ts[a] # NoTimeline
              /\ a # d => \E c \in Branch \ {Root} : /\ ts[c] # NoTimeline
                                                     /\ ts[c].parent = a
                                                     /\ c \in anc[d]

\* The program sets no anchors.
Unanchored(ts) == \A c \in Branch : ts[c] # NoTimeline => DOMAIN ts[c].anchors = {}

\* The timelines, with the groups, the number of the next literal and the history
\* of what was spent, are tidy: anc is the descent of each timeline.
Tidy(ts, gs, n, sp, anc) ==
    /\ AreTimelines(ts)
    /\ AllTrees(ts, FALSE)
    /\ Unanchored(ts)
    /\ OnePlace(ts)
    /\ Fresh(ts, n, sp)
    /\ Gone(ts, sp)
    /\ Ancestry(ts, anc)
    /\ Linked(ts, gs, anc)

\* Timelines keep their order while none comes, goes or changes its parent.
LEMMA AncestryKept ==
    ASSUME NEW ts, NEW us, NEW anc, Ancestry(ts, anc),
           \A c \in Branch : /\ us[c] # NoTimeline <=> ts[c] # NoTimeline
                             /\ ts[c] # NoTimeline => us[c].parent = ts[c].parent
    PROVE  /\ Ancestry(us, anc)
           /\ \A gs, v, i, r : \A S \in SUBSET Branch :
                 Kin(ts, gs, anc, v, i, r, S) => Kin(us, gs, anc, v, i, r, S)
<1>1. ASSUME NEW d \in Branch, us[d] # NoTimeline
      PROVE  /\ d \in anc[d]
             /\ \A a \in anc[d] :
                  /\ us[a] # NoTimeline
                  /\ a # d => \E c \in Branch \ {Root} : /\ us[c] # NoTimeline
                                                         /\ us[c].parent = a
                                                         /\ c \in anc[d]
  <2>1. ts[d] # NoTimeline /\ anc[d] \subseteq Branch
    BY <1>1 DEF Ancestry
  <2>2. d \in anc[d]
    BY <2>1 DEF Ancestry
  <2>3. ASSUME NEW a \in anc[d]
        PROVE  /\ us[a] # NoTimeline
               /\ a # d => \E c \in Branch \ {Root} : /\ us[c] # NoTimeline
                                                      /\ us[c].parent = a
                                                      /\ c \in anc[d]
    <3>1. a \in Branch /\ ts[a] # NoTimeline
      BY <2>1, <2>3 DEF Ancestry
    <3>2. ASSUME a # d
          PROVE  \E c \in Branch \ {Root} : /\ us[c] # NoTimeline
                                            /\ us[c].parent = a
                                            /\ c \in anc[d]
      <4>1. PICK c \in Branch \ {Root} : /\ ts[c] # NoTimeline
                                         /\ ts[c].parent = a
                                         /\ c \in anc[d]
        BY <2>1, <2>3, <3>2 DEF Ancestry
      <4> QED
        BY <4>1
    <3> QED
      BY <3>1, <3>2
  <2> QED
    BY <2>2, <2>3
<1>2. Ancestry(us, anc)
  BY <1>1 DEF Ancestry
<1>3. ASSUME NEW gs, NEW v, NEW i, NEW r, NEW S \in SUBSET Branch,
             Kin(ts, gs, anc, v, i, r, S)
      PROVE  Kin(us, gs, anc, v, i, r, S)
  BY <1>3 DEF Kin
<1> QED
  BY <1>2, <1>3

\* The same timelines are active and descend from each other.
Remain(ts, us) ==
    \A c \in Branch : /\ us[c] # NoTimeline <=> ts[c] # NoTimeline
                      /\ ts[c] # NoTimeline => us[c].parent = ts[c].parent

\* No timeline holds what it did not hold before.
NoneGains(ts, us) ==
    \A c \in Branch : \A v, p, x : Holds(us, c, v, p, x) => Holds(ts, c, v, p, x)

\* A step after which the same timelines are active and none holds more than it
\* did keeps the timelines tidy, also if it forgets snapshots.
LEMMA LosingTidy ==
    ASSUME NEW ts, NEW us, NEW gs, NEW n, NEW sp, NEW anc,
           Tidy(ts, gs, n, sp, anc),
           AreTimelines(us), AllTrees(us, FALSE), Unanchored(us),
           Remain(ts, us), NoneGains(ts, us)
    PROVE  Tidy(us, gs, n, sp, anc)
<1>4. OnePlace(us)
  BY DEF Tidy, OnePlace, NoneGains
<1>5. Fresh(us, n, sp)
  BY DEF Tidy, Fresh, NoneGains
<1>6. Gone(us, sp)
  BY DEF Tidy, Gone, NoneGains
<1>7. /\ Ancestry(us, anc)
      /\ \A v, i, r : \A S \in SUBSET Branch :
            Kin(ts, gs, anc, v, i, r, S) => Kin(us, gs, anc, v, i, r, S)
  <2>1. Ancestry(ts, anc)
    BY DEF Tidy
  <2> QED
    BY <2>1, AncestryKept DEF Remain
<1>8. Linked(us, gs, anc)
  <2> SUFFICES ASSUME NEW c \in Branch, NEW d \in Branch, NEW v, NEW p, NEW x,
                      c # d, Holds(us, c, v, p, x), Holds(us, d, v, p, x)
               PROVE  \E i \in DOMAIN gs, r \in Branch, S \in SUBSET Branch :
                         /\ \A a \in Branch : Holds(us, a, v, p, x) => a \in S
                         /\ Kin(us, gs, anc, v, i, r, S)
    BY DEF Linked
  <2>1. PICK i \in DOMAIN gs, r \in Branch, S \in SUBSET Branch :
             /\ \A a \in Branch : Holds(ts, a, v, p, x) => a \in S
             /\ Kin(ts, gs, anc, v, i, r, S)
    BY DEF Tidy, Linked, NoneGains
  <2> QED
    BY <1>7, <2>1 DEF NoneGains
<1> QED
  BY <1>4, <1>5, <1>6, <1>7, <1>8 DEF Tidy

\* A step that only takes keeps the timelines tidy.
LEMMA DwindlingTidy ==
    ASSUME NEW ts, NEW us, NEW gs, NEW n, NEW sp, NEW anc,
           Tidy(ts, gs, n, sp, anc), Dwindling(ts, us, FALSE)
    PROVE  Tidy(us, gs, n, sp, anc)
<1>1. NoneGains(ts, us)
  BY DEF NoneGains, Holds, Dwindling, Dwindles
<1>2. AreTimelines(us) /\ AllTrees(us, FALSE)
  BY DEF Dwindling, AllTrees, Dwindles
<1>3. Unanchored(us)
  BY DEF Tidy, Unanchored, Dwindling, Frame
<1>4. Remain(ts, us)
  BY DEF Remain, Dwindling, Frame
<1> QED
  BY <1>1, <1>2, <1>3, <1>4, LosingTidy

\* So does one that puts what is nowhere into a binding.
LEMMA GainTidy ==
    ASSUME NEW ts, NEW gs, NEW n \in Nat, NEW m \in Nat, n <= m, NEW sp, NEW anc,
           Tidy(ts, gs, n, sp, anc), NEW b \in Branch, ts[b] # NoTimeline, NEW w,
           NEW arena, Sound(arena), arena.capacity = ts[b].arena.capacity,
           AreTrees(arena, FALSE),
           \A v, p, x : Has(arena, v, p, x) =>
              \/ Has(ts[b].arena, v, p, x)
              \/ /\ v = w /\ x \notin DOMAIN sp /\ x[1] \in Nat /\ x[1] < m
                 /\ \A c \in Branch : \A u, q : ~Holds(ts, c, u, q, x)
                 /\ \A q : Has(arena, w, q, x) => q = p
    PROVE  Tidy(SetArena(ts, b, arena), gs, m, sp, anc)
<1> DEFINE us == SetArena(ts, b, arena)
<1>1. /\ AreTimelines(us)
      /\ us[b] # NoTimeline
      /\ us[b].arena = arena
      /\ Frame(ts[b], us[b])
      /\ \A c \in Branch \ {b} : us[c] = ts[c]
  BY SetFrame DEF Tidy
<1> HIDE DEF us
<1>2. ASSUME NEW c \in Branch, NEW v, NEW p, NEW x, Holds(us, c, v, p, x)
      PROVE  \/ Holds(ts, c, v, p, x)
             \/ /\ c = b /\ v = w /\ x \notin DOMAIN sp /\ x[1] \in Nat /\ x[1] < m
                /\ \A d \in Branch : \A u, q : ~Holds(ts, d, u, q, x)
                /\ \A q : Holds(us, b, w, q, x) => q = p
  <2>1. CASE c = b
    BY <1>1, <1>2, <2>1 DEF Holds
  <2>2. CASE c # b
    BY <1>1, <1>2, <2>2 DEF Holds
  <2> QED
    BY <2>1, <2>2
<1>3. AllTrees(us, FALSE)
  BY <1>1 DEF Tidy, AllTrees
<1>4. Unanchored(us)
  BY <1>1 DEF Tidy, Unanchored, Frame
<1>5. OnePlace(us)
  <2> SUFFICES ASSUME NEW c \in Branch, NEW d \in Branch, NEW v, NEW u, NEW p, NEW q,
                      NEW x, Holds(us, c, v, p, x), Holds(us, d, u, q, x)
               PROVE  v = u /\ p = q
    BY DEF OnePlace
  <2>1. CASE Holds(ts, c, v, p, x)
    <3>1. Holds(ts, d, u, q, x)
      BY <1>2, <2>1
    <3> QED
      BY <2>1, <3>1 DEF Tidy, OnePlace
  <2>2. CASE ~Holds(ts, c, v, p, x)
    <3>1. /\ c = b /\ v = w
          /\ \A a \in Branch : \A y, o : ~Holds(ts, a, y, o, x)
          /\ \A o : Holds(us, b, w, o, x) => o = p
      BY <1>2, <2>2
    <3>2. d = b /\ u = w
      BY <1>2, <3>1
    <3> QED
      BY <3>1, <3>2
  <2> QED
    BY <2>1, <2>2
<1>6. Fresh(us, m, sp)
  <2>1. ASSUME NEW c \in Branch, NEW v, NEW p, NEW x, Holds(us, c, v, p, x)
        PROVE  x[1] \in Nat /\ x[1] < m
    <3>1. CASE Holds(ts, c, v, p, x)
      <4>1. x[1] \in Nat /\ x[1] < n
        BY <3>1 DEF Tidy, Fresh
      <4> QED
        BY <4>1
    <3>2. CASE ~Holds(ts, c, v, p, x)
      BY <1>2, <2>1, <3>2
    <3> QED
      BY <3>1, <3>2
  <2>2. ASSUME NEW x \in DOMAIN sp
        PROVE  x[1] \in Nat /\ x[1] < m
    <3>1. x[1] \in Nat /\ x[1] < n
      BY DEF Tidy, Fresh
    <3> QED
      BY <3>1
  <2> QED
    BY <2>1, <2>2 DEF Fresh
<1>7. Gone(us, sp)
  BY <1>2 DEF Tidy, Gone
<1>8. /\ Ancestry(us, anc)
      /\ \A v, i, r : \A S \in SUBSET Branch :
            Kin(ts, gs, anc, v, i, r, S) => Kin(us, gs, anc, v, i, r, S)
  <2>1. \A c \in Branch : /\ us[c] # NoTimeline <=> ts[c] # NoTimeline
                          /\ ts[c] # NoTimeline => us[c].parent = ts[c].parent
    BY <1>1 DEF Frame
  <2>2. Ancestry(ts, anc)
    BY DEF Tidy
  <2> QED
    BY <2>1, <2>2, AncestryKept
<1>9. Linked(us, gs, anc)
  <2> SUFFICES ASSUME NEW c \in Branch, NEW d \in Branch, NEW v, NEW p, NEW x,
                      c # d, Holds(us, c, v, p, x), Holds(us, d, v, p, x)
               PROVE  \E i \in DOMAIN gs, r \in Branch, S \in SUBSET Branch :
                         /\ \A a \in Branch : Holds(us, a, v, p, x) => a \in S
                         /\ Kin(us, gs, anc, v, i, r, S)
    BY DEF Linked
  <2>1. Holds(ts, c, v, p, x) \/ Holds(ts, d, v, p, x)
    BY <1>2
  <2>2. \A a \in Branch : Holds(us, a, v, p, x) => Holds(ts, a, v, p, x)
    BY <1>2, <2>1
  <2>3. PICK i \in DOMAIN gs, r \in Branch, S \in SUBSET Branch :
             /\ \A a \in Branch : Holds(ts, a, v, p, x) => a \in S
             /\ Kin(ts, gs, anc, v, i, r, S)
    BY <2>2 DEF Tidy, Linked
  <2> QED
    BY <1>8, <2>2, <2>3
<1>10. Tidy(us, gs, m, sp, anc)
  BY <1>1, <1>3, <1>4, <1>5, <1>6, <1>7, <1>8, <1>9 DEF Tidy
<1> QED
  BY <1>10 DEF us

\* The timelines, groups and history of a state are tidy.
TidyNow(anc) == Tidy(timeline, groups, nextValue, spent, anc)

\* So they are after the step.
TidyNext(anc) == Tidy(timeline', groups', nextValue', spent', anc)

\* What an evaluation returns is nowhere any more, was not spent before, and each
\* scalar of it was at one place.
LEMMA TakenIsNowhere ==
    ASSUME NEW anc, TidyNow(anc), NEW b \in Branch, Active(b), NEW e \in Expressions,
           NEW value, Takeover(b, e, value, FALSE), value.error = "none",
           NEW q, NEW x, Leaf(value.state, q, x)
    PROVE  /\ \A c \in Branch : \A v, p : ~Holds(value.timelines, c, v, p, x)
           /\ x \notin DOMAIN spent
           /\ x[1] \in Nat /\ x[1] < nextValue
           /\ \A o : Leaf(value.state, o, x) => o = q
<1>1. /\ q \in Seq(Field)
      /\ Has(timeline[b].arena, e.name, Place(e, q), x)
  BY DEF Takeover
<1>2. Holds(timeline, b, e.name, Place(e, q), x)
  BY <1>1 DEF Holds, Active
<1>3. ASSUME NEW c \in Branch, NEW v, NEW p, Holds(value.timelines, c, v, p, x)
      PROVE  FALSE
  <2>1. Holds(timeline, c, v, p, x)
    BY <1>3 DEF Takeover, Dwindling, Dwindles, Holds
  <2>2. v = e.name /\ p = Place(e, q)
    BY <1>2, <2>1 DEF TidyNow, Tidy, OnePlace
  <2>3. <<c, v>> = <<b, e.name>> \/ <<c, v>> \in Partners(b, e.name)
    <3>1. CASE c = b
      BY <2>2, <3>1
    <3>2. CASE c # b
      <4>1. PICK i \in DOMAIN groups, r \in Branch, S \in SUBSET Branch :
               /\ \A a \in Branch : Holds(timeline, a, v, p, x) => a \in S
               /\ Kin(timeline, groups, anc, v, i, r, S)
        BY <1>2, <2>1, <2>2, <3>2 DEF TidyNow, Tidy, Linked
      <4>2. <<b, v>> \in groups[i] /\ <<c, v>> \in groups[i]
        BY <1>2, <2>1, <2>2, <4>1 DEF Kin
      <4>3. <<c, v>> # <<b, v>>
        BY <3>2
      <4> QED
        BY <2>2, <4>2, <4>3 DEF Partners
    <3> QED
      BY <3>1, <3>2
  <2>4. Lost(value.timelines[c].arena, v, Extent(e))
    BY <2>1, <2>2, <2>3, ExpressionForms DEF Takeover, Holds
  <2>5. Reached(Extent(e), p)
    BY <1>1, <2>2, PlaceReached
  <2> QED
    BY <1>3, <2>4, <2>5 DEF Lost, Holds
<1>4. x \notin DOMAIN spent
  BY <1>2 DEF TidyNow, Tidy, Gone
<1>5. x[1] \in Nat /\ x[1] < nextValue
  BY <1>2 DEF TidyNow, Tidy, Fresh
<1>6. ASSUME NEW o, Leaf(value.state, o, x)
      PROVE  o = q
  <2>1. o \in Seq(Field) /\ Has(timeline[b].arena, e.name, Place(e, o), x)
    BY <1>6 DEF Takeover
  <2>2. Holds(timeline, b, e.name, Place(e, o), x)
    BY <2>1 DEF Holds, Active
  <2>3. Place(e, o) = Place(e, q)
    BY <1>2, <2>2 DEF TidyNow, Tidy, OnePlace
  <2> QED
    BY <1>1, <2>1, <2>3, PlaceReached
<1> QED
  BY <1>3, <1>4, <1>5, <1>6

\* After an evaluation the timelines are tidy, whether or not it failed.
LEMMA TakeoverTidy ==
    ASSUME NEW anc, TidyNow(anc), NEW b, NEW e, NEW value,
           Takeover(b, e, value, FALSE)
    PROVE  Tidy(value.timelines, groups, nextValue, spent, anc)
  BY DwindlingTidy DEF TidyNow, Takeover

\* What an arena has gained under a name was in the state, each scalar once.
Moved(before, arena, w, state) ==
    \A v, p, x : Has(arena, v, p, x) =>
       \/ Has(before, v, p, x)
       \/ v = w /\ \E q : /\ Leaf(state, q, x)
                          /\ \A u, o : Has(arena, u, o, x) => o = p

\* A statement that evaluates an expression and then puts the value, or what it
\* holds, into a binding of its timeline.
LEMMA MoveTidy ==
    ASSUME NEW anc, TidyNow(anc), nextValue \in Nat, NEW b \in Branch, Active(b),
           NEW e \in Expressions, NEW value, Takeover(b, e, value, FALSE),
           value.error = "none", NEW w, NEW arena, Sound(arena),
           arena.capacity = value.timelines[b].arena.capacity,
           AreTrees(arena, FALSE),
           Moved(value.timelines[b].arena, arena, w, value.state)
    PROVE  Tidy(SetArena(value.timelines, b, arena), groups, nextValue, spent, anc)
<1> DEFINE ts == value.timelines
<1>1. Tidy(ts, groups, nextValue, spent, anc)
  BY TakeoverTidy
<1>2. ts[b] # NoTimeline
  BY DEF Takeover, Dwindling, Active
<1>3. ASSUME NEW v, NEW p, NEW x, Has(arena, v, p, x)
      PROVE  \/ Has(ts[b].arena, v, p, x)
             \/ /\ v = w /\ x \notin DOMAIN spent /\ x[1] \in Nat /\ x[1] < nextValue
                /\ \A c \in Branch : \A u, q : ~Holds(ts, c, u, q, x)
                /\ \A q : Has(arena, w, q, x) => q = p
  <2>1. CASE Has(ts[b].arena, v, p, x)
    BY <2>1
  <2>2. CASE ~Has(ts[b].arena, v, p, x)
    <3>1. PICK q : /\ v = w
                   /\ Leaf(value.state, q, x)
                   /\ \A u, o : Has(arena, u, o, x) => o = p
      BY <1>3, <2>2 DEF Moved
    <3>2. /\ \A c \in Branch : \A u, o : ~Holds(ts, c, u, o, x)
          /\ x \notin DOMAIN spent
          /\ x[1] \in Nat /\ x[1] < nextValue
      BY <3>1, TakenIsNowhere
    <3> QED
      BY <3>1, <3>2
  <2> QED
    BY <2>1, <2>2
<1>4. nextValue <= nextValue
  OBVIOUS
<1> HIDE DEF ts
<1>5. arena.capacity = ts[b].arena.capacity
  BY DEF ts
<1>6. Tidy(SetArena(ts, b, arena), groups, nextValue, spent, anc)
  BY <1>1, <1>2, <1>3, <1>4, <1>5, GainTidy
<1> QED
  BY <1>6 DEF ts

\* A name is bound to a value that was taken out: let and the arms of a match.
LEMMA BindTidy ==
    ASSUME NEW anc, TidyNow(anc), nextValue \in Nat, NEW b \in Branch, Active(b),
           NEW e \in Expressions, NEW value, Takeover(b, e, value, FALSE),
           value.error = "none", NEW v \in Name
    PROVE  Tidy(SetArena(value.timelines, b,
                         Insert(value.timelines[b].arena, v, value.state).arena),
                groups, nextValue, spent, anc)
<1>1. PICK before : before = value.timelines[b].arena
  OBVIOUS
<1>2. PICK arena : arena = Insert(before, v, value.state).arena
  OBVIOUS
<1>3. AreTrees(before, FALSE) /\ Sound(before)
  BY <1>1 DEF Takeover, Dwindling, Dwindles, Active, AreTimelines, IsTimeline
<1>4. IsTree(value.state, 0, FALSE)
  BY DEF Takeover
<1>5. Receives(before, arena, v, value.state, FALSE)
  BY <1>2, <1>3, <1>4, InsertReceives
<1>6. ASSUME NEW w, NEW p, NEW x, Has(arena, w, p, x)
      PROVE  \/ Has(before, w, p, x)
             \/ w = v /\ \E q : /\ Leaf(value.state, q, x)
                                /\ \A u, o : Has(arena, u, o, x) => o = p
  <2>1. CASE Has(before, w, p, x)
    BY <2>1
  <2>2. CASE ~Has(before, w, p, x)
    <3>1. w = v /\ Leaf(value.state, p, x)
      BY <1>5, <1>6, <2>2 DEF Receives
    <3>2. \A o : Leaf(value.state, o, x) => o = p
      BY <3>1, TakenIsNowhere
    <3>3. \A u, o : ~Has(before, u, o, x)
      <4>1. \A u, o : ~Holds(value.timelines, b, u, o, x)
        BY <3>1, TakenIsNowhere
      <4>2. value.timelines[b] # NoTimeline
        BY DEF Takeover, Dwindling, Active
      <4> QED
        BY <1>1, <4>1, <4>2 DEF Holds
    <3>4. \A u, o : Has(arena, u, o, x) => o = p
      BY <1>5, <3>2, <3>3 DEF Receives
    <3> QED
      BY <3>1, <3>4
  <2> QED
    BY <2>1, <2>2
<1>7. Tidy(SetArena(value.timelines, b, arena), groups, nextValue, spent, anc)
  <2>1. /\ AreTrees(arena, FALSE)
        /\ Sound(arena)
        /\ arena.capacity = value.timelines[b].arena.capacity
    BY <1>1, <1>5 DEF Receives
  <2>2. Moved(value.timelines[b].arena, arena, v, value.state)
    BY <1>1, <1>6 DEF Moved
  <2> QED
    BY <2>1, <2>2, MoveTidy
<1> QED
  BY <1>1, <1>2, <1>7

\* let v = e
LEMMA AssignTidy ==
    ASSUME NEW anc, TidyNow(anc), nextValue \in Nat, NEW b \in Branch,
           NEW v \in Name, NEW e \in Expressions, Assign(b, v, e)
    PROVE  TidyNext(anc)
<1>1. Active(b)
  BY DEF Assign, Executes
<1>2. PICK value : value = Evaluate(b, e)
  OBVIOUS
<1>3. Takeover(b, e, value, FALSE)
  BY <1>1, <1>2, EvaluateTakesOver DEF TidyNow, Tidy
<1>4. groups' = groups /\ nextValue' = nextValue /\ spent' = spent
  BY DEF Assign
<1>5. CASE value.error # "none"
  <2>1. timeline' = value.timelines
    BY <1>2, <1>5 DEF Assign
  <2> QED
    BY <1>3, <1>4, <2>1, TakeoverTidy DEF TidyNext
<1>6. CASE value.error = "none"
  <2>1. timeline' = SetArena(value.timelines, b,
                       Insert(value.timelines[b].arena, v, value.state).arena)
    BY <1>2, <1>6 DEF Assign
  <2> QED
    BY <1>1, <1>3, <1>4, <1>6, <2>1, BindTidy DEF TidyNext
<1> QED
  BY <1>5, <1>6

\* match entropy e
LEMMA MatchEntropyTidy ==
    ASSUME NEW anc, TidyNow(anc), nextValue \in Nat, NEW b \in Branch,
           NEW v \in Name, NEW e \in Expressions, MatchEntropy(b, e, v)
    PROVE  TidyNext(anc)
<1>1. Active(b)
  BY DEF MatchEntropy, Executes
<1>2. PICK value : value = EvaluateEntropic(b, e)
  OBVIOUS
<1>3. Takeover(b, e, value, FALSE)
  BY <1>1, <1>2, EvaluateEntropicTakesOver DEF TidyNow, Tidy
<1>4. groups' = groups /\ nextValue' = nextValue /\ spent' = spent
  BY DEF MatchEntropy
<1>5. CASE value.error # "none"
  <2>1. timeline' = value.timelines
    BY <1>2, <1>5 DEF MatchEntropy
  <2> QED
    BY <1>3, <1>4, <2>1, TakeoverTidy DEF TidyNext
<1>6. CASE value.error = "none"
  <2>1. timeline' = SetArena(value.timelines, b,
                       Insert(value.timelines[b].arena, v, value.state).arena)
    BY <1>2, <1>6 DEF MatchEntropy
  <2> QED
    BY <1>1, <1>3, <1>4, <1>6, <2>1, BindTidy DEF TidyNext
<1> QED
  BY <1>5, <1>6

\* An expression as a statement: what it spends was never spent and is nowhere.
LEMMA ExpressionTidy ==
    ASSUME NEW anc, TidyNow(anc), NEW b \in Branch, NEW e \in Expressions,
           Expression(b, e)
    PROVE  TidyNext(anc)
<1>1. Active(b)
  BY DEF Expression, Executes
<1>2. PICK value : value = Evaluate(b, e)
  OBVIOUS
<1>3. Takeover(b, e, value, FALSE)
  BY <1>1, <1>2, EvaluateTakesOver DEF TidyNow, Tidy
<1>4. groups' = groups /\ nextValue' = nextValue /\ timeline' = value.timelines
  BY <1>2 DEF Expression
<1>5. Tidy(value.timelines, groups, nextValue, spent, anc)
  BY <1>3, TakeoverTidy
<1>6. CASE value.error # "none"
  <2>1. spent' = spent
    BY <1>2, <1>6 DEF Expression
  <2> QED
    BY <1>4, <1>5, <2>1 DEF TidyNext
<1>7. CASE value.error = "none"
  <2> DEFINE taken == Scalars(value.state)
  <2>1. spent' = [x \in DOMAIN spent \union taken |->
                    IF x \in taken THEN TimesSpent(x) + 1 ELSE spent[x]]
    BY <1>2, <1>7 DEF Expression, Spend
  <2>2. \A x \in taken : \E q : Leaf(value.state, q, x)
    BY ScalarsAreLeaves
  <2> HIDE DEF taken
  <2>3. ASSUME NEW x \in taken
        PROVE  /\ \A c \in Branch : \A v, p : ~Holds(value.timelines, c, v, p, x)
               /\ x \notin DOMAIN spent
               /\ x[1] \in Nat /\ x[1] < nextValue
    <3>1. PICK q : Leaf(value.state, q, x)
      BY <2>2
    <3> QED
      BY <1>1, <1>3, <1>7, <3>1, TakenIsNowhere
  <2>4. \A x \in taken : spent'[x] = 1
    BY <2>1, <2>3 DEF TimesSpent
  <2>5. DOMAIN spent' = DOMAIN spent \union taken
    BY <2>1
  <2>6. \A x \in DOMAIN spent : spent'[x] = spent[x]
    BY <2>1, <2>3
  <2>7. Gone(value.timelines, spent')
    BY <1>5, <2>3, <2>4, <2>5, <2>6 DEF Tidy, Gone
  <2>8. Fresh(value.timelines, nextValue, spent')
    BY <1>5, <2>3, <2>5 DEF Tidy, Fresh
  <2>9. Tidy(value.timelines, groups, nextValue, spent', anc)
    BY <1>5, <2>7, <2>8 DEF Tidy
  <2> QED
    BY <1>4, <2>9 DEF TidyNext
<1> QED
  BY <1>6, <1>7

\* w.path = e
LEMMA FieldUpdateTidy ==
    ASSUME NEW anc, TidyNow(anc), nextValue \in Nat, NEW b \in Branch,
           NEW w \in Name, NEW path \in Paths, NEW e \in Expressions,
           FieldUpdate(b, w, path, e)
    PROVE  TidyNext(anc)
<1>1. Active(b)
  BY DEF FieldUpdate, Executes
<1>2. PICK value : value = Evaluate(b, e)
  OBVIOUS
<1>3. Takeover(b, e, value, FALSE) /\ (value.error = "none" => IsValid(value.state))
  BY <1>1, <1>2, EvaluateTakesOver DEF TidyNow, Tidy
<1>4. groups' = groups /\ nextValue' = nextValue /\ spent' = spent
  BY DEF FieldUpdate
<1>5. CASE value.error # "none"
  <2>1. timeline' = value.timelines
    BY <1>2, <1>5 DEF FieldUpdate
  <2> QED
    BY <1>3, <1>4, <2>1, TakeoverTidy DEF TidyNext
<1>6. CASE value.error = "none"
  <2>1. PICK before : before = value.timelines[b].arena
    OBVIOUS
  <2>2. PICK arena : arena = UpdateDeepField(before, w, path, value.state.payload).arena
    OBVIOUS
  <2>3. /\ NestsWithin(value.state, Len(path))
        /\ timeline' = SetArena(value.timelines, b, arena)
    BY <1>2, <1>6, <2>1, <2>2 DEF FieldUpdate
  <2>4. /\ AreTrees(before, FALSE) /\ Sound(before)
        /\ value.timelines[b] # NoTimeline
    BY <1>1, <1>3, <2>1
       DEF Takeover, Dwindling, Dwindles, Active, AreTimelines, IsTimeline
  <2>5. IsTree(value.state, Len(path), FALSE)
    BY <1>3, <1>6, <2>3 DEF Takeover, IsTree
  <2>6. IsValid(value.state)
    BY <1>3, <1>6
  <2>7. UpdatedAt(before, arena, w, path, value.state, FALSE)
    BY <2>2, <2>4, <2>5, <2>6, UpdateReceives
  <2>8. Sound(arena) /\ arena.capacity = before.capacity
    BY <2>2, <2>4, UpdateFits DEF Fits
  <2>9. ASSUME NEW v, NEW p, NEW x, Has(arena, v, p, x)
        PROVE  \/ Has(before, v, p, x)
               \/ v = w /\ \E q : /\ Leaf(value.state, q, x)
                                  /\ \A u, o : Has(arena, u, o, x) => o = p
    <3>1. CASE Has(before, v, p, x)
      BY <3>1
    <3>2. CASE ~Has(before, v, p, x)
      <4>1. PICK q \in Seq(Field) : p = Below(path, q) /\ Leaf(value.state, q, x) /\ v = w
        BY <2>7, <2>9, <3>2 DEF UpdatedAt
      <4>2. /\ \A c \in Branch : \A u, o : ~Holds(value.timelines, c, u, o, x)
            /\ \A o : Leaf(value.state, o, x) => o = q
        BY <1>1, <1>3, <1>6, <4>1, TakenIsNowhere
      <4>3. \A u, o : ~Has(before, u, o, x)
        BY <2>1, <2>4, <4>2 DEF Holds
      <4>4. \A u, o : Has(arena, u, o, x) => o = p
        BY <2>7, <4>1, <4>2, <4>3 DEF UpdatedAt
      <4> QED
        BY <4>1, <4>4
    <3> QED
      BY <3>1, <3>2
  <2>10. Moved(value.timelines[b].arena, arena, w, value.state)
    BY <2>1, <2>9 DEF Moved
  <2>11. arena.capacity = value.timelines[b].arena.capacity /\ AreTrees(arena, FALSE)
    BY <2>1, <2>7, <2>8 DEF UpdatedAt
  <2>12. Tidy(SetArena(value.timelines, b, arena), groups, nextValue, spent, anc)
    BY <1>1, <1>3, <1>6, <2>8, <2>10, <2>11, MoveTidy
  <2> QED
    BY <1>4, <2>3, <2>12 DEF TidyNext
<1> QED
  BY <1>5, <1>6

\* The end of a time limit.
LEMMA DecayVariableTidy ==
    ASSUME NEW anc, TidyNow(anc), NEW b \in Branch, NEW v, DecayVariable(b, v)
    PROVE  TidyNext(anc)
<1>1. /\ timeline[b] # NoTimeline
      /\ AreTimelines(timeline) /\ AllTrees(timeline, FALSE)
      /\ Sound(timeline[b].arena) /\ AreTrees(timeline[b].arena, FALSE)
  BY DEF DecayVariable, Executes, Active, TidyNow, Tidy, AreTimelines, AllTrees,
         IsTimeline
<1>2. PICK arena : arena = Decay(timeline[b].arena, v).arena
  OBVIOUS
<1>3. timeline' = SetArena(timeline, b, arena)
      /\ groups' = groups /\ nextValue' = nextValue /\ spent' = spent
  BY <1>2 DEF DecayVariable
<1>4. Sound(arena) /\ arena.capacity = timeline[b].arena.capacity
  BY <1>1, <1>2, DecayHarmless DEF Harmless, Shrinks
<1>5. Dwindles(timeline[b].arena, arena, FALSE)
  BY <1>1, <1>2, DecayDwindles
<1>6. Dwindling(timeline, SetArena(timeline, b, arena), FALSE)
  BY <1>1, <1>4, <1>5, SetDwindling
<1> QED
  BY <1>3, <1>6, DwindlingTidy DEF TidyNow, TidyNext

\* Two ways that are spelled alike are the same.
LEMMA SpelledOnce ==
    ASSUME NEW n, NEW p \in Seq(Field), NEW q \in Seq(Field), <<n>> \o p = <<n>> \o q
    PROVE  p = q
<1>1. ASSUME NEW s \in Seq(Field)
      PROVE  /\ Len(<<n>> \o s) = Len(s) + 1
             /\ \A i \in 1 .. Len(s) : (<<n>> \o s)[i + 1] = s[i]
  OBVIOUS
<1>2. Len(p) = Len(q)
  BY <1>1
<1>3. \A i \in 1 .. Len(p) : p[i] = q[i]
  BY <1>1, <1>2
<1> QED
  BY <1>2, <1>3, SeqEqual

\* let v = <literal>: its scalars are new.
LEMMA LetTidy ==
    ASSUME NEW anc, TidyNow(anc), nextValue \in Nat, NEW b \in Branch,
           NEW v \in Name, NEW kind \in Literals, NEW fs \in NonEmpty(Field),
           Let(b, v, kind, fs)
    PROVE  TidyNext(anc)
<1>1. PICK n \in Nat : n = nextValue
  OBVIOUS
<1>2. PICK state : state = Literal(kind, n, fs)
  OBVIOUS
<1>3. PICK before : before = timeline[b].arena
  OBVIOUS
<1>4. PICK arena : arena = Insert(before, v, state).arena
  OBVIOUS
<1>5. /\ timeline[b] # NoTimeline
      /\ NestsWithin(state, 0)
      /\ timeline' = SetArena(timeline, b, arena)
      /\ groups' = groups /\ nextValue' = n + 1 /\ spent' = spent
  BY <1>1, <1>2, <1>3, <1>4 DEF Let, Executes, Active
<1>6. fs \subseteq Field
  BY DEF NonEmpty
<1>7. IsTree(state, 0, FALSE) /\ Spelled(state, n)
  BY <1>2, <1>5, <1>6, LiteralTree
<1>8. AreTrees(before, FALSE) /\ Sound(before)
  BY <1>3, <1>5 DEF TidyNow, Tidy, AllTrees, AreTimelines, IsTimeline
<1>9. Receives(before, arena, v, state, FALSE)
  BY <1>4, <1>7, <1>8, InsertReceives
<1>10. ASSUME NEW q, NEW x, Leaf(state, q, x)
       PROVE  /\ x = <<n>> \o q
              /\ x[1] = n
              /\ q \in Seq(Field)
              /\ x \notin DOMAIN spent
              /\ \A c \in Branch : \A u, o : ~Holds(timeline, c, u, o, x)
  <2>1. x = <<n>> \o q /\ q \in Seq(Field)
    BY <1>7, <1>10, LeafPath DEF Spelled
  <2>2. x[1] = n
    BY <2>1
  <2>3. x \notin DOMAIN spent
    BY <1>1, <2>2 DEF TidyNow, Tidy, Fresh
  <2>4. \A c \in Branch : \A u, o : ~Holds(timeline, c, u, o, x)
    BY <1>1, <2>2 DEF TidyNow, Tidy, Fresh
  <2> QED
    BY <2>1, <2>2, <2>3, <2>4
<1>11. ASSUME NEW w, NEW p, NEW x, Has(arena, w, p, x)
       PROVE  \/ Has(timeline[b].arena, w, p, x)
              \/ /\ w = v /\ x \notin DOMAIN spent /\ x[1] \in Nat /\ x[1] < n + 1
                 /\ \A c \in Branch : \A u, q : ~Holds(timeline, c, u, q, x)
                 /\ \A q : Has(arena, v, q, x) => q = p
  <2>1. CASE Has(before, w, p, x)
    BY <1>3, <2>1
  <2>2. CASE ~Has(before, w, p, x)
    <3>1. w = v /\ Leaf(state, p, x)
      BY <1>9, <1>11, <2>2 DEF Receives
    <3>2. x[1] \in Nat /\ x[1] < n + 1
      BY <1>10, <3>1
    <3>3. \A u, o : ~Has(before, u, o, x)
      BY <1>3, <1>5, <1>10, <3>1 DEF Holds
    <3>4. ASSUME NEW q, Has(arena, v, q, x)
          PROVE  q = p
      <4>1. Leaf(state, q, x)
        BY <1>9, <3>3, <3>4 DEF Receives
      <4>2. /\ x = <<n>> \o q /\ q \in Seq(Field)
            /\ x = <<n>> \o p /\ p \in Seq(Field)
        BY <1>10, <3>1, <4>1
      <4>3. <<n>> \o p = <<n>> \o q
        BY <4>2
      <4> QED
        BY <4>2, <4>3, SpelledOnce
    <3> QED
      BY <1>10, <3>1, <3>2, <3>4
  <2> QED
    BY <2>1, <2>2
<1>12. Tidy(timeline, groups, n, spent, anc)
  BY <1>1 DEF TidyNow
<1>13. n <= n + 1 /\ n + 1 \in Nat
  OBVIOUS
<1>14. Sound(arena) /\ AreTrees(arena, FALSE) /\ arena.capacity = timeline[b].arena.capacity
  BY <1>3, <1>9 DEF Receives
<1>15. PICK m \in Nat : m = n + 1
  OBVIOUS
<1>16. Tidy(SetArena(timeline, b, arena), groups, m, spent, anc)
  BY <1>5, <1>11, <1>12, <1>13, <1>14, <1>15, GainTidy
<1> QED
  BY <1>5, <1>15, <1>16 DEF TidyNext

\* A timeline with another arena, or without its snapshots, that holds no more.
LEMMA ReplaceTidy ==
    ASSUME NEW anc, TidyNow(anc), NEW b \in Branch, Active(b), NEW u, IsTimeline(u),
           u.parent = timeline[b].parent, DOMAIN u.anchors = {},
           AreTrees(u.arena, FALSE),
           \A v, p, x : Has(u.arena, v, p, x) => Has(timeline[b].arena, v, p, x),
           timeline' = Replaced(timeline, b, u),
           groups' = groups, nextValue' = nextValue, spent' = spent
    PROVE  TidyNext(anc)
<1>1. AreTimelines(timeline) /\ AllTrees(timeline, FALSE) /\ Unanchored(timeline)
  BY DEF TidyNow, Tidy
<1>2. /\ AreTimelines(timeline') /\ timeline'[b] = u
      /\ \A c \in Branch \ {b} : timeline'[c] = timeline[c]
  BY <1>1, ReplaceTimeline
<1>3. u # NoTimeline /\ timeline[b] # NoTimeline
  BY TimelineIsActive DEF Active
<1>4. AllTrees(timeline', FALSE)
  BY <1>1, <1>2 DEF AllTrees
<1>5. Unanchored(timeline')
  BY <1>1, <1>2 DEF Unanchored
<1>6. Remain(timeline, timeline')
  BY <1>2, <1>3 DEF Remain
<1>7. NoneGains(timeline, timeline')
  <2> SUFFICES ASSUME NEW c \in Branch, NEW v, NEW p, NEW x,
                      Holds(timeline', c, v, p, x)
               PROVE  Holds(timeline, c, v, p, x)
    BY DEF NoneGains
  <2>1. CASE c = b
    BY <1>2, <1>3, <2>1 DEF Holds
  <2>2. CASE c # b
    BY <1>2, <2>2 DEF Holds
  <2> QED
    BY <2>1, <2>2
<1>8. PICK us : us = timeline'
  OBVIOUS
<1>9. Tidy(us, groups, nextValue, spent, anc)
  BY <1>2, <1>4, <1>5, <1>6, <1>7, <1>8, LosingTidy DEF TidyNow
<1> QED
  BY <1>8, <1>9 DEF TidyNext

\* isolate: a budget does not move a value.
LEMMA IsolateTidy ==
    ASSUME NEW anc, TidyNow(anc), NEW b \in Branch, NEW capacity \in Capacities,
           Isolate(b, capacity)
    PROVE  TidyNext(anc)
<1>1. /\ Active(b) /\ IsTimeline(timeline[b])
      /\ AreTrees(timeline[b].arena, FALSE) /\ DOMAIN timeline[b].anchors = {}
  BY DEF TidyNow, Tidy, AreTimelines, AllTrees, Unanchored, Active, Isolate, Executes
<1>2. PICK u : /\ timeline' = Replaced(timeline, b, u)
               /\ IsTimeline(u)
               /\ u.arena.bindings = timeline[b].arena.bindings
               /\ u.anchors = timeline[b].anchors
               /\ u.parent = timeline[b].parent
  BY <1>1, IsolateReplaces
<1>3. groups' = groups /\ nextValue' = nextValue /\ spent' = spent
  BY DEF Isolate
<1>4. /\ AreTrees(u.arena, FALSE)
      /\ \A v, p, x : Has(u.arena, v, p, x) => Has(timeline[b].arena, v, p, x)
  BY <1>1, <1>2 DEF AreTrees, Has
<1> QED
  BY <1>1, <1>2, <1>3, <1>4, ReplaceTidy

\* commit
LEMMA CommitTidy ==
    ASSUME NEW anc, TidyNow(anc), NEW b \in Branch, Commit(b)
    PROVE  TidyNext(anc)
<1>1. /\ Active(b) /\ IsTimeline(timeline[b]) /\ Sound(timeline[b].arena)
      /\ AreTrees(timeline[b].arena, FALSE) /\ AreTimelines(timeline)
  BY DEF TidyNow, Tidy, AreTimelines, AllTrees, Active, IsTimeline, Commit, Executes
<1>2. PICK u : /\ timeline' = Replaced(timeline, b, u)
               /\ IsTimeline(u)
               /\ u.arena = CompactConsumed(timeline[b].arena)
               /\ DOMAIN u.anchors = {}
               /\ u.parent = timeline[b].parent
  BY <1>1, CommitReplaces
<1>3. /\ AreTrees(u.arena, FALSE)
      /\ \A v, p, x : Has(u.arena, v, p, x) => Has(timeline[b].arena, v, p, x)
  BY <1>1, <1>2, CompactDwindles DEF Dwindles
<1>4. groups' = groups /\ nextValue' = nextValue /\ spent' = spent
  BY DEF Commit
<1> QED
  BY <1>1, <1>2, <1>3, <1>4, ReplaceTidy

\* Where nothing else changes the timelines that are kin stay kin.
LEMMA EntangleTidy ==
    ASSUME NEW anc, TidyNow(anc), AreGroups(groups), NEW b \in Branch,
           NEW names \in NonEmpty(Name), Entangle(b, names)
    PROVE  TidyNext(anc) /\ AreGroups(groups')
<1>1. PICK hs : hs = groups'
  OBVIOUS
<1>2. Grow(groups, hs) /\ AreGroups(hs)
  BY <1>1, EntangleGroups
<1>3. Linked(timeline, hs, anc)
  BY <1>2 DEF TidyNow, Tidy, Linked, Kin, Grow
<1>4. timeline' = timeline /\ nextValue' = nextValue /\ spent' = spent
  BY DEF Entangle
<1> QED
  BY <1>1, <1>2, <1>3, <1>4 DEF TidyNow, TidyNext, Tidy

\* A timeline that is split off descends from where its parent does.
Descends(anc, c, p) == [anc EXCEPT ![c] = {c} \union anc[p]]

\* With it a split keeps the descent of the timelines.
LEMMA SplitAncestry ==
    ASSUME NEW ts, NEW us, NEW anc, Ancestry(ts, anc), NEW p \in Branch,
           ts[p] # NoTimeline, NEW c \in Branch \ {Root}, ts[c] = NoTimeline,
           us[c] # NoTimeline, us[c].parent = p, \A d \in Branch \ {c} : us[d] = ts[d]
    PROVE  /\ Ancestry(us, Descends(anc, c, p))
           /\ Descends(anc, c, p)[c] = {c} \union anc[p]
           /\ \A d \in Branch \ {c} : Descends(anc, c, p)[d] = anc[d]
<1> DEFINE new == Descends(anc, c, p)
<1>1. anc \in [Branch -> SUBSET Branch] /\ c # p
  BY DEF Ancestry
<1>2. /\ new \in [Branch -> SUBSET Branch]
      /\ new[c] = {c} \union anc[p]
      /\ \A d \in Branch \ {c} : new[d] = anc[d]
  BY <1>1 DEF Descends
<1> HIDE DEF new
<1>3. ASSUME NEW d \in Branch, ts[d] # NoTimeline
      PROVE  /\ d \in anc[d] /\ anc[d] \subseteq Branch
             /\ \A a \in anc[d] :
                  /\ ts[a] # NoTimeline /\ us[a] # NoTimeline
                  /\ a # d => \E e \in Branch \ {Root} : /\ us[e] # NoTimeline
                                                         /\ us[e].parent = a
                                                         /\ e \in anc[d]
  <2>1. d \in anc[d] /\ anc[d] \subseteq Branch
    BY <1>1, <1>3 DEF Ancestry
  <2>2. ASSUME NEW a \in anc[d]
        PROVE  /\ ts[a] # NoTimeline /\ us[a] # NoTimeline
               /\ a # d => \E e \in Branch \ {Root} : /\ us[e] # NoTimeline
                                                      /\ us[e].parent = a
                                                      /\ e \in anc[d]
    <3>1. ts[a] # NoTimeline /\ a \in Branch
      BY <1>3, <2>1, <2>2 DEF Ancestry
    <3>2. us[a] = ts[a]
      BY <3>1
    <3>3. ASSUME a # d
          PROVE  \E e \in Branch \ {Root} : /\ us[e] # NoTimeline
                                            /\ us[e].parent = a
                                            /\ e \in anc[d]
      <4>1. PICK e \in Branch \ {Root} : /\ ts[e] # NoTimeline
                                         /\ ts[e].parent = a
                                         /\ e \in anc[d]
        BY <1>3, <2>2, <3>3 DEF Ancestry
      <4>2. us[e] = ts[e]
        BY <4>1
      <4> QED
        BY <4>1, <4>2
    <3> QED
      BY <3>1, <3>2, <3>3
  <2> QED
    BY <2>1, <2>2
<1>4. ASSUME NEW d \in Branch, us[d] # NoTimeline
      PROVE  /\ d \in new[d]
             /\ \A a \in new[d] :
                  /\ us[a] # NoTimeline
                  /\ a # d => \E e \in Branch \ {Root} : /\ us[e] # NoTimeline
                                                         /\ us[e].parent = a
                                                         /\ e \in new[d]
  <2>1. CASE d # c
    <3>1. ts[d] # NoTimeline /\ new[d] = anc[d]
      BY <1>2, <1>4, <2>1
    <3> QED
      BY <1>3, <3>1
  <2>2. CASE d = c
    <3>1. ASSUME NEW a \in new[c]
          PROVE  /\ us[a] # NoTimeline
                 /\ a # c => \E e \in Branch \ {Root} : /\ us[e] # NoTimeline
                                                        /\ us[e].parent = a
                                                        /\ e \in new[c]
      <4>1. CASE a = c
        BY <4>1
      <4>2. CASE a = p
        BY <1>2, <1>3, <4>2
      <4>3. CASE a # c /\ a # p
        <5>1. a \in anc[p]
          BY <1>2, <3>1, <4>3
        <5>2. /\ us[a] # NoTimeline
              /\ \E e \in Branch \ {Root} : /\ us[e] # NoTimeline
                                            /\ us[e].parent = a
                                            /\ e \in anc[p]
          BY <1>3, <4>3, <5>1
        <5> QED
          BY <1>2, <5>2
      <4> QED
        BY <4>1, <4>2, <4>3
    <3>2. c \in new[c]
      BY <1>2
    <3> QED
      BY <2>2, <3>1, <3>2
  <2> QED
    BY <2>1, <2>2
<1>5. Ancestry(us, new)
  BY <1>2, <1>4 DEF Ancestry
<1> QED
  BY <1>2, <1>5 DEF new

\* split: the copies join the groups of the originals.
LEMMA SplitTidy ==
    ASSUME Disciplined, NEW anc, TidyNow(anc), AreGroups(groups), NEW p \in Branch,
           NEW c \in Branch, Split(p, c)
    PROVE  AreGroups(groups') /\ \E new : TidyNext(new)
<1>1. /\ Active(p) /\ ~Active(c) /\ FullyEntangled(p) /\ c \in Branch \ {Root}
      /\ nextValue' = nextValue /\ spent' = spent
      /\ Sound(timeline[p].arena) /\ AreTrees(timeline[p].arena, FALSE)
      /\ AreTimelines(timeline) /\ AllTrees(timeline, FALSE) /\ Unanchored(timeline)
  BY DEF Split, Executes, TidyNow, Tidy, AreTimelines, IsTimeline, AllTrees, Active
<1>2. PICK u : u = NewTimeline(timeline[p].arena, p)
  OBVIOUS
<1>3. /\ IsTimeline(u) /\ u.arena = timeline[p].arena /\ u.parent = p
      /\ DOMAIN u.anchors = {}
  BY <1>1, <1>2, EmptyDomain DEF IsTimeline, NewTimeline
<1>4. PICK us : us = timeline'
  OBVIOUS
<1>5. us = Replaced(timeline, c, u)
  BY <1>2, <1>4 DEF Split, Replaced
<1>6. /\ AreTimelines(us) /\ us[c] = u
      /\ \A d \in Branch \ {c} : us[d] = timeline[d]
  BY <1>1, <1>3, <1>5, ReplaceTimeline
<1>7. u # NoTimeline /\ timeline[c] = NoTimeline /\ timeline[p] # NoTimeline /\ c # p
  BY <1>1, <1>3, TimelineIsActive DEF Active
<1>8. PICK hs : hs = groups'
  OBVIOUS
<1>9. \A i \in DOMAIN groups : \A v \in Name :
         <<p, v>> \in groups[i] => <<c, v>> \in hs[i]
  BY <1>8, SplitGroups
<1>10. Grow(groups, hs) /\ AreGroups(hs) /\ DOMAIN hs = DOMAIN groups
  BY <1>8, SplitGroups
<1>11. PICK new : new = Descends(anc, c, p)
  OBVIOUS
<1>12. /\ Ancestry(us, new)
       /\ new[c] = {c} \union anc[p]
       /\ \A d \in Branch \ {c} : new[d] = anc[d]
  BY <1>1, <1>3, <1>6, <1>7, <1>11, SplitAncestry DEF TidyNow, Tidy
<1>13. ASSUME NEW d \in Branch, NEW v, NEW q, NEW x, Holds(us, d, v, q, x)
       PROVE  /\ d # c => Holds(timeline, d, v, q, x)
              /\ d = c => Holds(timeline, p, v, q, x)
  BY <1>3, <1>6, <1>7, <1>13 DEF Holds
<1>14. AllTrees(us, FALSE) /\ Unanchored(us)
  BY <1>1, <1>3, <1>6 DEF AllTrees, Unanchored
<1>15. OnePlace(us)
  BY <1>13 DEF TidyNow, Tidy, OnePlace
<1>16. Fresh(us, nextValue, spent)
  BY <1>13 DEF TidyNow, Tidy, Fresh
<1>17. Gone(us, spent)
  BY <1>13 DEF TidyNow, Tidy, Gone
<1>18. Linked(us, hs, new)
  <2> SUFFICES ASSUME NEW d \in Branch, NEW e \in Branch, NEW v, NEW q, NEW x,
                      d # e, Holds(us, d, v, q, x), Holds(us, e, v, q, x)
               PROVE  \E i \in DOMAIN hs, r \in Branch, S \in SUBSET Branch :
                         /\ \A a \in Branch : Holds(us, a, v, q, x) => a \in S
                         /\ Kin(us, hs, new, v, i, r, S)
    BY DEF Linked
  <2>1. v \in Name
    BY <1>6 DEF Holds, Has, AreTimelines, IsTimeline, Sound
  <2>2. CASE \E a1, a2 \in Branch : /\ a1 # a2
                                    /\ Holds(timeline, a1, v, q, x)
                                    /\ Holds(timeline, a2, v, q, x)
    <3>1. PICK i \in DOMAIN groups, r \in Branch, S \in SUBSET Branch :
             /\ \A a \in Branch : Holds(timeline, a, v, q, x) => a \in S
             /\ Kin(timeline, groups, anc, v, i, r, S)
      BY <2>2 DEF TidyNow, Tidy, Linked
    <3>2. PICK T \in SUBSET Branch : T = IF p \in S THEN S \union {c} ELSE S
      OBVIOUS
    <3>3. \A a \in Branch : Holds(us, a, v, q, x) => a \in T
      BY <1>13, <3>1, <3>2
    <3>4. c \notin S
      BY <1>7, <3>1 DEF Kin
    <3>5. ASSUME NEW a \in S
          PROVE  /\ us[a] # NoTimeline
                 /\ <<a, v>> \in hs[i]
                 /\ r \in new[a]
                 /\ a = r \/ (a # Root /\ us[a].parent \in T)
      <4>1. us[a] = timeline[a] /\ new[a] = anc[a]
        BY <1>6, <1>12, <3>4
      <4>2. <<a, v>> \in hs[i]
        BY <1>10, <3>1 DEF Kin, Grow
      <4> QED
        BY <3>1, <3>2, <4>1, <4>2 DEF Kin
    <3>6. ASSUME p \in S
          PROVE  /\ us[c] # NoTimeline
                 /\ <<c, v>> \in hs[i]
                 /\ r \in new[c]
                 /\ c # Root /\ us[c].parent \in T
      <4>1. <<p, v>> \in groups[i] /\ r \in anc[p]
        BY <3>1, <3>6 DEF Kin
      <4>2. <<c, v>> \in hs[i]
        BY <1>9, <2>1, <3>1, <4>1
      <4> QED
        BY <1>1, <1>3, <1>6, <1>7, <1>12, <3>2, <3>6, <4>1, <4>2
    <3>7. Kin(us, hs, new, v, i, r, T)
      BY <3>2, <3>5, <3>6 DEF Kin
    <3>8. i \in DOMAIN hs
      BY <1>10
    <3> QED
      BY <3>3, <3>7, <3>8
  <2>3. CASE ~ \E a1, a2 \in Branch : /\ a1 # a2
                                      /\ Holds(timeline, a1, v, q, x)
                                      /\ Holds(timeline, a2, v, q, x)
    <3>1. Holds(timeline, p, v, q, x)
      BY <1>13, <2>3
    <3>2. \A a \in Branch : Holds(us, a, v, q, x) => a \in {p, c}
      BY <1>13, <2>3, <3>1
    <3>3. Entangled(p, v)
      <4>1. /\ v \in DOMAIN timeline[p].arena.bindings
            /\ Leaf(timeline[p].arena.bindings[v], q, x)
        BY <3>1 DEF Holds, Has
      <4>2. StateOf(timeline[p].arena, v) = timeline[p].arena.bindings[v]
        BY <4>1 DEF StateOf
      <4>3. x \in Scalars(StateOf(timeline[p].arena, v))
        BY <4>1, <4>2, ScalarsAreLeaves
      <4> QED
        BY <1>1, <2>1, <4>3 DEF FullyEntangled
    <3>4. PICK i \in DOMAIN groups : <<p, v>> \in groups[i]
      BY <3>3 DEF Entangled
    <3>5. <<p, v>> \in hs[i] /\ <<c, v>> \in hs[i] /\ i \in DOMAIN hs
      BY <1>9, <1>10, <2>1, <3>4 DEF Grow
    <3>6. p \in anc[p]
      BY <1>7 DEF TidyNow, Tidy, Ancestry
    <3>7. us[p] # NoTimeline /\ us[c] # NoTimeline /\ us[c].parent = p
      BY <1>3, <1>6, <1>7
    <3>8. p \in new[p] /\ p \in new[c]
      BY <1>7, <1>12, <3>6
    <3>9. Kin(us, hs, new, v, i, p, {p, c})
      BY <1>1, <3>5, <3>7, <3>8 DEF Kin
    <3>10. {p, c} \in SUBSET Branch
      OBVIOUS
    <3> QED
      BY <3>2, <3>5, <3>9, <3>10
  <2> QED
    BY <2>2, <2>3
<1>19. Tidy(us, hs, nextValue, spent, new)
  BY <1>6, <1>12, <1>14, <1>15, <1>16, <1>17, <1>18 DEF Tidy
<1>20. TidyNext(new)
  BY <1>1, <1>4, <1>8, <1>19 DEF TidyNext
<1> QED
  BY <1>8, <1>10, <1>20

\* The merge leaves one of its timelines active: it ran out of memory (or it
\* returned to an anchor).
MergeRunsOut(bs, t) == Merge(bs, t) /\ \E b \in Range(bs) : timeline'[b] # NoTimeline

\* From ts to us the timelines in gone, which no active one descends from, have
\* handed to their parent t what it did not hold itself.
HandsOver(ts, us, gone, t) ==
    /\ \A b \in gone : /\ b \in Branch /\ ts[b] # NoTimeline /\ us[b] = NoTimeline
                       /\ b # Root /\ ts[b].parent = t
    /\ \A c \in Branch : ts[c] # NoTimeline => ts[c].parent \notin gone
    /\ \A c \in Branch \ gone : /\ us[c] # NoTimeline <=> ts[c] # NoTimeline
                                /\ ts[c] # NoTimeline => us[c].parent = ts[c].parent
    /\ \A c \in Branch : \A v, p, x : Holds(us, c, v, p, x) =>
          \/ Holds(ts, c, v, p, x)
          \/ c = t /\ \E b \in gone : Holds(ts, b, v, p, x)

\* Those that remain descend from those that remain.
LEMMA HandOverAncestry ==
    ASSUME NEW ts, NEW us, NEW anc, Ancestry(ts, anc), NEW gone, NEW t,
           HandsOver(ts, us, gone, t)
    PROVE  /\ Ancestry(us, anc)
           /\ \A d \in Branch \ gone : ts[d] # NoTimeline =>
                \A a \in anc[d] : a \notin gone
<1>1. ASSUME NEW d \in Branch \ gone, ts[d] # NoTimeline, NEW a \in anc[d]
      PROVE  /\ a \in Branch \ gone
             /\ ts[a] # NoTimeline
             /\ a # d => \E c \in Branch \ {Root} : /\ ts[c] # NoTimeline
                                                    /\ ts[c].parent = a
                                                    /\ c \in anc[d]
  <2>1. a \in Branch /\ ts[a] # NoTimeline
    BY <1>1 DEF Ancestry
  <2>2. ASSUME a # d
        PROVE  \E c \in Branch \ {Root} : /\ ts[c] # NoTimeline
                                          /\ ts[c].parent = a
                                          /\ c \in anc[d]
    BY <1>1, <2>2 DEF Ancestry
  <2>3. a \notin gone
    <3>1. CASE a = d
      BY <3>1
    <3>2. CASE a # d
      <4>1. PICK c \in Branch \ {Root} : ts[c] # NoTimeline /\ ts[c].parent = a
        BY <2>2, <3>2
      <4> QED
        BY <4>1 DEF HandsOver
    <3> QED
      BY <3>1, <3>2
  <2> QED
    BY <2>1, <2>2, <2>3
<1>2. ASSUME NEW d \in Branch, us[d] # NoTimeline
      PROVE  /\ d \in anc[d]
             /\ \A a \in anc[d] :
                  /\ us[a] # NoTimeline
                  /\ a # d => \E c \in Branch \ {Root} : /\ us[c] # NoTimeline
                                                         /\ us[c].parent = a
                                                         /\ c \in anc[d]
  <2>1. d \notin gone /\ ts[d] # NoTimeline
    BY <1>2 DEF HandsOver
  <2>2. d \in anc[d]
    BY <2>1 DEF Ancestry
  <2>3. ASSUME NEW a \in anc[d]
        PROVE  /\ us[a] # NoTimeline
               /\ a # d => \E c \in Branch \ {Root} : /\ us[c] # NoTimeline
                                                      /\ us[c].parent = a
                                                      /\ c \in anc[d]
    <3>1. us[a] # NoTimeline
      BY <1>1, <2>1 DEF HandsOver
    <3>2. ASSUME a # d
          PROVE  \E c \in Branch \ {Root} : /\ us[c] # NoTimeline
                                            /\ us[c].parent = a
                                            /\ c \in anc[d]
      <4>1. PICK c \in Branch \ {Root} : /\ ts[c] # NoTimeline
                                         /\ ts[c].parent = a
                                         /\ c \in anc[d]
        BY <1>1, <2>1, <3>2
      <4>2. c \in Branch \ gone
        BY <1>1, <2>1, <4>1
      <4>3. us[c] # NoTimeline /\ us[c].parent = a
        BY <4>1, <4>2 DEF HandsOver
      <4> QED
        BY <4>1, <4>3
    <3> QED
      BY <3>1, <3>2
  <2> QED
    BY <2>2, <2>3
<1>3. anc \in [Branch -> SUBSET Branch]
  BY DEF Ancestry
<1>4. Ancestry(us, anc)
  BY <1>2, <1>3 DEF Ancestry
<1> QED
  BY <1>1, <1>4

\* Those that hold a scalar in common are kin without those that are gone.
LEMMA HandOverLinked ==
    ASSUME NEW ts, NEW us, NEW gs, NEW anc, Ancestry(ts, anc), Linked(ts, gs, anc),
           NEW gone, NEW t \in Branch, HandsOver(ts, us, gone, t)
    PROVE  Linked(us, gs, anc)
<1> SUFFICES ASSUME NEW c \in Branch, NEW d \in Branch, NEW v, NEW p, NEW x,
                    c # d, Holds(us, c, v, p, x), Holds(us, d, v, p, x)
             PROVE  \E i \in DOMAIN gs, r \in Branch, S \in SUBSET Branch :
                       /\ \A a \in Branch : Holds(us, a, v, p, x) => a \in S
                       /\ Kin(us, gs, anc, v, i, r, S)
  BY DEF Linked
<1>1. /\ \A b \in gone : b \in Branch /\ us[b] = NoTimeline
      /\ \A a \in Branch : Holds(us, a, v, p, x) => a \notin gone
  BY DEF HandsOver, Holds
<1>2. \A a \in Branch : Holds(us, a, v, p, x) =>
          \/ Holds(ts, a, v, p, x)
          \/ a = t /\ \E b \in gone : Holds(ts, b, v, p, x)
  BY DEF HandsOver
<1>3. PICK e \in Branch \ gone : e \in {c, d} /\ Holds(ts, e, v, p, x)
  BY <1>1, <1>2
<1>4. \E o \in Branch : o # e /\ Holds(ts, o, v, p, x)
  <2>1. PICK o \in {c, d} : o # e
    OBVIOUS
  <2>2. CASE Holds(ts, o, v, p, x)
    BY <2>1, <2>2
  <2>3. CASE ~Holds(ts, o, v, p, x)
    BY <1>1, <1>2, <2>1, <2>3
  <2> QED
    BY <2>2, <2>3
<1>5. PICK i \in DOMAIN gs, r \in Branch, S \in SUBSET Branch :
           /\ \A a \in Branch : Holds(ts, a, v, p, x) => a \in S
           /\ Kin(ts, gs, anc, v, i, r, S)
  BY <1>3, <1>4 DEF Linked
<1>6. r \notin gone
  <2>1. e \in S
    BY <1>3, <1>5
  <2>2. ts[e] # NoTimeline /\ r \in anc[e]
    BY <1>5, <2>1 DEF Kin
  <2> QED
    BY <1>3, <2>2, HandOverAncestry
<1>7. PICK T \in SUBSET Branch : T = S \ gone
  OBVIOUS
<1>8. ASSUME NEW a \in Branch, Holds(us, a, v, p, x)
      PROVE  a \in T
  <2>1. a \notin gone
    BY <1>1, <1>8
  <2>2. CASE Holds(ts, a, v, p, x)
    BY <1>5, <1>7, <2>1, <2>2
  <2>3. CASE ~Holds(ts, a, v, p, x)
    <3>1. a = t
      BY <1>2, <1>8, <2>3
    <3>2. PICK b \in gone : Holds(ts, b, v, p, x)
      BY <1>2, <1>8, <2>3
    <3>3. b \in S /\ b # r
      BY <1>1, <1>5, <1>6, <3>2
    <3>4. ts[b].parent \in S
      BY <1>5, <3>3 DEF Kin
    <3>5. ts[b].parent = t
      BY DEF HandsOver
    <3> QED
      BY <1>7, <2>1, <3>1, <3>4, <3>5
  <2> QED
    BY <2>2, <2>3
<1>9. ASSUME NEW a \in T
      PROVE  /\ us[a] # NoTimeline
             /\ <<a, v>> \in gs[i]
             /\ r \in anc[a]
             /\ a = r \/ (a # Root /\ us[a].parent \in T)
  <2>1. a \in S /\ a \in Branch \ gone
    BY <1>7
  <2>2. ts[a] # NoTimeline /\ <<a, v>> \in gs[i] /\ r \in anc[a]
    BY <1>5, <2>1 DEF Kin
  <2>3. us[a] # NoTimeline /\ us[a].parent = ts[a].parent
    BY <2>1, <2>2 DEF HandsOver
  <2>4. ts[a].parent \notin gone
    BY <2>1, <2>2 DEF HandsOver
  <2>5. a = r \/ (a # Root /\ ts[a].parent \in S)
    BY <1>5, <2>1 DEF Kin
  <2> QED
    BY <1>7, <2>2, <2>3, <2>4, <2>5
<1>10. Kin(us, gs, anc, v, i, r, T)
  BY <1>9 DEF Kin
<1> QED
  BY <1>8, <1>10

\* The timelines stay tidy when some hand over what they hold.
LEMMA HandOverTidy ==
    ASSUME NEW ts, NEW us, NEW gs, NEW n, NEW sp, NEW anc, Tidy(ts, gs, n, sp, anc),
           NEW gone, NEW t \in Branch, HandsOver(ts, us, gone, t),
           AreTimelines(us), AllTrees(us, FALSE), Unanchored(us)
    PROVE  Tidy(us, gs, n, sp, anc)
<1>1. ASSUME NEW c \in Branch, NEW v, NEW p, NEW x, Holds(us, c, v, p, x)
      PROVE  \E d \in Branch : Holds(ts, d, v, p, x)
  BY <1>1 DEF HandsOver
<1>2. OnePlace(us)
  <2> SUFFICES ASSUME NEW c \in Branch, NEW d \in Branch, NEW v, NEW w, NEW p, NEW q,
                      NEW x, Holds(us, c, v, p, x), Holds(us, d, w, q, x)
               PROVE  v = w /\ p = q
    BY DEF OnePlace
  <2>1. PICK a \in Branch : Holds(ts, a, v, p, x)
    BY <1>1
  <2>2. PICK b \in Branch : Holds(ts, b, w, q, x)
    BY <1>1
  <2> QED
    BY <2>1, <2>2 DEF Tidy, OnePlace
<1>3. Fresh(us, n, sp)
  BY <1>1 DEF Tidy, Fresh
<1>4. Gone(us, sp)
  BY <1>1 DEF Tidy, Gone
<1>5. Ancestry(us, anc) /\ Linked(us, gs, anc)
  BY HandOverAncestry, HandOverLinked DEF Tidy
<1> QED
  BY <1>2, <1>3, <1>4, <1>5 DEF Tidy

\* merge into the parent, where all fits.
LEMMA MergeTidy ==
    ASSUME Disciplined, NEW all, Strategies \subseteq all, AreStrategies(all, FALSE),
           NEW anc, TidyNow(anc), NEW t \in Branch, NEW bs \in Merging, Merge(bs, t),
           ~MergeRunsOut(bs, t)
    PROVE  TidyNext(anc)
<1>1. /\ AreTimelines(timeline) /\ AllTrees(timeline, FALSE) /\ Unanchored(timeline)
      /\ groups' = groups /\ nextValue' = nextValue /\ spent' = spent
  BY DEF TidyNow, Tidy, Merge
<1>2. /\ Active(t) /\ MergesIntoParent(bs, t)
      /\ \A b \in Range(bs) : Active(b) /\ b # Root
  BY DEF Merge, Executes
<1>3. /\ IsTimeline(timeline[t]) /\ AreTrees(timeline[t].arena, FALSE)
      /\ DOMAIN timeline[t].anchors = {}
  BY <1>1, <1>2 DEF AreTimelines, AllTrees, Unanchored, Active
<1>4. ~Reverts
  <2>1. bs[1] \in Range(bs) /\ bs[1] \in Branch
    BY MergingIs DEF Range
  <2>2. timeline'[bs[1]] = NoTimeline
    BY <2>1 DEF MergeRunsOut
  <2>3. Ends(bs[1])
    BY <1>2, <2>1, <2>2 DEF Ends
  <2> QED
    BY <1>1, <2>1, <2>3, ToAnchorKeeps DEF Reverts, NoneEnds
<1>5. PICK resolution \in [Contested(bs) -> Strategies] : \E merged, insert :
         /\ merged = Combined(bs, resolution).merged
         /\ Gathers(merged, bs)
         /\ Delivers(insert, merged, bs, t)
  BY <1>1, <1>4, MergeCases
<1>6. PICK merged, insert : /\ merged = Combined(bs, resolution).merged
                            /\ Delivers(insert, merged, bs, t)
  BY <1>5
<1>7. Brings(merged, bs, FALSE)
  BY <1>1, <1>2, <1>6, CombinedBrings
<1>8. \A b \in Range(bs) : b \in Branch /\ b # t
  BY <1>2, MergingIs DEF Range, MergesIntoParent
<1>9. insert.error = "none"
  <2>1. bs[1] \in Range(bs)
    BY MergingIs DEF Range
  <2>2. timeline'[bs[1]] = NoTimeline
    BY <2>1 DEF MergeRunsOut
  <2>3. timeline[bs[1]] # NoTimeline /\ bs[1] # t /\ bs[1] \in Branch
    BY <1>2, <1>8, <2>1 DEF Active
  <2> QED
    BY <1>6, <2>2, <2>3 DEF Delivers
<1>10. PICK us : us = timeline'
  OBVIOUS
<1>11. PICK u : u = [timeline[t] EXCEPT !.arena = insert.arena]
  OBVIOUS
<1>12. /\ us[t] = u
       /\ \A b \in Range(bs) : us[b] = NoTimeline
       /\ \A c \in Branch \ Range(bs) : c # t => us[c] = timeline[c]
  BY <1>6, <1>8, <1>9, <1>10, <1>11 DEF Delivers
<1>13. /\ u.arena = insert.arena /\ u.anchors = timeline[t].anchors
       /\ IsTimeline(u) /\ u # NoTimeline
  BY <1>3, <1>6, <1>11, TimelineUpdate, TimelineIsActive DEF Delivers
<1>14. u.parent = timeline[t].parent
  <2>1. u = [y \in DOMAIN timeline[t] |-> IF y = "arena" THEN insert.arena
                                          ELSE timeline[t][y]]
    BY <1>11
  <2>2. DOMAIN timeline[t] = {"arena", "anchors", "parent"}
    BY <1>3 DEF IsTimeline
  <2> QED
    BY <2>1, <2>2
<1>15. /\ AreTrees(u.arena, FALSE)
       /\ \A v, p, x : Has(u.arena, v, p, x) =>
            \/ Has(timeline[t].arena, v, p, x)
            \/ \E b \in Range(bs) : Has(timeline[b].arena, v, p, x)
  <2>1. Draws(u.arena, timeline[t].arena, merged)
    BY <1>6, <1>13 DEF Delivers
  <2>2. AreTrees(u.arena, FALSE) /\ Inherits(u.arena, timeline[t].arena, bs)
    BY <1>3, <1>7, <2>1, DrawnTrees
  <2> QED
    BY <2>2 DEF Inherits
<1>16. AreTimelines(us)
  BY <1>1, <1>2, <1>6, <1>10, DeliversKeeps DEF StepKeeps
<1>17. AllTrees(us, FALSE) /\ Unanchored(us)
  <2>1. ASSUME NEW c \in Branch, us[c] # NoTimeline
        PROVE  AreTrees(us[c].arena, FALSE) /\ DOMAIN us[c].anchors = {}
    <3>1. CASE c = t
      BY <1>3, <1>12, <1>13, <1>15, <3>1
    <3>2. CASE c # t
      <4>1. us[c] = timeline[c]
        BY <1>12, <2>1, <3>2
      <4> QED
        BY <1>1, <2>1, <4>1 DEF AllTrees, Unanchored
    <3> QED
      BY <3>1, <3>2
  <2> QED
    BY <2>1 DEF AllTrees, Unanchored
<1>18. ASSUME NEW c \in Branch, NEW v, NEW p, NEW x, Holds(us, c, v, p, x)
       PROVE  \/ Holds(timeline, c, v, p, x)
              \/ c = t /\ \E b \in Range(bs) : Holds(timeline, b, v, p, x)
  <2>1. CASE c = t
    <3>1. Has(u.arena, v, p, x)
      BY <1>12, <1>18, <2>1 DEF Holds
    <3> QED
      BY <1>2, <1>15, <2>1, <3>1 DEF Holds, Active
  <2>2. CASE c # t
    BY <1>12, <1>18, <2>2 DEF Holds
  <2> QED
    BY <2>1, <2>2
<1>19. HandsOver(timeline, us, Range(bs), t)
  <2>1. \A b \in Range(bs) : /\ b \in Branch /\ timeline[b] # NoTimeline
                             /\ us[b] = NoTimeline
                             /\ b # Root /\ timeline[b].parent = t
    BY <1>2, <1>8, <1>12 DEF Active, MergesIntoParent
  <2>2. \A c \in Branch : timeline[c] # NoTimeline =>
                             timeline[c].parent \notin Range(bs)
    BY <1>2 DEF Active, MergesIntoParent
  <2>3. \A c \in Branch \ Range(bs) :
           /\ us[c] # NoTimeline <=> timeline[c] # NoTimeline
           /\ timeline[c] # NoTimeline => us[c].parent = timeline[c].parent
    BY <1>2, <1>12, <1>13, <1>14 DEF Active
  <2> HIDE DEF Range
  <2> QED
    BY <1>18, <2>1, <2>2, <2>3 DEF HandsOver
<1>20. Tidy(us, groups, nextValue, spent, anc)
  BY <1>16, <1>17, <1>19, HandOverTidy DEF TidyNow
<1> QED
  BY <1>1, <1>10, <1>20 DEF TidyNext

\* No merge of the step leaves one of its timelines active.
MergesFit == ~ \E bs \in Merging, t \in Branch : MergeRunsOut(bs, t)

\* The inductive invariant: the timelines are tidy for some descent.
ValuesTidy ==
    /\ nextValue \in Nat
    /\ AreGroups(groups)
    /\ \E anc : TidyNow(anc)

\* At first there is nothing but main, with an empty arena.
LEMMA InitTidy ==
    ASSUME Init
    PROVE  ValuesTidy
<1>1. nextValue = 1 /\ groups = <<>> /\ spent = <<>> /\ DOMAIN spent = {}
  BY EmptyDomain DEF Init
<1>2. AreGroups(groups)
  BY <1>1 DEF AreGroups
<1>3. PICK capacity \in Capacities :
         timeline = [b \in Branch |-> IF b = Root
                                      THEN NewTimeline(NewArena(capacity), Root)
                                      ELSE NoTimeline]
  BY DEF Init
<1>4. PICK u : u = NewTimeline(NewArena(capacity), Root)
  OBVIOUS
<1>5. DOMAIN u.arena.bindings = {} /\ DOMAIN u.anchors = {}
  BY <1>4, EmptyDomain DEF NewTimeline, NewArena
<1>6. \A b \in Branch : timeline[b] # NoTimeline => b = Root /\ timeline[b] = u
  BY <1>3, <1>4
<1>7. \A b \in Branch : \A v, p, x : ~Holds(timeline, b, v, p, x)
  BY <1>5, <1>6 DEF Holds, Has
<1>8. AllTrees(timeline, FALSE) /\ Unanchored(timeline)
  BY <1>5, <1>6 DEF AllTrees, AreTrees, Unanchored
<1>9. PICK anc : anc = [b \in Branch |-> {b}]
  OBVIOUS
<1>10. Ancestry(timeline, anc)
  BY <1>9 DEF Ancestry
<1>11. /\ OnePlace(timeline) /\ Fresh(timeline, nextValue, spent)
       /\ Gone(timeline, spent) /\ Linked(timeline, groups, anc)
  BY <1>1, <1>7 DEF OnePlace, Fresh, Gone, Linked
<1>12. TidyNow(anc)
  BY <1>8, <1>10, <1>11, InitSound DEF TidyNow, Tidy
<1> QED
  BY <1>1, <1>2, <1>12 DEF ValuesTidy

\* Every statement keeps the timelines tidy, unless it sets an anchor or is a merge
\* that leaves one of its timelines active.
LEMMA NextTidy ==
    ASSUME Disciplined, "anchor" \notin Stmts, NEW all, Strategies \subseteq all,
           AreStrategies(all, FALSE), nextValue \in Nat, AreGroups(groups), NEW anc,
           TidyNow(anc), Next, MergesFit
    PROVE  nextValue' \in Nat /\ AreGroups(groups') /\ \E new : TidyNext(new)
<1>1. PICK b \in Branch : ValueStatement(b) \/ TimelineStatement(b)
  BY DEF Next
<1>2. CASE ValueStatement(b)
  <2>1. CASE \E v \in Name, kind \in Literals, fs \in NonEmpty(Field) :
               Let(b, v, kind, fs)
    <3>1. PICK v \in Name, kind \in Literals, fs \in NonEmpty(Field) :
             Let(b, v, kind, fs)
      BY <2>1
    <3>2. nextValue' = nextValue + 1 /\ groups' = groups
      BY <3>1 DEF Let
    <3> QED
      BY <3>1, <3>2, LetTidy
  <2>2. CASE \E v \in Name, e \in Expressions : Assign(b, v, e)
    <3>1. PICK v \in Name, e \in Expressions : Assign(b, v, e)
      BY <2>2
    <3>2. nextValue' = nextValue /\ groups' = groups
      BY <3>1 DEF Assign
    <3> QED
      BY <3>1, <3>2, AssignTidy
  <2>3. CASE \E v \in Name, e \in Expressions : MatchEntropy(b, e, v)
    <3>1. PICK v \in Name, e \in Expressions : MatchEntropy(b, e, v)
      BY <2>3
    <3>2. nextValue' = nextValue /\ groups' = groups
      BY <3>1 DEF MatchEntropy
    <3> QED
      BY <3>1, <3>2, MatchEntropyTidy
  <2>4. CASE \E w \in Name, path \in Paths, e \in Expressions :
               FieldUpdate(b, w, path, e)
    <3>1. PICK w \in Name, path \in Paths, e \in Expressions :
             FieldUpdate(b, w, path, e)
      BY <2>4
    <3>2. nextValue' = nextValue /\ groups' = groups
      BY <3>1 DEF FieldUpdate
    <3> QED
      BY <3>1, <3>2, FieldUpdateTidy
  <2>5. CASE \E e \in Expressions : Expression(b, e)
    <3>1. PICK e \in Expressions : Expression(b, e)
      BY <2>5
    <3>2. nextValue' = nextValue /\ groups' = groups
      BY <3>1 DEF Expression
    <3> QED
      BY <3>1, <3>2, ExpressionTidy
  <2>6. CASE \E v \in Name : DecayVariable(b, v)
    <3>1. PICK v \in Name : DecayVariable(b, v)
      BY <2>6
    <3>2. nextValue' = nextValue /\ groups' = groups
      BY <3>1 DEF DecayVariable
    <3> QED
      BY <3>1, <3>2, DecayVariableTidy
  <2> QED
    BY <1>2, <2>1, <2>2, <2>3, <2>4, <2>5, <2>6 DEF ValueStatement
<1>3. CASE TimelineStatement(b)
  <2>1. CASE \E capacity \in Capacities : Isolate(b, capacity)
    <3>1. PICK capacity \in Capacities : Isolate(b, capacity)
      BY <2>1
    <3>2. nextValue' = nextValue /\ groups' = groups
      BY <3>1 DEF Isolate
    <3> QED
      BY <3>1, <3>2, IsolateTidy
  <2>2. CASE \E a \in AnchorName : SetAnchor(b, a)
    BY <2>2 DEF SetAnchor, Executes
  <2>3. CASE \E a \in AnchorName : Rewind(b, a)
    BY <2>3 DEF Rewind, Executes, Active, TidyNow, Tidy, Unanchored
  <2>4. CASE Commit(b)
    <3>1. nextValue' = nextValue /\ groups' = groups
      BY <2>4 DEF Commit
    <3> QED
      BY <2>4, <3>1, CommitTidy
  <2>5. CASE \E names \in NonEmpty(Name) : Entangle(b, names)
    <3>1. PICK names \in NonEmpty(Name) : Entangle(b, names)
      BY <2>5
    <3>2. nextValue' = nextValue
      BY <3>1 DEF Entangle
    <3> QED
      BY <3>1, <3>2, EntangleTidy
  <2>6. CASE \E c \in Branch : Split(b, c)
    <3>1. PICK c \in Branch : Split(b, c)
      BY <2>6
    <3>2. nextValue' = nextValue
      BY <3>1 DEF Split
    <3> QED
      BY <3>1, <3>2, SplitTidy
  <2>7. CASE \E bs \in Merging : Merge(bs, b)
    <3>1. PICK bs \in Merging : Merge(bs, b)
      BY <2>7
    <3>2. nextValue' = nextValue /\ groups' = groups
      BY <3>1 DEF Merge
    <3>3. ~MergeRunsOut(bs, b)
      BY DEF MergesFit
    <3> QED
      BY <3>1, <3>2, <3>3, MergeTidy
  <2> QED
    BY <1>3, <2>1, <2>2, <2>3, <2>4, <2>5, <2>6, <2>7 DEF TimelineStatement
<1> QED
  BY <1>1, <1>2, <1>3

\* So does every step.
LEMMA StepTidy ==
    ASSUME Disciplined, "anchor" \notin Stmts, NEW all, Strategies \subseteq all,
           AreStrategies(all, FALSE), ValuesTidy, [Next]_vars, [MergesFit]_vars
    PROVE  ValuesTidy'
<1>1. PICK anc : TidyNow(anc)
  BY DEF ValuesTidy
<1>2. nextValue \in Nat /\ AreGroups(groups)
  BY DEF ValuesTidy
<1>3. CASE UNCHANGED vars
  BY <1>1, <1>2, <1>3 DEF vars, ValuesTidy, TidyNow, AreGroups
<1>4. CASE Next /\ MergesFit
  <2>1. nextValue' \in Nat /\ AreGroups(groups') /\ \E new : TidyNext(new)
    BY <1>1, <1>2, <1>4, NextTidy
  <2> QED
    BY <2>1 DEF ValuesTidy, TidyNow, TidyNext, AreGroups
<1> QED
  BY <1>3, <1>4

\* What has been spent was spent once.
LEMMA TidySpent ==
    ASSUME ValuesTidy
    PROVE  SpentOnce
  BY DEF ValuesTidy, TidyNow, Tidy, Gone, SpentOnce

\* SpentOnce for every set of names, fields, timelines, capacities and strategies,
\* in programs that entangle what they copy and merge into the parent (Disciplined),
\* return to no snapshot, and in which every merge fits: a merge that runs out of
\* memory leaves copies in the target and in its sources that no group ties
\* together, and a snapshot brings back what was spent since.  AreStrategies only
\* says that the strategies, with those for fields, are of the kinds there are.
THEOREM NothingSpentTwice ==
    ASSUME Disciplined, "anchor" \notin Stmts, NEW CONSTANT all, Strategies \subseteq all,
           AreStrategies(all, FALSE)
    PROVE  Spec /\ [][MergesFit]_vars => []SpentOnce
<1>1. Init => ValuesTidy
  BY InitTidy
<1>2. ValuesTidy /\ [Next]_vars /\ [MergesFit]_vars => ValuesTidy'
  BY StepTidy
<1>3. ValuesTidy => SpentOnce
  BY TidySpent
<1> QED
  BY <1>1, <1>2, <1>3, PTL DEF Spec

=============================================================================
