------------------------- MODULE EntangledTimelines -------------------------
(***************************************************************************)
(* Timelines that are split off each other, take values and fields out of  *)
(* their arenas, are entangled with each other and merge back.             *)
(*                                                                         *)
(* The statements of the timelines interleave freely.  Outside of a block  *)
(* an error is reported and execution goes on, so a failing statement is   *)
(* a step that keeps what it did before it failed.                         *)
(***************************************************************************)
EXTENDS Reconciliation

CONSTANTS
    Root,         \* main
    Branch,       \* the names of timelines, Root included
    Name,         \* variable names
    AnchorName,   \* anchor names
    Capacities,   \* the capacities of main and of isolate blocks
    Strategies,   \* the resolution strategies of the program's merges
    Stmts,        \* the kinds of statement the program uses
    Disciplined,  \* TRUE: a split starts a new timeline and copies nothing but
                  \* entangled values, and a merge goes into the parent
    MaxValue,     \* bound on the scalars created
    MaxGroups     \* bound on entangle statements

ASSUME EntangledAssumption ==
    /\ Root \in Branch
    /\ Capacities \subseteq Nat
    /\ IsFiniteSet(Name)
    /\ {MaxValue, MaxGroups} \subseteq Nat
    /\ Disciplined \in BOOLEAN

VARIABLES
    timeline,   \* root_timeline and active_branches
    groups,     \* entanglements
    nextValue,  \* the scalar the next literal creates
    spent       \* history variable: how often each scalar was spent, if ever

vars == <<timeline, groups, nextValue, spent>>

\* "parent" is a history field.
NewTimeline(arena, parent) == [arena |-> arena, anchors |-> <<>>,
                               parent |-> parent]

\* What stands for a timeline that is not active.
NoTimeline == [active |-> FALSE]

Active(b) == timeline[b] # NoTimeline

Init ==
    /\ \E capacity \in Capacities :
         timeline = [b \in Branch |-> IF b = Root
                                      THEN NewTimeline(NewArena(capacity), Root)
                                      ELSE NoTimeline]
    /\ groups = <<>>
    /\ nextValue = 1
    /\ spent = <<>>

Executes(b, k) == Active(b) /\ k \in Stmts

\* The scalars inside a state.
Scalars(state) ==
    {node[2].payload.value : node \in {m \in Nodes(state) :
                                       IsValid(m[2]) /\ ~HasFields(m[2])}}

TimesSpent(x) == IF x \in DOMAIN spent THEN spent[x] ELSE 0

Spend(state) ==
    spent' = [x \in DOMAIN spent \union Scalars(state) |->
                IF x \in Scalars(state) THEN TimesSpent(x) + 1 ELSE spent[x]]

\* Bound on the values a program makes: no field of the state lies deeper than
\* MaxDepth if the state itself lies at the depth given.
NestsWithin(state, depth) ==
    \A node \in Nodes(state) :
        HasFields(node[2]) => depth + Len(node[1]) < MaxDepth

-----------------------------------------------------------------------------
(* Entanglement.  The operators take and return the map of all timelines.   *)

\* The other members of the groups that <<b, v>> is in.
Partners(b, v) ==
    (UNION {groups[i] : i \in {j \in DOMAIN groups : <<b, v>> \in groups[j]}})
      \ {<<b, v>>}

SetArena(ts, b, arena) == [ts EXCEPT ![b].arena = arena]

\* What a partner w loses: everything, or one of its fields.  A failure is
\* ignored.
Everything == [all |-> TRUE]
OneField(f) == [all |-> FALSE, field |-> f]

Lose(arena, w, what) ==
    IF what.all THEN SetConsumed(arena, w).arena
    ELSE ConsumeField(arena, w, what.field).arena

LoseAll(arena, names, what) ==
    FoldSet(LAMBDA w, rest : Lose(rest, w, what), arena, names)

\* Every partner of <<b, v>> loses it.
OnPartners(ts, b, v, what) ==
    [c \in Branch |->
        IF ts[c] = NoTimeline THEN NoTimeline
        ELSE [ts[c] EXCEPT !.arena =
                LoseAll(@, {w \in Name : <<c, w>> \in Partners(b, v)}, what)]]

PropagateEntanglement(ts, b, v) == OnPartners(ts, b, v, Everything)

\* Fault: only the members of the group in the same timeline lose the field.
BugPropagateFieldDecay(ts, b, v, f) ==
    [ts EXCEPT ![b] = OnPartners(ts, b, v, OneField(f))[b]]

PropagateFieldDecay(ts, b, v, f) == OnPartners(ts, b, v, OneField(f))

-----------------------------------------------------------------------------
(* Expressions that consume: an identifier or a field of one.               *)

Identifier(v) == [kind |-> "identifier", name |-> v]
FieldAccess(v, f) == [kind |-> "field", name |-> v, field |-> f]
Expressions == {Identifier(v) : v \in Name}
                 \union {FieldAccess(v, f) : v \in Name, f \in Field}

\* What evaluating e on branch b returns, and the timelines it leaves.
Evaluate(b, e) ==
    LET arena == timeline[b].arena
        read  == IF e.kind = "identifier" THEN Consume(arena, e.name)
                 ELSE ConsumeField(arena, e.name, e.field)
        after == SetArena(timeline, b, read.arena)
    IN  [error |-> read.error,
         state |-> read.state,
         timelines |->
            CASE read.error # "none" -> after
              [] read.error = "none" /\ e.kind = "identifier" ->
                    PropagateEntanglement(after, b, e.name)
              [] read.error = "none" /\ e.kind = "field" ->
                    PropagateFieldDecay(after, b, e.name, e.field)]

\* evaluate_entropic_state: takes the state whatever it is.
EvaluateEntropic(b, e) ==
    LET arena == timeline[b].arena
        read  == IF e.kind = "identifier" THEN ConsumeEntropic(arena, e.name)
                 ELSE ConsumeFieldEntropic(arena, e.name, e.field)
        after == SetArena(timeline, b, read.arena)
    IN  [error |-> read.error,
         state |-> read.state,
         timelines |->
            CASE read.error # "none" -> after
              [] read.error = "none" /\ e.kind = "identifier" ->
                    PropagateEntanglement(after, b, e.name)
              [] read.error = "none" /\ e.kind = "field" ->
                    PropagateFieldDecay(after, b, e.name, e.field)]

-----------------------------------------------------------------------------
(* Statements on values *)

Literals == {"scalar", "struct", "topology", "nested"}

\* The state that the n-th literal makes, with the fields fs.  A scalar is the
\* number of the literal and its place in it.
Literal(kind, n, fs) ==
    LET at(place) == [f \in fs |-> Valid(Scalar(Append(place, f)))]
    IN  CASE kind = "scalar"   -> Valid(Scalar(<<n>>))
          [] kind = "struct"   -> Valid(Struct(at(<<n>>)))
          [] kind = "topology" -> Valid(Topology(at(<<n>>)))
          [] kind = "nested"   ->
                Valid(Struct([f \in fs |-> Valid(Struct(at(<<n, f>>)))]))

\* let v = <literal>
Let(b, v, kind, fs) ==
    /\ Executes(b, kind)
    /\ nextValue <= MaxValue
    /\ LET literal == Literal(kind, nextValue, fs)
       IN  /\ NestsWithin(literal, 0)
           /\ timeline' = SetArena(timeline, b,
                                   Insert(timeline[b].arena, v, literal).arena)
    /\ nextValue' = nextValue + 1
    /\ UNCHANGED <<groups, spent>>

\* let v = e: a value that does not fit is lost.
Assign(b, v, e) ==
    /\ Executes(b, "assign")
    /\ LET value == Evaluate(b, e)
       IN  \/ /\ value.error # "none"
              /\ timeline' = value.timelines
           \/ /\ value.error = "none"
              /\ timeline' = SetArena(value.timelines, b,
                   Insert(value.timelines[b].arena, v, value.state).arena)
    /\ UNCHANGED <<groups, nextValue, spent>>

\* e as a statement: the value is used up.
Expression(b, e) ==
    /\ Executes(b, "expression")
    /\ LET value == Evaluate(b, e)
       IN  /\ timeline' = value.timelines
           /\ IF value.error = "none" THEN Spend(value.state)
              ELSE UNCHANGED spent
    /\ UNCHANGED <<groups, nextValue>>

\* w.path = e
FieldUpdate(b, w, path, e) ==
    /\ Executes(b, "update")
    /\ LET value == Evaluate(b, e)
       IN  \/ /\ value.error # "none"
              /\ timeline' = value.timelines
           \/ /\ value.error = "none"
              /\ NestsWithin(value.state, Len(path))
              /\ timeline' = SetArena(value.timelines, b,
                   UpdateDeepField(value.timelines[b].arena, w, path,
                                   value.state.payload).arena)
    /\ UNCHANGED <<groups, nextValue, spent>>

\* What a match on e looks at: a field reads as consumed if its parent does.
Status(b, e) ==
    LET state == StateOf(timeline[b].arena, e.name)
    IN  CASE e.kind = "identifier" -> state
          [] e.kind = "field" /\ HasFields(state)
               /\ e.field \in DOMAIN FieldsOf(state) -> FieldsOf(state)[e.field]
          [] e.kind = "field" /\ ~(HasFields(state)
               /\ e.field \in DOMAIN FieldsOf(state)) -> Consumed

\* match entropy e with an arm that binds v: the state moves into v as it is.
\* (The other arms execute statements of their own.)
MatchEntropy(b, e, v) ==
    /\ Executes(b, "match")
    /\ Status(b, e).tag \in {"Valid", "Decayed"}
    /\ LET value == EvaluateEntropic(b, e)
       IN  \/ /\ value.error # "none"
              /\ timeline' = value.timelines
           \/ /\ value.error = "none"
              /\ timeline' = SetArena(value.timelines, b,
                   Insert(value.timelines[b].arena, v, value.state).arena)
    /\ UNCHANGED <<groups, nextValue, spent>>

\* The time limit of a decaying value has passed; its partners are left alone.
\* (A decay handler executes statements of their own.)
DecayVariable(b, v) ==
    /\ Executes(b, "decay")
    /\ IsValid(StateOf(timeline[b].arena, v))
    /\ timeline' = SetArena(timeline, b, Decay(timeline[b].arena, v).arena)
    /\ UNCHANGED <<groups, nextValue, spent>>

\* isolate with a memory budget
Isolate(b, capacity) ==
    /\ Executes(b, "isolate")
    /\ timeline' = [timeline EXCEPT ![b].arena.capacity = capacity]
    /\ UNCHANGED <<groups, nextValue, spent>>

SetAnchor(b, a) ==
    /\ Executes(b, "anchor")
    /\ timeline' = [timeline EXCEPT ![b].anchors =
                      Put(@, a, timeline[b].arena)]
    /\ UNCHANGED <<groups, nextValue, spent>>

Rewind(b, a) ==
    /\ Executes(b, "rewind")
    /\ a \in DOMAIN timeline[b].anchors
    /\ timeline' = SetArena(timeline, b, timeline[b].anchors[a])
    /\ UNCHANGED <<groups, nextValue, spent>>

\* } of commit, outside of a speculation
Commit(b) ==
    /\ Executes(b, "commit")
    /\ timeline' = [timeline EXCEPT ![b].anchors = <<>>,
                                    ![b].arena = CompactConsumed(@)]
    /\ UNCHANGED <<groups, nextValue, spent>>

-----------------------------------------------------------------------------
(* Entangle, split and merge *)

Entangle(b, names) ==
    /\ Executes(b, "entangle")
    /\ Len(groups) < MaxGroups
    /\ groups' = Append(groups, {<<b, v>> : v \in names})
    /\ UNCHANGED <<timeline, nextValue, spent>>

Entangled(b, v) == \E i \in DOMAIN groups : <<b, v>> \in groups[i]

\* The names of p that have something to lose are entangled.
FullyEntangled(p) ==
    \A v \in Name : Scalars(StateOf(timeline[p].arena, v)) # {}
                      => Entangled(p, v)

\* split p into [c]: an active timeline of that name is replaced.  The copy of
\* each variable joins the groups of the original.
Split(p, c) ==
    /\ Executes(p, "split")
    /\ c \in Branch \ {Root}
    /\ Disciplined => ~Active(c) /\ FullyEntangled(p)
    /\ timeline' = [timeline EXCEPT ![c] = NewTimeline(timeline[p].arena, p)]
    /\ groups' = [i \in DOMAIN groups |->
                    groups[i] \union {<<c, v>> : v \in {w \in Name :
                                                 <<p, w>> \in groups[i]}}]
    /\ UNCHANGED <<nextValue, spent>>

\* The bindings of the merging timelines, combined in their order; a name that
\* one of them brings is taken as it is.
Combined(bs, resolution) ==
    LET bindings(i) == timeline[bs[i]].arena.bindings
        names(i) == UNION {DOMAIN bindings(j) : j \in 1 .. i}
        merge[i \in 1 .. Len(bs)] ==
            IF i = 1
            THEN [merged |-> bindings(1), reversions |-> {}]
            ELSE LET before == merge[i - 1].merged
                     both   == DOMAIN before \intersect DOMAIN bindings(i)
                     resolved == [k \in both |->
                        Resolve(before[k], bindings(i)[k], resolution[k], bs[i])]
                 IN  [merged |-> [k \in names(i) |->
                                    IF k \in both THEN resolved[k].state
                                    ELSE IF k \in DOMAIN before THEN before[k]
                                    ELSE bindings(i)[k]],
                      reversions |->
                        IF merge[i - 1].reversions # {}
                        THEN merge[i - 1].reversions
                        ELSE UNION {resolved[k].reversions : k \in both}]
    IN  merge[Len(bs)]

\* Inserting bindings one by one, in the order given, until one does not fit.
InsertAll(arena, bindings, order) ==
    LET n == Len(order)
        step[i \in 0 .. n] ==
            IF i = 0 THEN Ok(arena, Consumed)
            ELSE IF step[i - 1].error # "none" THEN step[i - 1]
            ELSE Insert(step[i - 1].arena, order[i], bindings[order[i]])
    IN  step[n]

Orders(S) == {s \in [1 .. Cardinality(S) -> S] : IsInjective(s)}

\* The merge triggers a reversion: the branch named returns to its anchor, and
\* nothing is merged.
Revert(reversion) ==
    /\ Active(reversion.branch)
    /\ LET anchors == timeline[reversion.branch].anchors
       IN  /\ reversion.anchor \in DOMAIN anchors
           /\ timeline' = SetArena(timeline, reversion.branch,
                                   anchors[reversion.anchor])

\* Fault: the merging timelines are collected whether or not all fitted.
BugMergeInto(bs, t, merged) ==
    \E order \in Orders(DOMAIN merged) :
        LET insert == InsertAll(timeline[t].arena, merged, order)
        IN  timeline' = [b \in Branch |->
                CASE b \in Range(bs) -> NoTimeline
                  [] b = t /\ b \notin Range(bs) ->
                        [timeline[t] EXCEPT !.arena = insert.arena]
                  [] b # t /\ b \notin Range(bs) -> timeline[b]]

\* The merging timelines have been combined into the target: they are gone.
\* One that does not fit leaves them active and the target half merged.
MergeInto(bs, t, merged) ==
    \E order \in Orders(DOMAIN merged) :
        LET insert == InsertAll(timeline[t].arena, merged, order)
        IN  timeline' = [b \in Branch |->
                CASE insert.error = "none" /\ b \in Range(bs) -> NoTimeline
                  [] b = t /\ ~(insert.error = "none" /\ b \in Range(bs)) ->
                        [timeline[t] EXCEPT !.arena = insert.arena]
                  [] b # t /\ ~(insert.error = "none" /\ b \in Range(bs)) ->
                        timeline[b]]

\* A program that splits and merges by the book: a timeline merges into its
\* parent, once those split off it have merged.
MergesIntoParent(bs, t) ==
    /\ \A b \in Range(bs) : timeline[b].parent = t /\ b # t
    /\ \A c \in Branch : Active(c) => timeline[c].parent \notin Range(bs)

\* The names that need a rule.
Contested(bs) ==
    {v \in Name : \E i, j \in DOMAIN bs :
        i # j /\ v \in DOMAIN timeline[bs[i]].arena.bindings
                            \intersect DOMAIN timeline[bs[j]].arena.bindings}

\* merge bs into t resolving (...)
Merge(bs, t) ==
    /\ Executes(t, "merge")
    /\ \A b \in Range(bs) : Active(b) /\ b # Root
    /\ Disciplined => MergesIntoParent(bs, t)
    /\ \E resolution \in [Contested(bs) -> Strategies] :
         LET result == Combined(bs, resolution)
         IN  \/ /\ result.reversions # {}
                /\ \E reversion \in result.reversions : Revert(reversion)
             \/ /\ result.reversions = {}
                /\ MergeInto(bs, t, result.merged)
    /\ UNCHANGED <<groups, nextValue, spent>>

-----------------------------------------------------------------------------
Paths == {<<f>> : f \in Field} \union (Field \X Field)
NonEmpty(S) == (SUBSET S) \ {{}}
Merging == {<<b>> : b \in Branch}
             \union {bs \in Branch \X Branch : bs[1] # bs[2]}

\* Statements that b executes on its own arena and those entangled with it.
ValueStatement(b) ==
    \/ \E v \in Name, kind \in Literals, fs \in NonEmpty(Field) :
          Let(b, v, kind, fs)
    \/ \E v \in Name, e \in Expressions : Assign(b, v, e) \/ MatchEntropy(b, e, v)
    \/ \E w \in Name, path \in Paths, e \in Expressions : FieldUpdate(b, w, path, e)
    \/ \E e \in Expressions : Expression(b, e)
    \/ \E v \in Name : DecayVariable(b, v)

TimelineStatement(b) ==
    \/ \E capacity \in Capacities : Isolate(b, capacity)
    \/ \E a \in AnchorName : SetAnchor(b, a) \/ Rewind(b, a)
    \/ Commit(b)
    \/ \E names \in NonEmpty(Name) : Entangle(b, names)
    \/ \E c \in Branch : Split(b, c)
    \/ \E bs \in Merging : Merge(bs, b)

Next == \E b \in Branch : ValueStatement(b) \/ TimelineStatement(b)

Spec == Init /\ [][Next]_vars

=============================================================================
