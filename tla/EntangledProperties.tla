------------------------ MODULE EntangledProperties ------------------------
(***************************************************************************)
(* What the arenas and the entanglement of timelines promise.              *)
(***************************************************************************)
EXTENDS EntangledTimelines

\* What may be bound to a name: a valid value is valid all through, and a parent
\* that lost a field is decayed.  (A union of valid structs whose fields
\* disagree is not: merge breaks this.)
IsNode(state) ==
    /\ state \in {Consumed, Pending} \/ state.tag \in {"Valid", "Decayed"}
    /\ HasFields(state) =>
         /\ DOMAIN FieldsOf(state) \subseteq Field
         /\ IsValid(state) => \A f \in DOMAIN FieldsOf(state) :
                                 IsValid(FieldsOf(state)[f])

IsState(state) ==
    NestsWithin(state, 0) /\ \A node \in Nodes(state) : IsNode(node[2])

IsArena(arena) ==
    /\ arena.capacity \in Capacities
    /\ arena.used \in Nat
    /\ DOMAIN arena.bindings \subseteq Name
    /\ \A v \in DOMAIN arena.bindings : IsState(arena.bindings[v])

\* Every timeline has an arena of states and snapshots of arenas (Arena,
\* EntropicState and AnchorPoint), and groups speak of timelines and variables:
\* in particular no operation leaves a hole in a value that is still valid.
TypeOK ==
    /\ \A b \in Branch : Active(b) =>
         /\ IsArena(timeline[b].arena)
         /\ DOMAIN timeline[b].anchors \subseteq AnchorName
         /\ \A a \in DOMAIN timeline[b].anchors : IsArena(timeline[b].anchors[a])
         /\ timeline[b].parent \in Branch
    /\ Active(Root)
    /\ \A i \in DOMAIN groups : groups[i] \subseteq Branch \X Name
    /\ nextValue \in 1 .. MaxValue + 1
    /\ \A x \in DOMAIN spent : spent[x] \in Nat \ {0}

\* The memory that an arena says is in use covers everything bound in it, on
\* every path through its operations, the failing ones included: so
\* saturating_sub in value.rs never saturates.
FootprintCounted ==
    \A b \in Branch : Active(b) =>
        Footprint(timeline[b].arena.bindings) <= timeline[b].arena.used

\* No statement takes an arena beyond its capacity: where a budget was lowered
\* below what is in use, use can only shrink.  A return to a snapshot and the
\* copy that a split makes are the exceptions.
WithinBudget(b) ==
    LET before == timeline[b].arena
        after  == timeline'[b].arena
    IN  \/ after.used <= before.used
        \/ after.used <= after.capacity
        \/ after \in Range(timeline[b].anchors)
       \/ \E p \in Branch : Active(p) /\ after = timeline[p].arena

GrowthWithinCapacity ==
    [][\A b \in Branch :
         Active(b) /\ timeline'[b] # NoTimeline => WithinBudget(b)]_vars

\* A timeline leaves only by merging into another that has then room for all it
\* had bound: a merge that runs out of memory leaves its sources alive.
Ends(c) == Active(c) /\ timeline'[c] = NoTimeline

MergeDelivers ==
    [][\A c \in Branch : Ends(c) =>
         \E t \in Branch :
            /\ timeline'[t] # NoTimeline
            /\ DOMAIN timeline[c].arena.bindings
                 \subseteq DOMAIN timeline'[t].arena.bindings]_vars

\* Causal safety of merge (core.rs, "if either side is already Consumed, it
\* stays Consumed"): whatever the strategies, the order of the merging timelines
\* and what the target held, a name that one of them has consumed is not
\* readable in its parent after the merge.
MergeKeepsConsumed ==
    [][\A c \in Branch : Ends(c) =>
         \A v \in DOMAIN timeline[c].arena.bindings :
            timeline[c].arena.bindings[v] = Consumed =>
              ~Peekable(timeline'[timeline[c].parent].arena, v)]_vars

\* In a program that entangles what it copies, splits new timelines and merges
\* them into their parents, no value is spent twice, whichever timelines take it
\* whole or field by field, move it, overwrite it, let it decay or merge.
SpentOnce == \A x \in DOMAIN spent : spent[x] = 1

\* docs/spec/ictl_spec_syntax.md, "Entropic Entanglement": the variables of a
\* group share a unified entropic state.  (For programs that bind a name once.)
Bound(m) == Active(m[1]) /\ m[2] \in DOMAIN timeline[m[1]].arena.bindings

UnifiedEntropy ==
    \A i \in DOMAIN groups : \A m, n \in groups[i] :
        Bound(m) /\ Bound(n) =>
            (IsValid(timeline[m[1]].arena.bindings[m[2]])
               <=> IsValid(timeline[n[1]].arena.bindings[n[2]]))
=============================================================================
