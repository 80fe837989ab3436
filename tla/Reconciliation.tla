--------------------------- MODULE Reconciliation ---------------------------
(***************************************************************************)
(* resolve_entropic_conflict: what becomes of a name (or of a field) that  *)
(* two timelines bring to a merge.                                         *)
(*                                                                         *)
(* A strategy is a record with a "kind"; Priority names a branch, the      *)
(* strategies for topologies give a sub-strategy to each key and may name  *)
(* the reversion to trigger when the two sides cannot be combined.         *)
(***************************************************************************)
EXTENDS EntropicArena

CONSTANTS NoReversion   \* on_invalid: None

FirstWins == [kind |-> "FirstWins"]

\* The states combined, and the reversions triggered on the way: the code keeps
\* the first in the order of a hash map, so any of them.
Resolved(state, reversions) == [state |-> state, reversions |-> reversions]

NoteOnInvalid(strategy) ==
    IF strategy.onInvalid = NoReversion THEN {} ELSE {strategy.onInvalid}

SubStrategy(strategy, k) ==
    IF k \in DOMAIN strategy.rules THEN strategy.rules[k] ELSE strategy.default

\* Fault: a consumed side gives way to the other.
BugConsumedWins(existing, incoming) == existing = Consumed /\ incoming = Consumed

\* Causal safety: what either side has consumed stays consumed.
ConsumedWins(existing, incoming) == existing = Consumed \/ incoming = Consumed

\* Two states that meet under a strategy, and those that meet one level below
\* when their fields are combined.
Conflict(existing, incoming, strategy) ==
    [existing |-> existing, incoming |-> incoming, strategy |-> strategy]

FieldConflict(c, k) ==
    Conflict(FieldsOf(c.existing)[k], FieldsOf(c.incoming)[k],
             SubStrategy(c.strategy, k))

SharedFields(c) ==
    DOMAIN FieldsOf(c.existing) \intersect DOMAIN FieldsOf(c.incoming)

\* The fields of keys "keys", those that both sides have resolved one by one:
\* "below" resolves the conflicts of the fields.
ResolveFields(c, keys, below) ==
    LET mine   == FieldsOf(c.existing)
        theirs == FieldsOf(c.incoming)
        resolved == [k \in SharedFields(c) |-> below[FieldConflict(c, k)]]
    IN  [fields |-> [k \in keys |-> IF k \in SharedFields(c) THEN resolved[k].state
                                    ELSE IF k \in DOMAIN mine THEN mine[k]
                                    ELSE theirs[k]],
         reversions |-> UNION {resolved[k].reversions : k \in SharedFields(c)}]

IsTopology(state) == IsValid(state) /\ state.payload.kind = "topology"

\* TopologyUnion keeps the fields of either side.
ResolveUnion(c, below) ==
    LET keys   == DOMAIN FieldsOf(c.existing) \union DOMAIN FieldsOf(c.incoming)
        merged == ResolveFields(c, keys, below)
        state  == CASE "Decayed" \in {c.existing.tag, c.incoming.tag} ->
                         Decayed(merged.fields)
                    [] "Decayed" \notin {c.existing.tag, c.incoming.tag} ->
                         IF IsTopology(c.existing) \/ IsTopology(c.incoming)
                         THEN Valid(Topology(merged.fields))
                         ELSE Valid(Struct(merged.fields))
    IN  Resolved(state, merged.reversions)

\* TopologyIntersect keeps the fields of both; the two must be of one kind.
ResolveIntersect(c, below) ==
    LET merged == ResolveFields(c, SharedFields(c), below)
    IN  Resolved(WithFields(c.existing, merged.fields), merged.reversions)

Combinable(c) ==
    /\ HasFields(c.existing) /\ HasFields(c.incoming)
    /\ c.strategy.kind = "Intersect" =>
         /\ IsValid(c.existing) /\ IsValid(c.incoming)
         /\ c.existing.payload.kind = c.incoming.payload.kind

PerFieldKinds == {"Union", "Intersect"}

\* What becomes of a conflict, given what becomes of those below it.
Outcome(c, branch, below) ==
    LET settled == ConsumedWins(c.existing, c.incoming)
        kind    == c.strategy.kind
    IN  CASE settled -> Resolved(Consumed, {})
          [] ~settled /\ kind \in {"FirstWins", "Custom"} ->
                Resolved(c.existing, {})
          [] ~settled /\ kind = "Priority" ->
                Resolved(IF c.strategy.branch = branch THEN c.incoming
                         ELSE c.existing, {})
          [] ~settled /\ kind = "Decay" -> Resolved(Consumed, {})
          [] ~settled /\ kind = "Auto" ->
                Resolved(IF c.existing = c.incoming THEN c.existing
                         ELSE Consumed, {})
          [] ~settled /\ kind = "Union" /\ Combinable(c) ->
                ResolveUnion(c, below)
          [] ~settled /\ kind = "Intersect" /\ Combinable(c) ->
                ResolveIntersect(c, below)
          [] ~settled /\ kind \in PerFieldKinds /\ ~Combinable(c) ->
                Resolved(Consumed, NoteOnInvalid(c.strategy))

\* The conflicts that arise below c.
ConflictsBelow(c) ==
    IF /\ ~ConsumedWins(c.existing, c.incoming)
       /\ c.strategy.kind \in PerFieldKinds /\ Combinable(c)
    THEN {FieldConflict(c, k) : k \in SharedFields(c)} ELSE {}

\* The conflicts of each depth, and from the deepest up what becomes of them.
Resolve(existing, incoming, strategy, branch) ==
    LET top == Conflict(existing, incoming, strategy)
        conflicts[n \in 0 .. MaxDepth] ==
            IF n = 0 THEN ConflictsBelow(top)
            ELSE UNION {ConflictsBelow(c) : c \in conflicts[n - 1]}
        outcomes[n \in 0 .. MaxDepth] ==
            [c \in conflicts[MaxDepth - n] |->
                Outcome(c, branch, IF n = 0 THEN <<>> ELSE outcomes[n - 1])]
    IN  Outcome(top, branch, outcomes[MaxDepth])
=============================================================================
