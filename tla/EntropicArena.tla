--------------------------- MODULE EntropicArena ---------------------------
(***************************************************************************)
(* The value arena of a timeline: named bindings in an entropic state, and *)
(* the bytes they are charged for.  Every operation of the arena is an     *)
(* operator that returns what the call returns and the arena it leaves,    *)
(* also when it fails: several fail after the binding has been taken out.  *)
(*                                                                         *)
(* A scalar payload is the number of the literal that created it, a struct *)
(* or a topology maps some field names to entropic states.  Metadata (the  *)
(* time limits of decaying types) is not part of this module.              *)
(***************************************************************************)
EXTENDS Integers, Sequences, Functions, FiniteSetsExt

CONSTANTS
    Field,      \* field names
    KeyWeight,  \* key_weight, the charge for a name
    MaxDepth    \* bound on the nesting of fields

ASSUME ArenaAssumption == IsFiniteSet(Field) /\ {KeyWeight, MaxDepth} \subseteq Nat

-----------------------------------------------------------------------------
(* EntropicState and Payload *)

Consumed == [tag |-> "Consumed"]
Pending == [tag |-> "Pending"]
Valid(payload) == [tag |-> "Valid", payload |-> payload]
Decayed(fields) == [tag |-> "Decayed", fields |-> fields]

Scalar(x) == [kind |-> "scalar", value |-> x]
Struct(fields) == [kind |-> "struct", fields |-> fields]
Topology(fields) == [kind |-> "topology", fields |-> fields]

IsValid(state) == state.tag = "Valid"

HasFields(state) ==
    \/ state.tag = "Decayed"
    \/ IsValid(state) /\ state.payload.kind \in {"struct", "topology"}

FieldsOf(state) ==
    IF state.tag = "Decayed" THEN state.fields ELSE state.payload.fields

WithFields(state, fields) ==
    IF state.tag = "Decayed" THEN Decayed(fields)
    ELSE Valid([state.payload EXCEPT !.fields = fields])

\* insert of a map
Put(f, k, x) == [i \in DOMAIN f \union {k} |-> IF i = k THEN x ELSE f[i]]
Drop(f, k) == Restrict(f, DOMAIN f \ {k})

\* The states of the fields of a node, each with the way to it.
FieldNames(state) ==
    IF HasFields(state) THEN Field \intersect DOMAIN FieldsOf(state) ELSE {}

Children(node) ==
    {<<Append(node[1], f), FieldsOf(node[2])[f]>> : f \in FieldNames(node[2])}

\* A state is a tree: its nodes down to a depth, and all of them.
NodesTo(state) ==
    LET tree[n \in 0 .. MaxDepth] ==
            IF n = 0 THEN {<< <<>>, state >>}
            ELSE {<< <<>>, state >>}
                   \union UNION {Children(node) : node \in tree[n - 1]}
    IN  tree

Nodes(state) == NodesTo(state)[MaxDepth]

\* What a node weighs without its fields.
OwnWeight(state) ==
    CASE state.tag = "Consumed" -> 8
      [] state.tag = "Pending"  -> 64
      [] state.tag = "Decayed"  -> 32
      [] state.tag = "Valid" /\ state.payload.kind = "scalar" -> 16 + 8
      [] state.tag = "Valid" /\ state.payload.kind = "struct" -> 16 + 48
      [] OTHER -> 16 + 64

\* weight
Weight(state) ==
    IF HasFields(state)
    THEN SumFunction([node \in Nodes(state) |-> OwnWeight(node[2])])
    ELSE OwnWeight(state)

-----------------------------------------------------------------------------
(* The arena *)

NewArena(capacity) == [capacity |-> capacity, used |-> 0, bindings |-> <<>>]

SaturatingSub(m, n) == IF m < n THEN 0 ELSE m - n

\* What the bindings weigh; "used" is meant to account for it.
Footprint(bindings) ==
    SumFunction([k \in DOMAIN bindings |-> KeyWeight + Weight(bindings[k])])

Ok(arena, state) == [error |-> "none", arena |-> arena, state |-> state]
Err(e, arena) == [error |-> e, arena |-> arena, state |-> Consumed]

\* Binding k changes state and used follows.
Change(arena, k, state) ==
    [arena EXCEPT
        !.used = SaturatingSub(@, Weight(arena.bindings[k])) + Weight(state),
        !.bindings = Put(@, k, state)]

\* Fault: the name itself is not charged for.
BugInsert(arena, k, state) ==
    LET used == Weight(state) +
                  (IF k \in DOMAIN arena.bindings
                   THEN SaturatingSub(arena.used, Weight(arena.bindings[k]))
                   ELSE arena.used)
    IN  IF used > arena.capacity THEN Err("OutOfMemory", arena)
        ELSE Ok([arena EXCEPT !.used = used, !.bindings = Put(@, k, state)],
                state)

Insert(arena, k, state) ==
    LET used == Weight(state) +
                  (IF k \in DOMAIN arena.bindings
                   THEN SaturatingSub(arena.used, Weight(arena.bindings[k]))
                   ELSE arena.used + KeyWeight)
    IN  IF used > arena.capacity THEN Err("OutOfMemory", arena)
        ELSE Ok([arena EXCEPT !.used = used, !.bindings = Put(@, k, state)],
                state)

\* Consumed markers are forgotten and used is computed anew.
CompactConsumed(arena) ==
    LET kept == RestrictValues(arena.bindings, LAMBDA s : s.tag # "Consumed")
    IN  [arena EXCEPT !.used = Footprint(kept), !.bindings = kept]

\* The state of a name; a name without a binding reads as consumed.
StateOf(arena, k) ==
    IF k \in DOMAIN arena.bindings THEN arena.bindings[k] ELSE Consumed

\* peek: the payload a reader may look at.  A decayed parent reads as a struct.
Peekable(arena, k) == StateOf(arena, k).tag \in {"Valid", "Decayed"}

Consume(arena, k) ==
    LET state == StateOf(arena, k)
    IN  CASE IsValid(state) -> Ok(Change(arena, k, Consumed), state)
          [] state.tag = "Decayed" -> Err("StructurallyDecayed", arena)
          [] OTHER -> Err("AlreadyConsumed", arena)

ConsumeEntropic(arena, k) ==
    IF k \notin DOMAIN arena.bindings THEN Err("AlreadyConsumed", arena)
    ELSE Ok(Change(arena, k, Consumed), arena.bindings[k])

SetConsumed(arena, k) ==
    IF k \notin DOMAIN arena.bindings THEN Err("AlreadyConsumed", arena)
    ELSE Ok(Change(arena, k, Consumed), Consumed)

\* Fault: the parent stays what it was, a valid struct with a hole.
BugConsumeFieldEntropic(arena, k, f) ==
    LET state == StateOf(arena, k)
    IN  CASE k \notin DOMAIN arena.bindings -> Err("AlreadyConsumed", arena)
          [] k \in DOMAIN arena.bindings /\ ~HasFields(state) ->
                Err("NotAStruct", arena)
          [] HasFields(state) /\ f \notin DOMAIN FieldsOf(state) ->
                Err("KeyNotFound", [arena EXCEPT !.bindings = Drop(@, k)])
          [] HasFields(state) /\ f \in DOMAIN FieldsOf(state) ->
                Ok(Change(arena, k,
                          WithFields(state, Put(FieldsOf(state), f, Consumed))),
                   FieldsOf(state)[f])

\* Taking one field leaves the parent decayed.  The parent is out of the map
\* while its fields are looked at, and an unknown field leaves it out.
ConsumeFieldEntropic(arena, k, f) ==
    LET state == StateOf(arena, k)
    IN  CASE k \notin DOMAIN arena.bindings -> Err("AlreadyConsumed", arena)
          [] k \in DOMAIN arena.bindings /\ ~HasFields(state) ->
                Err("NotAStruct", arena)
          [] HasFields(state) /\ f \notin DOMAIN FieldsOf(state) ->
                Err("KeyNotFound", [arena EXCEPT !.bindings = Drop(@, k)])
          [] HasFields(state) /\ f \in DOMAIN FieldsOf(state) ->
                Ok(Change(arena, k, Decayed(Put(FieldsOf(state), f, Consumed))),
                   FieldsOf(state)[f])

\* The same for a reader that needs a payload: the parent is decayed already
\* when the field turns out not to be valid.
ConsumeField(arena, k, f) ==
    LET taken == ConsumeFieldEntropic(arena, k, f)
    IN  IF taken.error = "none" /\ ~IsValid(taken.state)
        THEN Err("AlreadyConsumed", taken.arena) ELSE taken

\* decay: a struct keeps its fields, any other payload is consumed.
Decay(arena, k) ==
    LET state == StateOf(arena, k)
    IN  CASE k \notin DOMAIN arena.bindings -> Err("AlreadyConsumed", arena)
          [] state.tag = "Decayed" -> Ok(arena, state)
          [] IsValid(state) /\ state.payload.kind = "struct" ->
                Ok(Change(arena, k, Decayed(state.payload.fields)), state)
          [] k \in DOMAIN arena.bindings /\ ~HasFields(state) ->
                Ok(Change(arena, k, Consumed), state)
          [] IsValid(state) /\ state.payload.kind = "topology" ->
                Ok(Change(arena, k, Consumed), state)

-----------------------------------------------------------------------------
(* Updates in place *)

\* Fault: the budget is checked against what was there before.
BugReplace(arena, k, fields) ==
    LET state  == arena.bindings[k]
        update == Change(arena, k, WithFields(state, fields))
    IN  IF arena.used <= arena.capacity THEN Ok(update, Consumed)
        ELSE Err("OutOfMemory", [arena EXCEPT !.bindings = Put(@, k, Consumed)])

\* The parent with its new fields.  If they do not fit the parent is lost, and
\* used keeps its weight.
Replace(arena, k, fields) ==
    LET state  == arena.bindings[k]
        update == Change(arena, k, WithFields(state, fields))
    IN  IF update.used <= arena.capacity THEN Ok(update, Consumed)
        ELSE Err("OutOfMemory", [arena EXCEPT !.bindings = Put(@, k, Consumed)])

\* The maps of fields that deep_set descends through: the first is "fields",
\* the next that of the key before it, as long as the path can be followed.
Descent(fields, path) ==
    LET into[i \in 1 .. Len(path)] ==
            IF i = 1 THEN fields
            ELSE IF /\ path[i - 1] \in DOMAIN into[i - 1]
                    /\ HasFields(into[i - 1][path[i - 1]])
                 THEN FieldsOf(into[i - 1][path[i - 1]])
                 ELSE <<>>
    IN  into

Reachable(fields, path) ==
    LET into == Descent(fields, path)
    IN  \A i \in 1 .. Len(path) - 1 : /\ path[i] \in DOMAIN into[i]
                                      /\ HasFields(into[i][path[i]])

\* deep_set: the fields with the value at the end of the path replaced.
DeepSet(fields, path, state) ==
    LET into == Descent(fields, path)
        n    == Len(path)
        out[i \in 1 .. n] ==
            IF i = n THEN Put(into[n], path[n], state)
            ELSE Put(into[i], path[i],
                     WithFields(into[i][path[i]], out[i + 1]))
    IN  out[1]

\* update_field (a path of one) and update_deep_field: a path that cannot be
\* followed leaves the root out of the map.
UpdateDeepField(arena, k, path, payload) ==
    LET state == StateOf(arena, k)
    IN  CASE k \notin DOMAIN arena.bindings -> Err("AlreadyConsumed", arena)
          [] k \in DOMAIN arena.bindings /\ ~HasFields(state) ->
                Err("NotAStruct", arena)
          [] HasFields(state) /\ ~Reachable(FieldsOf(state), path) ->
                Err("KeyNotFound", [arena EXCEPT !.bindings = Drop(@, k)])
          [] HasFields(state) /\ Reachable(FieldsOf(state), path) ->
                Replace(arena, k, DeepSet(FieldsOf(state), path, Valid(payload)))
=============================================================================
