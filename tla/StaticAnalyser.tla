---------------------------- MODULE StaticAnalyser ----------------------------
(***************************************************************************)
(* The static analyser on a program of one timeline.  Its state is a       *)
(* record: the branch state (what is consumed, decayed, yielded, mutable,  *)
(* typed, and the cost so far), the current slice, the depth of inspection *)
(* and the stack of granted capabilities, and the routines defined so far. *)
(* A rule maps a state and a statement to the state after it; "err" is the *)
(* first error, after which nothing changes any more.                      *)
(***************************************************************************)
EXTENDS CostModel

\* Arrays are arrays of integers; "D" is the declared type, a struct that may
\* decay; "Entry" is what a loop over the fields of a struct binds.
Types == {"Integer", "Bool", "Array", "Struct", "Entry", "D", "Unknown"}

NewBranchState ==
    [consumed |-> {}, decayed |-> {}, yields |-> {}, mutables |-> {},
     types |-> [x \in Names |-> NoType], declared |-> FALSE, limit |-> None,
     cost |-> 0, born |-> [x \in Names |-> 0]]

NoRoutine == [modes |-> <<>>, taking |-> None]

NewAnalyser ==
    [err |-> "none", branch |-> NewBranchState, slice |-> None,
     inspecting |-> 0, capabilities |-> <<>>,
     routines |-> [r \in Routines |-> NoRoutine]]

Reject(a, error) == [a EXCEPT !.err = error]
Rejected(a) == a.err # "none"

Takings(a) == [r \in Routines |-> a.routines[r].taking]

\* Each element in turn, until the first error.
InTurn(a, elements, Rule(_, _)) ==
    FoldLeft(LAMBDA s, x : Then(s, LAMBDA t : Rule(t, x)), a, elements)

-----------------------------------------------------------------------------
(* analyzer.rs *)

\* Fault: a value that lost a field is taken for a whole one.
BugMarkConsumed(a, x) ==
    IF x \in a.branch.consumed THEN Reject(a, "UseAfterConsume")
    ELSE [a EXCEPT !.branch.consumed = @ \union {x}]

MarkConsumed(a, x) ==
    IF x \in a.branch.consumed \union a.branch.decayed
    THEN Reject(a, "UseAfterConsume")
    ELSE [a EXCEPT !.branch.consumed = @ \union {x}]

MarkDecayed(a, x) ==
    IF x \in a.branch.consumed THEN Reject(a, "UseAfterConsume")
    ELSE [a EXCEPT !.branch.decayed = @ \union {x}]

RefuseConsumed(a, x) ==
    IF x \in a.branch.consumed THEN Reject(a, "UseAfterConsume") ELSE a

SetType(a, x, type) == [a EXCEPT !.branch.types[x] = type]

\* Allowed wherever a surrounding manifest grants it; outside of every
\* isolate block only a capability statement needs a grant.
Granted(a, cap) == \E i \in DOMAIN a.capabilities : cap \in a.capabilities[i]

RequireGrant(a, cap) ==
    IF a.capabilities # <<>> /\ ~Granted(a, cap)
    THEN Reject(a, "MissingCapability") ELSE a

\* A declared type stands for its struct, an undeclared one only for itself.
Compatible(a, expected, actual) ==
    \/ "Unknown" \in {expected, actual}
    \/ expected = actual
    \/ {expected, actual} = {"D", "Struct"} /\ a.branch.declared

-----------------------------------------------------------------------------
(* Types of expressions: infer_expression_type *)

Typed(type) == [err |-> "none", type |-> type]
Untyped(error) == [err |-> error, type |-> "Unknown"]

\* By its static cost so far a value of the declared type is past its limit.
Expired(a, x) ==
    /\ a.branch.types[x] = "D" /\ a.branch.declared /\ a.branch.limit # None
    /\ a.branch.cost > a.branch.born[x] + a.branch.limit

TypeOfIdentifier(a, x) ==
    CASE a.branch.types[x] = NoType -> Untyped("UndefinedVariable")
      [] Expired(a, x) -> Untyped("UsedDecayedValue")
      [] OTHER -> Typed(a.branch.types[x])

RECURSIVE InferType(_, _)
InferType(a, expr) ==
    CASE expr.e = "Integer" -> Typed("Integer")
      [] expr.e = "Boolean" -> Typed("Bool")
      [] expr.e = "StructLit" -> Typed("Struct")
      [] expr.e = "Identifier" -> TypeOfIdentifier(a, expr.name)
      [] expr.e = "FieldAccess" ->
            LET t == TypeOfIdentifier(a, expr.name)
            IN  CASE t.err # "none" -> t
                  [] t.type = "Unknown" -> t
                  [] Compatible(a, "Struct", t.type) -> Typed("Integer")
                  [] OTHER -> Untyped("TypeMismatch")
      [] expr.e = "ArrayLiteral" ->
            LET ts == [i \in DOMAIN expr.elements |->
                           InferType(a, expr.elements[i])]
                bad == {i \in DOMAIN ts : ts[i].err # "none"}
            IN  IF bad = {} THEN Typed("Array") ELSE ts[Min(bad)]
      [] expr.e = "BinaryOp" ->
            LET l == InferType(a, expr.left)
                r == InferType(a, expr.right)
            IN  CASE l.err # "none" -> l
                  [] r.err # "none" -> r
                  [] {l.type, r.type} = {"Integer"} -> Typed("Integer")
                  [] OTHER -> Untyped("TypeMismatch")
      [] OTHER -> Typed("Unknown")

\* An expression is inferred before it is analysed.
Infer(a, expr) == Then(a, LAMBDA s : [s EXCEPT !.err = InferType(s, expr).err])

RequireType(a, expr, type) ==
    LET t == InferType(a, expr)
    IN  CASE t.err # "none" -> Reject(a, t.err)
          [] t.type # type -> Reject(a, "TypeMismatch")
          [] OTHER -> a

-----------------------------------------------------------------------------
(* analyze_expression and analyze_expression_nonconsuming *)

RECURSIVE Consuming(_, _), NonConsuming(_, _)

MarkAs(a, mode, x) ==
    CASE mode \in {"Consume", "Decay"} -> MarkConsumed(a, x)
      [] mode = "Clone" -> RefuseConsumed(a, x)
      [] mode = "Peek" -> a

\* An argument is read first; then its name is marked as its mode demands.
PassArgument(a, mode, arg) ==
    Then(NonConsuming(Infer(a, arg), arg),
         LAMBDA read : IF arg.e = "Identifier" THEN MarkAs(read, mode, arg.name)
                       ELSE read)

AnalyseCall(a, expr) ==
    LET routine == a.routines[expr.routine]
    IN  CASE routine = NoRoutine -> Reject(a, "UnknownRoutine")
          [] Len(expr.args) # Len(routine.modes) -> Reject(a, "Arity")
          [] OTHER ->
                InTurn(a, [i \in DOMAIN expr.args |-> i],
                       LAMBDA s, i :
                           PassArgument(s, routine.modes[i], expr.args[i]))

\* The elements of an array are not looked at.
Consuming(a, expr) ==
    LET rule(s) ==
            CASE expr.e = "Identifier" -> MarkConsumed(s, expr.name)
              [] expr.e = "FieldAccess" ->
                    IF s.inspecting = 0 THEN MarkDecayed(s, expr.name) ELSE s
              [] expr.e = "CloneOp" -> RefuseConsumed(s, expr.name)
              [] expr.e = "Call" -> AnalyseCall(s, expr)
              [] expr.e = "BinaryOp" ->
                    InTurn(s, <<expr.left, expr.right>>, Consuming)
              [] expr.e = "Deferred" -> RequireGrant(s, "Fetch")
              [] OTHER -> s
    IN  Then(Infer(a, expr), rule)

NonConsuming(a, expr) ==
    LET rule(s) ==
            CASE expr.e = "CloneOp" -> RefuseConsumed(s, expr.name)
              [] expr.e = "Call" -> AnalyseCall(s, expr)
              [] expr.e = "BinaryOp" ->
                    InTurn(s, <<expr.left, expr.right>>, NonConsuming)
              [] expr.e = "ArrayLiteral" -> InTurn(s, expr.elements, NonConsuming)
              [] expr.e = "Deferred" -> RequireGrant(s, "Fetch")
              [] OTHER -> s
    IN  Then(Infer(a, expr), rule)

-----------------------------------------------------------------------------
(* analyze_statement: one rule for each kind of statement *)

RECURSIVE AnalyseStatement(_, _)

AnalyseBlock(a, block) == InTurn(a, block, AnalyseStatement)

\* A block on a given branch state.
AnalyseFrom(a, branch, block) ==
    AnalyseBlock([a EXCEPT !.branch = branch], block)

\* A name keeps its type; it is assigned again only if it is mutable.
Declare(a, st, type) ==
    LET old == a.branch.types[st.target]
        declared == IF st.type # NoType THEN st.type ELSE type
        expected == IF st.type = NoType /\ old # NoType THEN old ELSE declared
        born == [a EXCEPT !.branch.born[st.target] = a.branch.cost]
    IN  CASE ~Compatible(a, expected, type) -> Reject(a, "TypeMismatch")
          [] old # NoType /\ st.target \notin a.branch.mutables /\ ~st.mutable ->
                Reject(born, "TypeMismatch")
          [] OTHER ->
                [born EXCEPT
                    !.branch.mutables =
                        IF st.mutable THEN @ \union {st.target} ELSE @,
                    !.branch.types[st.target] = declared,
                    !.branch.consumed = @ \ {st.target},
                    !.branch.yields = @ \union {st.target}]

\* The expression is typed before it is analysed.
AnalyseAssignment(a, st) ==
    Then(Consuming(a, st.expr),
         LAMBDA s : Declare(s, st, InferType(a, st.expr).type))

\* Fault: a name is consumed only if both arms consume it.
BugConsumedAfter(l, r) == l.consumed \intersect r.consumed

ConsumedAfter(l, r) == l.consumed \union r.consumed

\* After an if a name is consumed or decayed as soon as one arm makes it so,
\* and the dearer arm counts.
Joined(l, r) ==
    [consumed  |-> ConsumedAfter(l, r),
     decayed   |-> l.decayed \union r.decayed,
     yields    |-> l.yields \union r.yields,
     mutables  |-> l.mutables \union r.mutables,
     types     |-> [x \in Names |->
                       CASE l.types[x] = NoType -> r.types[x]
                         [] r.types[x] \in {NoType, l.types[x]} ->
                               l.types[x]
                         [] OTHER -> "Unknown"],
     declared  |-> l.declared, limit |-> l.limit,
     cost      |-> Max({l.cost, r.cost}),
     born      |-> [x \in Names |-> IF l.born[x] # 0 THEN l.born[x]
                                    ELSE r.born[x]]]

\* Both arms start from the same state; what one arm consumes and the other
\* does not must be reconciled.
AnalyseIf(a, st) ==
    LET second(s, t) ==
            Then(AnalyseFrom(t, s.branch, st.else),
                 LAMBDA e : IF t.branch.consumed # e.branch.consumed /\ ~st.auto
                            THEN Reject(e, "EntropyMismatch")
                            ELSE [e EXCEPT !.branch = Joined(t.branch, @)])
        arms(s) == Then(AnalyseBlock(s, st.then), LAMBDA t : second(s, t))
    IN  Then(RequireType(a, st.cond, "Bool"),
             LAMBDA s : Then(Consuming(s, st.cond), arms))

\* The arms of a match each start from the state before it; the valid and the
\* decayed arm consume the value and bind what was in it.  Only consumption,
\* decay and yields of the arms are kept.
AnalyseMatch(a, st) ==
    LET bind(s) ==
            LET typed == InferType(s, Identifier(st.name))
            IN  IF typed.err # "none" THEN Reject(s, typed.err)
                ELSE Consuming(
                        [s EXCEPT !.branch.yields = @ \union {st.binding},
                                  !.branch.types[st.binding] = typed.type],
                        Identifier(st.name))
        arms == [i \in DOMAIN st.valid |-> [binds |-> TRUE, body |-> st.valid[i]]] \o
                [i \in DOMAIN st.decayed |-> [binds |-> TRUE, body |-> st.decayed[i]]] \o
                [i \in DOMAIN st.pending |-> [binds |-> FALSE, body |-> st.pending[i]]] \o
                [i \in DOMAIN st.consumed |-> [binds |-> FALSE, body |-> st.consumed[i]]]
        join(s, end) ==
            [a |-> end,
             joined |-> [s.joined EXCEPT !.consumed = @ \union end.branch.consumed,
                                         !.decayed = @ \union end.branch.decayed,
                                         !.yields = @ \union end.branch.yields]]
        arm(s, x) ==
            LET from == [s.a EXCEPT !.branch = a.branch]
            IN  IF Rejected(s.a) THEN s
                ELSE join(s, AnalyseBlock(IF x.binds THEN bind(from) ELSE from,
                                          x.body))
        all == FoldLeft(arm, [a |-> a, joined |-> a.branch], arms)
    IN  IF Rejected(all.a) THEN all.a
        ELSE [all.a EXCEPT !.branch = all.joined]

\* The case and the timeout of a select, each from the state before it; what
\* only one of them consumes is refused.
AnalyseSelect(a, st) ==
    LET case == AnalyseBlock(SetType(a, st.binding, "Unknown"), st.body)
        caseEnd == [case.branch EXCEPT !.consumed = @ \ {st.binding},
                                       !.yields = @ \ {st.binding}]
        timeout == AnalyseFrom(case, a.branch, Head(st.timeout))
        ends == {caseEnd} \union
                    (IF st.timeout = <<>> THEN {} ELSE {timeout.branch})
        last == IF st.timeout = <<>> THEN case ELSE timeout
    IN  CASE Rejected(case) -> case
          [] Rejected(last) -> last
          [] \E b1, b2 \in ends : b1.consumed # b2.consumed ->
                Reject(last, "EntropyMismatch")
          [] OTHER ->
                [last EXCEPT
                    !.branch = [a.branch EXCEPT
                        !.consumed = @ \union UNION {b.consumed : b \in ends},
                        !.yields = @ \union UNION {b.yields : b \in ends}]]

\* Nothing of a speculation or of its fallback is remembered.
AnalyseSpeculate(a, st) ==
    Then(AnalyseBlock(a, st.body),
         LAMBDA body : Then(AnalyseFrom(body, a.branch, st.fallback),
                            LAMBDA s : [s EXCEPT !.branch = a.branch]))

AnalyseInspect(a, st) ==
    Then(AnalyseBlock([a EXCEPT !.inspecting = @ + 1], st.body),
         LAMBDA s : [s EXCEPT !.inspecting = @ - 1, !.branch = a.branch])

\* Fault: an assertion that just holds is refused.
BugAnalyseAssertTime(a, st) ==
    IF a.branch.cost + 1 >= st.limit /\ st.fallback = <<>>
    THEN Reject(a, "TemporalAssertionViolation")
    ELSE AnalyseBlock(a, FlattenSeq(st.fallback))

\* The limit is held against the cost added up so far.
AnalyseAssertTime(a, st) ==
    IF a.branch.cost >= st.limit /\ st.fallback = <<>>
    THEN Reject(a, "TemporalAssertionViolation")
    ELSE AnalyseBlock(a, FlattenSeq(st.fallback))

AnalyseLoopTick(a, st) ==
    CASE a.slice = None -> Reject(a, "TickLoopWithoutSlice")
      [] StaticBlockCost(Takings(a), st.body) > a.slice ->
            Reject(a, "TickLoopBudgetExceeded")
      [] Break \notin ToSet(st.body) -> Reject(a, "TickLoopNeedsBreak")
      [] OTHER -> AnalyseBlock(a, st.body)

\* A body is analysed once, however often it may run.
AnalyseFor(a, st) ==
    LET sourceType == a.branch.types[st.source]
        itemType == CASE sourceType = "Array" -> "Integer"
                      [] sourceType = "Struct" -> "Entry"
                      [] sourceType = NoType -> "Unknown"
                      [] OTHER -> sourceType
        s == SetType(a, st.item, itemType)
        m == IF st.mode = "Consume" THEN MarkConsumed(s, st.source) ELSE s
        b == AnalyseBlock(m, st.body)
    IN  CASE Rejected(m) -> m
          [] st.max = 0 -> Reject(m, "InvalidLoopBudget")
          [] Rejected(b) -> b
          [] st.pacing # None /\ Len(st.body) > st.pacing ->
                Reject(b, "PacingViolation")
          [] OTHER -> b

AnalyseIsolate(a, st) ==
    Then(AnalyseBlock([a EXCEPT !.capabilities = Append(@, st.uses),
                                !.slice = st.cpu], st.body),
         LAMBDA s : [s EXCEPT !.capabilities = a.capabilities, !.slice = a.slice])

\* A routine is analysed on its own, knowing the routines before it, and must
\* fit the time it promises.
AnalyseRoutineDef(a, st) ==
    LET params == ToSet(st.params)
        fresh == [NewAnalyser EXCEPT
                     !.routines = a.routines,
                     !.branch.yields = params,
                     !.branch.types = [x \in Names |->
                         IF x \in params THEN "Unknown" ELSE NoType]]
        body == AnalyseBlock(fresh, st.body)
        estimate == StaticBlockCost(Takings(a), st.body)
    IN  CASE a.routines[st.routine] # NoRoutine -> Reject(a, "DuplicateRoutine")
          [] Rejected(body) -> Reject(a, body.err)
          [] st.taking # None /\ estimate > st.taking ->
                Reject(a, "RoutineBudgetExceeded")
          [] OTHER ->
                [a EXCEPT !.routines[st.routine] =
                    [modes |-> st.modes,
                     taking |-> IF st.taking = None THEN estimate
                                ELSE st.taking]]

\* Every statement adds a millisecond to the cost so far, a request six.
Counted(a, st) ==
    [a EXCEPT !.branch.cost = @ + (IF st.op = "NetworkRequest" THEN 6 ELSE 1)]

AnalyseStatement(previous, st) ==
    LET a == Counted(previous, st)
    IN  CASE st.op = "Assignment" -> AnalyseAssignment(a, st)
          [] st.op = "TypeDecl" ->
                [a EXCEPT !.branch.declared = TRUE, !.branch.limit = st.limit]
          [] st.op = "Expression" -> Consuming(a, st.expr)
          [] st.op \in {"Print", "Debug"} ->
                Then(NonConsuming(a, st.expr), LAMBDA s : RequireGrant(s, "Log"))
          [] st.op = "ChannelSend" -> MarkConsumed(a, st.name)
          [] st.op = "NetworkRequest" -> RequireGrant(a, "Fetch")
          [] st.op = "Capability" ->
                IF Granted(a, st.cap) THEN a ELSE Reject(a, "MissingCapability")
          [] st.op = "If" -> AnalyseIf(a, st)
          [] st.op = "Match" -> AnalyseMatch(a, st)
          [] st.op = "Select" -> AnalyseSelect(a, st)
          [] st.op = "Await" -> RefuseConsumed(a, st.name)
          [] st.op = "Loop" ->
                IF st.max = 0 THEN Reject(a, "InvalidLoopBudget")
                ELSE AnalyseBlock(a, st.body)
          [] st.op = "LoopTick" -> AnalyseLoopTick(a, st)
          [] st.op = "Slice" -> [a EXCEPT !.slice = st.ms]
          [] st.op = "For" -> AnalyseFor(a, st)
          [] st.op = "SplitMap" ->
                AnalyseBlock(MarkConsumed(a, st.source), st.body)
          [] st.op = "Speculate" -> AnalyseSpeculate(a, st)
          [] st.op \in {"Commit", "DecayHandler"} -> AnalyseBlock(a, st.body)
          [] st.op = "Watchdog" -> AnalyseBlock(a, st.recovery)
          [] st.op = "Inspect" -> AnalyseInspect(a, st)
          [] st.op = "AssertTime" -> AnalyseAssertTime(a, st)
          [] st.op = "Isolate" -> AnalyseIsolate(a, st)
          [] st.op = "RoutineDef" -> AnalyseRoutineDef(a, st)
          \* Break, Yield, Collapse, SpeculationMode
          [] OTHER -> a

-----------------------------------------------------------------------------
(* analyze_program *)

\* The statements of a program in order, with the branch state recorded after
\* each of them; it stops at the first statement that is rejected.
AnalyseProgram(program) ==
    LET record(spans, a) ==
            [a |-> a,
             spans |-> IF Rejected(a) THEN spans ELSE Append(spans, a.branch)]
        next(s, st) == IF Rejected(s.a) THEN s
                       ELSE record(s.spans, AnalyseStatement(s.a, st))
    IN  FoldLeft(next, [a |-> NewAnalyser, spans |-> <<>>], FlattenSeq(program))
=============================================================================
