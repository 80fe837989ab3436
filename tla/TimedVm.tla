------------------------------- MODULE TimedVm --------------------------------
(***************************************************************************)
(* The virtual machine as a keeper of time: local clock, CPU budget, slice *)
(* and loop depth of a timeline, padding to a contract, and the entropic   *)
(* state of its variables.  Statements nest, so the machine is written as  *)
(* the code is: an operator for each handler maps the machine before it to *)
(* the machine it leaves, also when it fails; "err" is the error that      *)
(* execute_statement returns, and nothing is undone by it.  The causal log *)
(* and the bytes of the arena are the subject of other modules.            *)
(***************************************************************************)
EXTENDS CostModel

CONSTANTS
    Unlimited,      \* u64::MAX: the CPU budget of a new machine and the last
                    \* millisecond of a clock
    MaxIterations,  \* turns of a loop before the watchdog bites
    CloneCost,      \* calculate_clone_cost, budget a clone takes
    Handlers,       \* capabilities the host registered
    Capabilities    \* all capabilities

ASSUME VmAssumption ==
    /\ Unlimited \in Nat /\ MaxIterations \in Nat /\ CloneCost \in Nat
    /\ Handlers \subseteq Capabilities

\* Timelines
Main == <<"main", 0>>
RoutineId(taking) == <<"routine", taking>>
SplitMapId(n) == <<"splitmap", n>>

-----------------------------------------------------------------------------
(* Payloads and entropic states *)

Number == [k |-> "int"]
Str == [k |-> "string"]
Bool(b) == [k |-> "bool", value |-> b]
Array(elements) == [k |-> "array", elements |-> elements]
Struct(fields) == [k |-> "struct", fields |-> fields]

Valid(p) == [s |-> "Valid", p |-> p]
Decayed(p) == [s |-> "Decayed", p |-> p]
Pending(ready, deadline) ==
    [s |-> "Pending", ready |-> ready, deadline |-> deadline]
Consumed == [s |-> "Consumed"]
Absent == [s |-> "Absent"]

\* peek
Peekable(state) == state.s \in {"Valid", "Decayed"}

-----------------------------------------------------------------------------
(* The machine *)

\* expires[x] is the time after which x decays, None if it never does.
NewTimeline(budget, uses) ==
    [clock |-> 0, budget |-> budget, slice |-> None, depth |-> 0,
     broken |-> FALSE, manifests |-> 0, uses |-> uses,
     vars |-> [x \in Names |-> Absent],
     expires |-> [x \in Names |-> None]]

\* walk is the order of the hash map that holds what is known of the names.
NewVm(walk) ==
    [err |-> "none", walk |-> walk,
     timelines |-> (Main :> NewTimeline(Unlimited, [c \in Capabilities |-> None])),
     routines |-> [r \in Routines |-> [taking |-> None]],
     handler |-> <<>>, decaying |-> FALSE,
     speculations |-> <<>>, full |-> FALSE, limit |-> None,
     channel |-> <<>>, pending |-> <<>>]

Fail(m, error) == [m EXCEPT !.err = error]
Failed(m) == m.err # "none"

Advance(m, b, ms) == [m EXCEPT !.timelines[b].clock = @ + ms]

\* Fault: the budget is not looked at.
BugConsumeBudget(m, b, ms) == [m EXCEPT !.timelines[b].budget = @ - ms]

ConsumeBudget(m, b, ms) ==
    IF m.timelines[b].budget < ms THEN Fail(m, "BudgetExhausted")
    ELSE [m EXCEPT !.timelines[b].budget = @ - ms]

\* The clock is moved before the budget is charged.
Charge(m, b, ms) == ConsumeBudget(Advance(m, b, ms), b, ms)

\* Deterministic padding.
PadTo(m, b, target) ==
    LET clock == m.timelines[b].clock
    IN  IF clock < target THEN Charge(m, b, target - clock) ELSE m

\* insert, and insert_with_metadata
Bind(m, b, x, state) ==
    [m EXCEPT !.timelines[b].vars[x] = state, !.timelines[b].expires[x] = None]

BindUntil(m, b, x, state, expiry) ==
    [Bind(m, b, x, state) EXCEPT !.timelines[b].expires[x] = expiry]

\* The budget of a capability is charged before a handler is looked for;
\* System.Entropy needs none.
ExecuteCapability(m, b, cap) ==
    LET left == m.timelines[b].uses[cap]
        n == IF left = None THEN m
             ELSE [m EXCEPT !.timelines[b].uses[cap] = @ - 1]
    IN  CASE left = 0 -> Fail(m, "CapabilityViolation")
          [] cap \in Handlers \union {"Entropy"} -> n
          [] OTHER -> Fail(n, "MissingCapability")

-----------------------------------------------------------------------------
(* Evaluation: the machine an expression leaves and its value *)

Value(m, p) == [m |-> m, v |-> p]
NoValue(m, error) == [m |-> Fail(m, error), v |-> Str]

\* A step that takes the value, if there is one.
Using(r, Step(_, _)) == IF Failed(r.m) THEN r.m ELSE Step(r.m, r.v)

\* arena.consume
Consume(m, b, x) ==
    LET state == m.timelines[b].vars[x]
    IN  CASE state.s = "Valid" ->
                Value([m EXCEPT !.timelines[b].vars[x] = Consumed], state.p)
          [] state.s = "Decayed" -> NoValue(m, "StructurallyDecayed")
          [] OTHER -> NoValue(m, "AlreadyConsumed")

Peek(m, b, x) ==
    LET state == m.timelines[b].vars[x]
    IN  IF Peekable(state) THEN Value(m, state.p)
        ELSE NoValue(m, "AlreadyConsumed")

EvaluateIdentifier(m, b, x, consuming) ==
    CASE m.timelines[b].vars[x].s = "Pending" -> NoValue(m, "PendingValue")
      [] consuming -> Consume(m, b, x)
      [] OTHER -> Peek(m, b, x)

\* A field is moved out of its parent, which decays.
EvaluateField(m, b, x, f, consuming) ==
    LET state == m.timelines[b].vars[x]
        isStruct == Peekable(state) /\ state.p.k = "struct"
        decayed == Decayed(Struct(IF isStruct THEN state.p.fields \ {f} ELSE {}))
        n == IF consuming THEN [m EXCEPT !.timelines[b].vars[x] = decayed]
             ELSE m
    IN  CASE consuming /\ state = Absent -> NoValue(m, "AlreadyConsumed")
          [] ~isStruct -> NoValue(m, "NotAStruct")
          [] f \notin state.p.fields -> NoValue(n, "AlreadyConsumed")
          [] OTHER -> Value(n, Number)

RECURSIVE EvaluateExpr(_, _, _, _), EvaluateCall(_, _, _), Execute(_, _, _)

\* Operands one after the other; the values in order.
EvaluateAll(m, b, exprs, consuming) ==
    FoldLeft(LAMBDA r, expr :
                IF Failed(r.m) THEN r
                ELSE LET x == EvaluateExpr(r.m, b, expr, consuming)
                     IN  [m |-> x.m, v |-> Append(r.v, x.v)],
             [m |-> m, v |-> <<>>], exprs)

EvaluateExpr(m, b, expr, consuming) ==
    CASE expr.e = "Integer" -> Value(m, Number)
      [] expr.e = "Boolean" -> Value(m, Bool(expr.value))
      [] expr.e = "StructLit" -> Value(m, Struct(Fields))
      [] expr.e = "Identifier" -> EvaluateIdentifier(m, b, expr.name, consuming)
      [] expr.e = "FieldAccess" ->
            EvaluateField(m, b, expr.name, expr.field, consuming)
      [] expr.e = "CloneOp" ->
            LET r == Peek(m, b, expr.name)
            IN  IF Failed(r.m) THEN r
                ELSE Value(ConsumeBudget(r.m, b, CloneCost), r.v)
      [] expr.e = "ArrayLiteral" ->
            LET r == EvaluateAll(m, b, expr.elements, consuming)
            IN  Value(r.m, Array(r.v))
      [] expr.e = "BinaryOp" ->
            LET r == EvaluateAll(m, b, <<expr.left, expr.right>>, consuming)
            IN  CASE Failed(r.m) -> Value(r.m, Str)
                  [] ToSet(r.v) = {Number} -> Value(r.m, Number)
                  [] OTHER -> NoValue(r.m, "TypeMismatch")
      [] expr.e = "Deferred" ->
            IF "Fetch" \in Handlers THEN Value(m, Str)
            ELSE NoValue(m, "MissingCapability")
      [] expr.e = "Call" -> EvaluateCall(m, b, expr)

-----------------------------------------------------------------------------
(* Blocks *)

RECURSIVE UntilBreak(_, _, _)

\* Statement after statement, until one fails.
ExecuteBlock(m, b, block) ==
    FoldLeft(LAMBDA n, st : IF Failed(n) THEN n ELSE Execute(n, b, st), m, block)

ExecuteBlocks(m, b, blocks) == ExecuteBlock(m, b, FlattenSeq(blocks))

\* As before, but a requested break ends it too.
UntilBreak(m, b, block) ==
    IF block = <<>> THEN m
    ELSE LET n == Execute(m, b, Head(block))
         IN  IF Failed(n) \/ n.timelines[b].broken THEN n
             ELSE UntilBreak(n, b, Tail(block))

\* Fault: the break goes on to the loop around.
BugClearBreak(m, b) == m

ClearBreak(m, b) == [m EXCEPT !.timelines[b].broken = FALSE]

Deepen(m, b) == [m EXCEPT !.timelines[b].depth = @ + 1]
Surface(m, b) == [m EXCEPT !.timelines[b].depth = IF @ > 0 THEN @ - 1 ELSE 0]

Terminate(m, id) ==
    [m EXCEPT !.timelines = Restrict(@, DOMAIN @ \ {id})]
Place(m, id, timeline) == [m EXCEPT !.timelines = (id :> timeline) @@ @]

-----------------------------------------------------------------------------
(* Decay *)

DecayState(state) ==
    CASE state.s = "Decayed" -> state
      [] state.s = "Valid" /\ state.p.k = "struct" -> Decayed(state.p)
      [] OTHER -> Consumed

\* decay_variable: the handler of the type runs, then the value decays, whatever
\* the handler made of it.
DecayVariable(m, b, x) ==
    LET n == IF m.timelines[b].expires[x] = None THEN m
             ELSE ExecuteBlocks(m, b, m.handler)
        state == n.timelines[b].vars[x]
    IN  CASE Failed(n) -> n
          [] state = Absent -> Fail(n, "AlreadyConsumed")
          [] OTHER -> [n EXCEPT !.timelines[b].vars[x] = DecayState(state)]

\* Values past the limit of their type, as the map is walked; the first handler
\* that fails leaves the rest valid.
Due(m, b) ==
    LET t == m.timelines[b]
        late(x) == /\ t.expires[x] # None /\ t.clock > t.expires[x]
                   /\ t.vars[x].s = "Valid"
    IN  SelectSeq(m.walk, late)

DecayAll(m, b) ==
    FoldLeft(LAMBDA n, x : Then(n, LAMBDA p : DecayVariable(p, b, x)), m, Due(m, b))

\* Fault: a handler that fails keeps the machine decaying.
BugAutoDecay(m, b) ==
    IF m.decaying THEN m
    ELSE Then(DecayAll([m EXCEPT !.decaying = TRUE], b),
              LAMBDA n : [n EXCEPT !.decaying = FALSE])

\* What is due decays before a statement runs, but not inside of a handler.
AutoDecay(m, b) ==
    IF m.decaying THEN m
    ELSE [DecayAll([m EXCEPT !.decaying = TRUE], b) EXCEPT !.decaying = FALSE]

-----------------------------------------------------------------------------
(* Routine calls: evaluate_call *)

\* An argument that is a name is taken as its mode demands.
TakeArgument(m, b, mode, x) ==
    LET r == Peek(m, b, x)
        decayed == IF r.v.k = "struct" THEN Decayed(r.v) ELSE Consumed
    IN  CASE mode = "Consume" -> Consume(m, b, x)
          [] mode = "Decay" /\ ~Failed(r.m) ->
                Value([m EXCEPT !.timelines[b].vars[x] = decayed], r.v)
          [] OTHER -> r

\* Names are taken before the other arguments are evaluated.
PassArguments(m, b, modes, args) ==
    LET isName(i) == args[i].e = "Identifier"
        pass(r, i) ==
            LET x == IF isName(i) THEN TakeArgument(r.m, b, modes[i], args[i].name)
                     ELSE EvaluateExpr(r.m, b, args[i], TRUE)
            IN  IF Failed(r.m) THEN r
                ELSE [m |-> x.m, v |-> [r.v EXCEPT ![i] = x.v]]
        indices == [i \in DOMAIN args |-> i]
    IN  FoldLeft(pass, [m |-> m, v |-> [i \in DOMAIN args |-> Str]],
                 SelectSeq(indices, isName) \o
                 SelectSeq(indices, LAMBDA i : ~isName(i)))

\* The elements a timeline has yielded.
Yields(t) ==
    LET state == t.vars["yielded"]
    IN  IF Peekable(state) /\ state.p.k = "array" THEN state.p.elements ELSE <<>>

\* The end of a call: the caller pays the contract, whatever the body took.
ReturnFrom(child, ran, b, taking) ==
    LET done == Terminate(ran, child)
        all == Yields(ran.timelines[child])
        charged == IF taking > 1 THEN Charge(done, b, taking - 1) ELSE done
    IN  CASE Failed(ran) -> Value(ran, Str)
          [] child \notin DOMAIN ran.timelines -> NoValue(ran, "BranchNotFound")
          [] ran.timelines[child].clock > taking -> NoValue(done, "WatchdogBite")
          [] b \notin DOMAIN done.timelines -> NoValue(done, "BranchNotFound")
          [] OTHER -> Value(charged, IF all = <<>> THEN Str ELSE Head(all))

\* The body runs on a timeline of its own, named after its contract.
RunRoutine(args, b, routine, fresh) ==
    LET child == RoutineId(routine.taking)
        bound == [fresh EXCEPT !.vars = [x \in Names |->
                     LET is == {i \in DOMAIN routine.params : routine.params[i] = x}
                     IN  IF is = {} THEN Absent ELSE Valid(args.v[Max(is)])]]
    IN  IF Failed(args.m) THEN Value(args.m, Str)
        ELSE ReturnFrom(child,
                        ExecuteBlock(Place(args.m, child, bound), child, routine.body),
                        b, routine.taking)

EvaluateCall(m, b, expr) ==
    LET routine == m.routines[expr.routine]
        caller == m.timelines[b]
    IN  CASE routine.taking = None -> NoValue(m, "UnknownRoutine")
          [] Len(expr.args) # Len(routine.params) -> NoValue(m, "Arity")
          [] OTHER -> RunRoutine(PassArguments(m, b, routine.modes, expr.args), b,
                                 routine, NewTimeline(caller.budget, caller.uses))

-----------------------------------------------------------------------------
(* Variables and capabilities *)

\* A variable set inside a commit block is what a selective commit keeps.
NoteCommitted(m, x) ==
    LET i == Len(m.speculations)
    IN  IF i > 0 /\ m.speculations[i].inCommit
        THEN [m EXCEPT !.speculations[i].vars = @ \union {x}] ELSE m

Assign(m, b, st) ==
    LET now(n) == n.timelines[b].clock
        put(n, state) ==
            NoteCommitted(
                BindUntil(n, b, st.target, state,
                          IF st.type = "D" /\ n.limit # None
                          THEN now(n) + n.limit ELSE None),
                st.target)
    IN  IF st.expr.e = "Deferred"
        THEN put(m, Pending(now(m) + st.expr.latency, now(m) + st.expr.deadline))
        ELSE Using(EvaluateExpr(m, b, st.expr, TRUE), LAMBDA n, v : put(n, Valid(v)))

Log(m, b) ==
    IF "Log" \in Handlers THEN ExecuteCapability(m, b, "Log")
    ELSE Fail(m, "MissingCapability")

Send(m, b, st) ==
    Using(Consume(m, b, st.name),
          LAMBDA n, v : IF n.timelines[b].slice # None
                        THEN [n EXCEPT !.pending = Append(@, v)]
                        ELSE [n EXCEPT !.channel = Append(@, v)])

YieldValue(m, b, st) ==
    Using(Consume(m, b, st.name),
          LAMBDA n, v : Bind(n, b, "yielded",
                             Valid(Array(Append(Yields(n.timelines[b]), v)))))

\* Fault: the deadline is held against the clock before the wait.
BugAwaitPromise(m, b, st) ==
    LET promise == m.timelines[b].vars[st.name]
        n == PadTo(m, b, promise.ready)
    IN  CASE promise.s # "Pending" -> m
          [] Failed(n) -> n
          [] m.timelines[b].clock <= promise.deadline -> Bind(n, b, st.name, Valid(Str))
          [] OTHER -> [n EXCEPT !.timelines[b].vars[st.name] = Consumed]

\* A promise is waited for, and kept only if it is ready by its deadline.
AwaitPromise(m, b, st) ==
    LET promise == m.timelines[b].vars[st.name]
        n == PadTo(m, b, promise.ready)
    IN  CASE promise.s # "Pending" -> m
          [] Failed(n) -> n
          [] n.timelines[b].clock <= promise.deadline -> Bind(n, b, st.name, Valid(Str))
          [] OTHER -> [n EXCEPT !.timelines[b].vars[st.name] = Consumed]

-----------------------------------------------------------------------------
(* Conditionals *)

\* simulate_branch: a block is run on the timeline and the channel before, which
\* are put back; what it made of the timeline is noted.
Simulate(s, b, before, block) ==
    LET n == UntilBreak([s.m EXCEPT !.channel = before.channel], b, block)
    IN  CASE Failed(s.m) -> s
          [] Failed(n) -> [s EXCEPT !.m = n]
          [] OTHER -> [m |-> [n EXCEPT !.timelines[b] = before.timelines[b]],
                       ends |-> Append(s.ends, n.timelines[b])]

\* Fault: only the first arm is estimated.
BugIfCost(st) == 1 + EstimateBlock(st.then)

IfCost(st) == 1 + Dearest(EstimateBlocks(<<st.then, st.else>>))

\* Both arms are run; the timeline of the arm that is taken is kept and padded to
\* the dearer estimate.
ExecuteIf(m, b, st) ==
    LET choose(before, cond) ==
            LET s == FoldLeft(LAMBDA r, arm : Simulate(r, b, before, arm),
                              [m |-> before, ends |-> <<>>], <<st.then, st.else>>)
                taken == IF cond.value THEN 1 ELSE 2
            IN  CASE cond.k # "bool" -> Fail(before, "EvalError")
                  [] Failed(s.m) -> s.m
                  [] OTHER -> PadTo([s.m EXCEPT !.channel = before.channel,
                                                !.timelines[b] = s.ends[taken]],
                                    b, before.timelines[b].clock + IfCost(st))
    IN  Using(EvaluateExpr(m, b, st.cond, TRUE), choose)

\* The valid or decayed value moves to the binding of its arm.
ExecuteMatch(m, b, st) ==
    LET state == m.timelines[b].vars[st.name]
        bound == Bind([m EXCEPT !.timelines[b].vars[st.name] = Consumed],
                      b, st.binding, state)
        run(n, arm) == IF arm = <<>> THEN m ELSE ExecuteBlock(n, b, arm[1])
    IN  CASE state.s = "Valid"   -> run(bound, st.valid)
          [] state.s = "Decayed" -> run(bound, st.decayed)
          [] state.s = "Pending" -> run(m, st.pending)
          [] OTHER               -> run(m, st.consumed)

\* Fault: the blocks are added up.
BugSelectCost(st) == st.max + Sum(EstimateBlocks(<<st.body>> \o st.timeout))

SelectCost(st) == st.max + Dearest(EstimateBlocks(<<st.body>> \o st.timeout))

\* The case runs if a message is there, the timeout otherwise; either way the
\* statement takes its maximum and the dearest of its blocks.
ExecuteSelect(m, b, st) ==
    LET ready == m.channel # <<>>
        received == Bind([m EXCEPT !.channel = Tail(@)], b, st.binding,
                         Valid(Head(m.channel)))
        n == IF ready THEN ExecuteBlock(received, b, st.body)
             ELSE ExecuteBlocks(m, b, st.timeout)
        local == IF ready
                 THEN [n EXCEPT !.timelines[b].vars[st.binding] = Absent]
                 ELSE n
    IN  IF Failed(n) THEN n
        ELSE PadTo(local, b, m.timelines[b].clock + SelectCost(st))

\* The operator is "<".
ExecuteAssertTime(m, b, st) ==
    CASE m.timelines[b].clock < st.limit -> m
      [] st.fallback = <<>> -> Fail(m, "AssertionFailed")
      [] OTHER -> ExecuteBlocks(m, b, st.fallback)

\* The recovery runs, and the watchdog bites all the same.
ExecuteWatchdog(m, b, st) ==
    LET n == ExecuteBlock(m, b, st.recovery)
    IN  CASE m.timelines[Main].clock <= st.timeout -> m
          [] Failed(n) -> n
          [] OTHER -> Fail(n, "WatchdogBite")

-----------------------------------------------------------------------------
(* Loops *)

RECURSIVE LoopTurns(_, _, _, _, _), TickTurns(_, _, _, _, _)

\* The maximum is looked at between turns only.
LoopTurns(m, b, st, start, turns) ==
    LET n == UntilBreak(m, b, st.body)
        clock == m.timelines[b].clock
    IN  CASE clock - start >= st.max -> m
          [] turns >= MaxIterations -> Fail(m, "WatchdogBite")
          [] Failed(n) -> n
          [] n.timelines[b].broken -> ClearBreak(n, b)
          [] n.timelines[b].clock = clock -> n
          [] OTHER -> LoopTurns(n, b, st, start, turns + 1)

ExecuteLoop(m, b, st) ==
    LET start == m.timelines[b].clock
    IN  IF st.max = 0 THEN Fail(m, "InvalidLoopBudget")
        ELSE Then(LoopTurns(Deepen(m, b), b, st, start, 0),
                  LAMBDA n : Then(PadTo(n, b, start + st.max),
                                  LAMBDA padded : Surface(padded, b)))

\* commit_tick_buffers
CommitTickBuffers(m) == [m EXCEPT !.channel = @ \o m.pending, !.pending = <<>>]

\* Every turn takes a slice; padding a slice is free of charge.  Without a slice
\* the budget is one, and a budget nobody has set is more than the clock can
\* hold: the program panics.
TickTurns(m, b, st, slice, turns) ==
    LET n == UntilBreak(m, b, st.body)
        cost == n.timelines[b].clock - m.timelines[b].clock
        ticked == CommitTickBuffers(Advance(n, b, slice - cost))
    IN  CASE Failed(n) -> n
          [] cost > slice -> Fail(n, "WatchdogBite")
          [] ticked.timelines[b].clock > Unlimited -> Fail(n, "Panic")
          [] ticked.timelines[b].broken -> ClearBreak(ticked, b)
          [] turns >= MaxIterations -> Fail(ticked, "WatchdogBite")
          [] OTHER -> TickTurns(ticked, b, st, slice, turns + 1)

ExecuteLoopTick(m, b, st) ==
    LET t == m.timelines[b]
    IN  Then(TickTurns(Deepen(m, b), b, st,
                       IF t.slice = None THEN t.budget ELSE t.slice, 0),
             LAMBDA n : Surface(n, b))

ExecuteSlice(m, b, st) ==
    [m EXCEPT !.timelines[b].slice = st.ms,
              !.timelines[b].budget = IF st.ms < @ THEN st.ms ELSE @]

\* A break needs a loop around it, and a for is not one.
ExecuteBreak(m, b) ==
    IF m.timelines[b].depth = 0 THEN Fail(m, "InvalidBreak")
    ELSE [m EXCEPT !.timelines[b].broken = TRUE]

\* The value of the source, moved or looked at.
Source(m, b, mode, x) ==
    IF mode = "Consume" THEN Consume(m, b, x) ELSE Peek(m, b, x)

\* The fields of a struct are taken as pairs of key and value.
ForElements(p) ==
    IF p.k = "array" THEN p.elements
    ELSE [i \in 1 .. Cardinality(p.fields) |-> Struct({"key", "value"})]

\* A turn takes its pace, or what the body took; a turn starts while the turns
\* before it have not used up the maximum.
ForTurn(s, element, b, st) ==
    LET start == s.m.timelines[b].clock
        n == UntilBreak(Bind(s.m, b, st.item, Valid(element)), b, st.body)
        cost == n.timelines[b].clock - start
        pace == IF st.pacing = None THEN cost ELSE st.pacing
    IN  CASE Failed(s.m) \/ (st.max # None /\ s.elapsed >= st.max) -> s
          [] Failed(n) -> [s EXCEPT !.m = n]
          [] cost > pace -> [s EXCEPT !.m = Fail(ClearBreak(n, b), "PacingViolation")]
          [] OTHER -> [m |-> PadTo(ClearBreak(n, b), b, start + pace),
                       elapsed |-> s.elapsed + pace]

\* At last the maximum is held against the clock, not the start.
ExecuteFor(m, b, st) ==
    LET turns(n, p) == FoldLeft(LAMBDA s, element : ForTurn(s, element, b, st),
                                [m |-> n, elapsed |-> 0], ForElements(p)).m
        run(n, p) ==
            CASE p.k \notin {"array", "struct"} -> Fail(n, "EvalError")
              [] st.max = None -> turns(n, p)
              [] OTHER -> Then(turns(n, p), LAMBDA end : PadTo(end, b, st.max))
    IN  Using(Source(m, b, st.mode, st.source), run)

\* Every element is mapped on a copy of the timeline that is dropped again:
\* the mapping takes the parent no time.
MapElement(s, element, b, st) ==
    LET child == SplitMapId(Len(s.results))
        copy == Bind(Place(s.m, child, s.m.timelines[b]), child, st.item,
                     Valid(element))
        n == ExecuteBlock(copy, child, st.body)
    IN  CASE Failed(s.m) -> s
          [] b \notin DOMAIN s.m.timelines ->
                [s EXCEPT !.m = Fail(s.m, "BranchNotFound")]
          [] Failed(n) -> [s EXCEPT !.m = n]
          [] child \notin DOMAIN n.timelines ->
                [s EXCEPT !.m = Fail(n, "BranchNotFound")]
          [] OTHER -> [m |-> Terminate(n, child),
                       results |-> s.results \o Yields(n.timelines[child])]

ExecuteSplitMap(m, b, st) ==
    LET run(n, p) ==
            LET end == FoldLeft(LAMBDA s, element : MapElement(s, element, b, st),
                                [m |-> n, results |-> <<>>], p.elements)
            IN  CASE p.k # "array" -> Fail(n, "EvalError")
                  [] Failed(end.m) -> end.m
                  [] b \notin DOMAIN end.m.timelines -> Fail(end.m, "BranchNotFound")
                  [] OTHER -> Bind(end.m, b, "splitmap_results",
                                   Valid(Array(end.results)))
    IN  Using(Source(m, b, st.mode, st.source), run)

-----------------------------------------------------------------------------
(* Speculation, inspection, isolation *)

NoSpeculation ==
    [committed |-> FALSE, collapsed |-> FALSE, inCommit |-> FALSE, vars |-> {}]

RECURSIVE SpeculationBody(_, _, _, _, _)

\* The body, statement by statement, within the maximum.
SpeculationBody(m, b, block, start, max) ==
    IF block = <<>> THEN m
    ELSE LET n == Execute(m, b, Head(block))
         IN  CASE Failed(n) -> n
               [] n.timelines[b].clock - start > max -> Fail(n, "WatchdogBite")
               [] OTHER -> SpeculationBody(n, b, Tail(block), start, max)

\* What a selective commit keeps: the committed variables that are still there;
\* the others are marked consumed, which fails if the base never had them.
KeepCommitted(m, b, snapshot, vars) ==
    LET kept == {x \in vars : Peekable(snapshot.vars[x])}
        base == m.timelines[b]
    IN  IF \E x \in vars \ kept : base.vars[x] = Absent
        THEN Fail(m, "AlreadyConsumed")
        ELSE [m EXCEPT
                !.timelines[b].vars = [x \in Names |->
                    CASE x \in kept -> Valid(snapshot.vars[x].p)
                      [] x \in vars \ kept -> Consumed
                      [] OTHER -> base.vars[x]],
                !.timelines[b].expires = [x \in Names |->
                    IF x \in kept THEN None ELSE base.expires[x]]]

\* Fault: the fallback is not counted.
BugSpeculationCost(st) == 1 + st.max

SpeculationCost(st) == 1 + st.max + EstimateBlock(st.fallback)

\* Committed and not collapsed, the body's timeline is kept, as a whole or the
\* committed variables only; otherwise the messages are taken back and the
\* fallback runs.  Both outcomes are padded to the same time.
Settle(m, ran, b, st) ==
    LET original == m.timelines[b]
        snapshot == ran.timelines[b]
        context == Last(ran.speculations)
        base == [ran EXCEPT !.err = "none", !.speculations = Front(@),
                            !.timelines[b] = original]
        end == CASE Failed(ran) \/ ~context.committed \/ context.collapsed ->
                        ExecuteBlock([base EXCEPT !.channel = m.channel,
                                                  !.pending = m.pending],
                                     b, st.fallback)
                 [] base.full -> [base EXCEPT !.timelines[b] = snapshot]
                 [] OTHER -> KeepCommitted(base, b, snapshot, context.vars)
    IN  CASE ran.err = "Panic" -> ran
          [] b \notin DOMAIN ran.timelines -> Fail(ran, "BranchNotFound")
          [] OTHER -> Then(end, LAMBDA n : PadTo(n, b, original.clock
                                                         + SpeculationCost(st)))

ExecuteSpeculate(m, b, st) ==
    Settle(m, SpeculationBody([m EXCEPT !.speculations = Append(@, NoSpeculation)],
                              b, st.body, m.timelines[b].clock, st.max),
           b, st)

\* The innermost speculation is told.
Tell(m, what) ==
    LET i == Len(m.speculations)
    IN  IF i = 0 THEN m ELSE [m EXCEPT !.speculations[i] = what @@ @]

ExecuteCommit(m, b, st) ==
    Then(ExecuteBlock(Tell(m, [committed |-> TRUE, inCommit |-> TRUE]), b, st.body),
         LAMBDA n : [Tell(n, [inCommit |-> FALSE]) EXCEPT
                        !.timelines[b].vars = [x \in Names |->
                            IF @[x] = Consumed THEN Absent ELSE @[x]]])

\* Put back only if nothing in the body fails.
ExecuteInspect(m, b, st) ==
    Then(ExecuteBlock(m, b, st.body),
         LAMBDA n : [n EXCEPT !.timelines[b] = m.timelines[b]])

\* Fault: a manifest may ask for more than there is.
BugSetPace(m, b, cpu) ==
    IF cpu = None THEN m
    ELSE [m EXCEPT !.timelines[b].budget = cpu, !.timelines[b].slice = cpu]

SetPace(m, b, cpu) ==
    CASE cpu = None -> m
      [] cpu > m.timelines[b].budget -> Fail(m, "BudgetExhausted")
      [] OTHER -> [m EXCEPT !.timelines[b].budget = cpu,
                            !.timelines[b].slice = cpu]

\* Budget and slice of the manifest outlive the block, and so does the
\* manifest if the block fails.
ExecuteIsolate(m, b, st) ==
    LET entered == [m EXCEPT
                       !.timelines[b].uses = [c \in Capabilities |->
                           IF c \in st.uses /\ st.budget # None THEN st.budget
                           ELSE @[c]],
                       !.timelines[b].manifests = @ + 1]
        asked == FoldLeft(LAMBDA n, c : IF Failed(n) THEN n
                                        ELSE ExecuteCapability(n, b, c),
                          entered, SetToSeq(st.uses))
        run(n) == Then(SetPace(n, b, st.cpu),
                       LAMBDA paced : ExecuteBlock(paced, b, st.body))
    IN  Then(Then(asked, run),
             LAMBDA n : [n EXCEPT !.timelines[b].manifests = @ - 1])

-----------------------------------------------------------------------------
(* execute_statement *)

ExecuteStatement(m, b, st) ==
    CASE st.op = "Assignment" -> Assign(m, b, st)
      [] st.op = "TypeDecl" -> [m EXCEPT !.limit = st.limit]
      [] st.op = "DecayHandler" -> [m EXCEPT !.handler = <<st.body>>]
      [] st.op = "Expression" -> EvaluateExpr(m, b, st.expr, TRUE).m
      [] st.op = "Print" -> Using(EvaluateExpr(m, b, st.expr, TRUE),
                                  LAMBDA n, v : Log(n, b))
      [] st.op = "Debug" -> Using(EvaluateExpr(m, b, st.expr, FALSE),
                                  LAMBDA n, v : Log(n, b))
      [] st.op = "ChannelSend" -> Send(m, b, st)
      [] st.op = "NetworkRequest" ->
            IF "Fetch" \in Handlers THEN Charge(m, b, 5)
            ELSE Fail(m, "MissingCapability")
      [] st.op = "Capability" -> ExecuteCapability(m, b, st.cap)
      [] st.op = "If" -> ExecuteIf(m, b, st)
      [] st.op = "Match" -> ExecuteMatch(m, b, st)
      [] st.op = "Select" -> ExecuteSelect(m, b, st)
      [] st.op = "Await" -> AwaitPromise(m, b, st)
      [] st.op = "Loop" -> ExecuteLoop(m, b, st)
      [] st.op = "LoopTick" -> ExecuteLoopTick(m, b, st)
      [] st.op = "Slice" -> ExecuteSlice(m, b, st)
      [] st.op = "Break" -> ExecuteBreak(m, b)
      [] st.op = "For" -> ExecuteFor(m, b, st)
      [] st.op = "SplitMap" -> ExecuteSplitMap(m, b, st)
      [] st.op = "Yield" -> YieldValue(m, b, st)
      [] st.op = "Speculate" -> ExecuteSpeculate(m, b, st)
      [] st.op = "Collapse" -> Fail(Tell(m, [collapsed |-> TRUE]),
                                    "SpeculationCollapsed")
      [] st.op = "Commit" -> ExecuteCommit(m, b, st)
      [] st.op = "SpeculationMode" -> [m EXCEPT !.full = st.full]
      [] st.op = "Inspect" -> ExecuteInspect(m, b, st)
      [] st.op = "AssertTime" -> ExecuteAssertTime(m, b, st)
      [] st.op = "Watchdog" -> ExecuteWatchdog(m, b, st)
      [] st.op = "Isolate" -> ExecuteIsolate(m, b, st)
      [] st.op = "RoutineDef" ->
            [m EXCEPT !.routines[st.routine] =
                [taking |-> IF st.taking = None THEN EstimateBlock(st.body)
                            ELSE st.taking,
                 modes |-> st.modes, params |-> st.params, body |-> st.body]]

\* Every statement takes a millisecond, and what is due decays, before anything
\* else happens.
Execute(m, b, st) ==
    IF b \notin DOMAIN m.timelines THEN Fail(m, "BranchNotFound")
    ELSE Then(AutoDecay(Advance(m, b, 1), b),
              LAMBDA n : ExecuteStatement(n, b, st))
=============================================================================
