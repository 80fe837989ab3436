------------------------------ MODULE IctlSyntax ------------------------------
(***************************************************************************)
(* The abstract syntax of a program on one timeline: a program is a        *)
(* sequence of blocks, a block a sequence of statements.  Names of types   *)
(* and channels are left out where there is one of them: "D" is the only   *)
(* declared type and a program has one channel.  An optional block is a    *)
(* sequence of at most one block; a branch arm that may be absent at no    *)
(* consequence is an empty block.                                          *)
(***************************************************************************)
EXTENDS Integers, Sequences, SequencesExt, FiniteSetsExt

CONSTANTS
    Names,        \* variables of the programs
    Routines,     \* names of routines
    Fields        \* fields of a struct

None == -1        \* an absent number
NoType == "none"  \* no annotation, no type known

-----------------------------------------------------------------------------
(* Expressions *)

Integer == [e |-> "Integer"]
Boolean(b) == [e |-> "Boolean", value |-> b]
Identifier(x) == [e |-> "Identifier", name |-> x]
FieldAccess(x, f) == [e |-> "FieldAccess", name |-> x, field |-> f]
CloneOp(x) == [e |-> "CloneOp", name |-> x]
StructLit == [e |-> "StructLit"]
ArrayLiteral(elements) == [e |-> "ArrayLiteral", elements |-> elements]
BinaryOp(l, r) == [e |-> "BinaryOp", left |-> l, right |-> r]
Call(r, args) == [e |-> "Call", routine |-> r, args |-> args]
Deferred(latency, deadline) ==
    [e |-> "Deferred", latency |-> latency, deadline |-> deadline]

-----------------------------------------------------------------------------
(* Statements *)

AnnotatedLet(x, type, mutable, expr) ==
    [op |-> "Assignment", target |-> x, type |-> type, mutable |-> mutable,
     expr |-> expr]
Let(x, expr) == AnnotatedLet(x, NoType, TRUE, expr)
TypeDecl(limit) == [op |-> "TypeDecl", limit |-> limit]
DecayHandler(body) == [op |-> "DecayHandler", body |-> body]
Evaluate(expr) == [op |-> "Expression", expr |-> expr]
PrintValue(expr) == [op |-> "Print", expr |-> expr]
DebugValue(expr) == [op |-> "Debug", expr |-> expr]
ChannelSend(x) == [op |-> "ChannelSend", name |-> x]
NetworkRequest == [op |-> "NetworkRequest"]
Capability(cap) == [op |-> "Capability", cap |-> cap]

If(cond, then, else, auto) ==
    [op |-> "If", cond |-> cond, then |-> then, else |-> else, auto |-> auto]
\* each arm is optional; a valid or decayed value is bound to a name
Match(x, binding, valid, decayed, pending, consumed) ==
    [op |-> "Match", name |-> x, binding |-> binding, valid |-> valid,
     decayed |-> decayed, pending |-> pending, consumed |-> consumed]
\* one case on the channel
Select(max, binding, body, timeout) ==
    [op |-> "Select", max |-> max, binding |-> binding, body |-> body,
     timeout |-> timeout]
Await(x) == [op |-> "Await", name |-> x]

Loop(max, body) == [op |-> "Loop", max |-> max, body |-> body]
LoopTick(body) == [op |-> "LoopTick", body |-> body]
Slice(ms) == [op |-> "Slice", ms |-> ms]
Break == [op |-> "Break"]
\* mode is "Consume" or "Clone"; pacing and max may be None
For(item, mode, source, body, pacing, max) ==
    [op |-> "For", item |-> item, mode |-> mode, source |-> source,
     body |-> body, pacing |-> pacing, max |-> max]
SplitMap(item, mode, source, body) ==
    [op |-> "SplitMap", item |-> item, mode |-> mode, source |-> source,
     body |-> body]
Yield(x) == [op |-> "Yield", name |-> x]

Speculate(max, body, fallback) ==
    [op |-> "Speculate", max |-> max, body |-> body, fallback |-> fallback]
Collapse == [op |-> "Collapse"]
Commit(body) == [op |-> "Commit", body |-> body]
SpeculationMode(full) == [op |-> "SpeculationMode", full |-> full]
Inspect(body) == [op |-> "Inspect", body |-> body]

\* assert time < limit
AssertTime(limit, fallback) ==
    [op |-> "AssertTime", limit |-> limit, fallback |-> fallback]
Watchdog(timeout, recovery) ==
    [op |-> "Watchdog", timeout |-> timeout, recovery |-> recovery]
\* cpu may be None; uses is what the manifest asks for, budget how many
\* times the program may use it (None: no limit)
Isolate(cpu, uses, budget, body) ==
    [op |-> "Isolate", cpu |-> cpu, uses |-> uses, budget |-> budget,
     body |-> body]
\* modes and params are sequences of the same length; taking may be None
RoutineDef(r, modes, params, taking, body) ==
    [op |-> "RoutineDef", routine |-> r, modes |-> modes, params |-> params,
     taking |-> taking, body |-> body]

-----------------------------------------------------------------------------
(* Parts of a statement *)

\* The blocks a statement contains.
Blocks(st) ==
    CASE st.op = "If"        -> <<st.then, st.else>>
      [] st.op = "Match"     -> st.valid \o st.decayed \o st.pending \o
                                st.consumed
      [] st.op = "Select"    -> <<st.body>> \o st.timeout
      [] st.op = "Speculate" -> <<st.body, st.fallback>>
      [] st.op = "AssertTime" -> st.fallback
      [] st.op = "Watchdog"  -> <<st.recovery>>
      [] st.op \in {"Loop", "LoopTick", "For", "SplitMap", "Commit",
                    "Inspect", "Isolate", "RoutineDef",
                    "DecayHandler"} -> <<st.body>>
      [] OTHER -> <<>>

\* The statements of a block and all statements inside them, in order.
RECURSIVE Preorder(_)
Preorder(block) ==
    FlattenSeq([i \in DOMAIN block |->
                   <<block[i]>> \o Preorder(FlattenSeq(Blocks(block[i])))])

Statements(block) == ToSet(Preorder(block))

Operands(expr) ==
    CASE expr.e = "Call" -> expr.args
      [] expr.e = "BinaryOp" -> <<expr.left, expr.right>>
      [] expr.e = "ArrayLiteral" -> expr.elements
      [] OTHER -> <<>>

\* An expression and all expressions inside it.
RECURSIVE Subexpressions(_)
Subexpressions(expr) ==
    {expr} \union UNION {Subexpressions(o) : o \in ToSet(Operands(expr))}

\* The expressions a statement evaluates itself.
Expressions(st) ==
    CASE st.op \in {"Assignment", "Expression", "Print", "Debug"} ->
            Subexpressions(st.expr)
      [] st.op = "If" -> Subexpressions(st.cond)
      [] OTHER -> {}

Sum(numbers) == FoldLeft(LAMBDA m, n : m + n, 0, numbers)

-----------------------------------------------------------------------------
\* The operator "?": the next step, unless there is an error already.
Then(state, Step(_)) == IF state.err = "none" THEN Step(state) ELSE state
=============================================================================
