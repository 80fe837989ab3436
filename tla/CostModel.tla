------------------------------ MODULE CostModel -------------------------------
(***************************************************************************)
(* What a statement is expected to cost, in milliseconds of local clock.   *)
(* The virtual machine and the static analyser keep a table each: the      *)
(* machine pads conditionals and speculations to its own estimate, the     *)
(* analyser checks the contracts of routines and ticks against the other.  *)
(* The two differ: only the analyser charges for expressions.              *)
(***************************************************************************)
EXTENDS IctlSyntax

\* The dearest of some blocks; no block costs nothing.
Dearest(costs) == Max({0} \union ToSet(costs))

-----------------------------------------------------------------------------
(* vm/cost.rs *)

RECURSIVE EstimateStatement(_)

EstimateBlock(block) ==
    Sum([i \in DOMAIN block |-> EstimateStatement(block[i])])

EstimateBlocks(blocks) == [i \in DOMAIN blocks |-> EstimateBlock(blocks[i])]

EstimateStatement(st) ==
    LET inner == EstimateBlocks(Blocks(st))
        extra ==
            CASE st.op = "NetworkRequest" -> 5
              [] st.op \in {"Isolate", "Watchdog", "Inspect", "DecayHandler"} ->
                    inner[1]
              [] st.op = "AssertTime" -> 1 + Dearest(inner)
              [] st.op \in {"Debug", "Await", "SplitMap", "LoopTick"} -> 1
              [] st.op \in {"If", "Match"} -> 1 + Dearest(inner)
              [] st.op = "For" -> IF st.pacing = None THEN 1 ELSE st.pacing
              [] st.op = "Speculate" -> 1 + inner[1] + inner[2]
              [] st.op = "Select" -> st.max + Dearest(inner)
              [] st.op = "RoutineDef" ->
                    IF st.taking = None THEN 0 ELSE st.taking
              [] st.op = "Loop" -> st.max
              [] OTHER -> 0
    IN  1 + extra

-----------------------------------------------------------------------------
(* analysis/expression.rs and analysis/statement.rs; taking is the contract *)
(* of every routine, None where it is not defined.                          *)

RECURSIVE StaticExpressionCost(_, _)
StaticExpressionCost(taking, expr) ==
    LET SumOf(exprs) ==
            Sum([i \in DOMAIN exprs |-> StaticExpressionCost(taking, exprs[i])])
    IN  CASE expr.e = "Call" ->
                SumOf(expr.args) + Max({0, taking[expr.routine]})
          [] expr.e = "BinaryOp" -> 1 + SumOf(<<expr.left, expr.right>>)
          [] expr.e = "StructLit" -> 1 + Cardinality(Fields)
          [] expr.e = "ArrayLiteral" -> 1 + SumOf(expr.elements)
          [] OTHER -> 1

RECURSIVE StaticStatementCost(_, _)

\* Fault: every statement counts for one.
BugStaticBlockCost(taking, block) == Len(block)

StaticBlockCost(taking, block) ==
    Sum([i \in DOMAIN block |-> StaticStatementCost(taking, block[i])])

StaticStatementCost(taking, st) ==
    LET blocks == Blocks(st)
        inner == [i \in DOMAIN blocks |-> StaticBlockCost(taking, blocks[i])]
        extra ==
            CASE st.op = "NetworkRequest" -> 5
              [] st.op \in {"Assignment", "Expression"} ->
                    StaticExpressionCost(taking, st.expr)
              [] st.op \in {"Print", "Debug"} ->
                    1 + StaticExpressionCost(taking, st.expr)
              [] st.op \in {"Isolate", "Watchdog", "Inspect", "DecayHandler"} ->
                    inner[1]
              [] st.op = "AssertTime" -> 1 + Dearest(inner)
              [] st.op \in {"Await", "SplitMap", "LoopTick"} -> 1
              [] st.op \in {"If", "Match"} -> 1 + Dearest(inner)
              [] st.op = "For" -> IF st.pacing = None THEN 1 ELSE st.pacing
              [] st.op = "Speculate" -> 1 + inner[1] + inner[2]
              [] st.op = "Select" -> st.max + 1 + Dearest(inner)
              [] st.op = "RoutineDef" ->
                    IF st.taking = None THEN 0 ELSE st.taking
              [] st.op = "Loop" -> st.max
              [] OTHER -> 0
    IN  1 + extra
=============================================================================
