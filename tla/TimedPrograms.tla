----------------------------- MODULE TimedPrograms -----------------------------
(***************************************************************************)
(* A program is analysed and run, statement by statement, on a new machine *)
(* as the command line does; but it is run also when the analyser refuses  *)
(* it, as the tests of the machine do.  When a statement fails the rest of *)
(* its block is given up and the next block goes on with what the failure  *)
(* left.  A program that starts with a secret, a Boolean literal, is run   *)
(* with the other literal beside it.                                       *)
(***************************************************************************)
EXTENDS StaticAnalyser, TimedVm

\* A program is a sequence of blocks of the main timeline.
CONSTANT Families   \* sets of programs

VARIABLES
    program,    \* the program
    analysis,   \* the analyser at its end and the states it recorded
    at,         \* block and line of the next statement
    vm,         \* the machine
    twin,       \* the machine that runs the program with another secret
    faults      \* the errors reported so far

vars == <<program, analysis, at, vm, twin, faults>>

NotAnalysed == [a |-> Reject(NewAnalyser, "not analysed"), spans |-> <<>>]
Start == [block |-> 1, line |-> 1]

\* The literal of the secret.
Secret == "c"
IsSecret(st) ==
    \E b \in BOOLEAN : st = Let(Secret, Boolean(b))
HasSecret(p) == p[1] # <<>> /\ IsSecret(p[1][1])
Flipped(st) ==
    IF IsSecret(st) THEN Let(Secret, Boolean(~st.expr.value)) ELSE st

\* The order of a hash map is anyone's guess, and it matters to handlers only:
\* of any two names either comes first.
Walks(p) ==
    LET names == SetToSeq(Names)
    IN  IF \E st \in Statements(FlattenSeq(p)) : st.op = "DecayHandler"
        THEN {names, Reverse(names)} ELSE {names}

Init ==
    /\ \E family \in Families : program \in family
    /\ analysis = NotAnalysed
    /\ at = Start
    /\ \E walk \in Walks(program) : vm = NewVm(walk) /\ twin = NewVm(walk)
    /\ faults = <<>>

Analyse ==
    /\ analysis = NotAnalysed
    /\ analysis' = AnalyseProgram(program)
    /\ UNCHANGED <<program, at, vm, twin, faults>>

Running == analysis # NotAnalysed /\ at.block <= Len(program)
InBlock == Running /\ at.line <= Len(program[at.block])
Current == program[at.block][at.line]

\* The machine after the statement.
Result == Execute(vm, Main, Current)

Statement ==
    /\ InBlock
    /\ \E result \in {Result} : ~Failed(result) /\ vm' = result
    /\ at' = [at EXCEPT !.line = @ + 1]
    /\ UNCHANGED <<program, analysis, faults>>

\* The error is reported, and the next block starts on what is left; a panic
\* ends the program.
FailingStatement ==
    /\ InBlock
    /\ \E result \in {Result} :
           /\ Failed(result)
           /\ vm' = [result EXCEPT !.err = "none"]
           /\ faults' = Append(faults, result.err)
           /\ at' = [block |-> IF result.err = "Panic" THEN Len(program) + 1
                               ELSE at.block + 1,
                     line |-> 1]
    /\ UNCHANGED <<program, analysis>>

\* The other machine stops at its first error.
TwinStep ==
    twin' = IF HasSecret(program) /\ ~Failed(twin)
            THEN Execute(twin, Main, Flipped(Current)) ELSE twin

NextBlock ==
    /\ Running /\ ~InBlock
    /\ at' = [block |-> at.block + 1, line |-> 1]
    /\ UNCHANGED <<program, analysis, vm, twin, faults>>

RunStatement == (Statement \/ FailingStatement) /\ TwinStep

Next == Analyse \/ RunStatement \/ NextBlock

Spec == Init /\ [][Next]_vars

=============================================================================
