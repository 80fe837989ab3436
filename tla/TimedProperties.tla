--------------------------- MODULE TimedProperties ----------------------------
(***************************************************************************)
(* What the machine promises about time, and what the static analyser      *)
(* promises about the machine.  Most of it holds of a class of programs    *)
(* only; the classes are defined by the syntax.                            *)
(***************************************************************************)
EXTENDS TimedPrograms

Accepted == analysis # NotAnalysed /\ ~Rejected(analysis.a)
Clock(m) == m.timelines[Main].clock

\* The statements of the program, and how many of them have been run.
Body == FlattenSeq(program)
Done == Len(FlattenSeq(SubSeq(program, 1, at.block - 1))) + at.line - 1

\* A step in which a statement succeeds, or one of some kind; and its time.
Succeeds == InBlock /\ at' = [at EXCEPT !.line = @ + 1]
SucceedsAs(kind) == Succeeds /\ Current.op = kind
Elapsed == Clock(vm') - Clock(vm)

\* The names a block assigns.
Bound(block) == {st.target : st \in {s \in Statements(block) : s.op = "Assignment"}}

CallsIn(st) == {x \in Expressions(st) : x.e = "Call"}

-----------------------------------------------------------------------------
(* Types *)

PayloadOK(p) ==
    \/ p \in {Number, Str, Bool(TRUE), Bool(FALSE)}
    \/ p.k \in {"array", "struct"}

EntropyOK(state) ==
    \/ state \in {Consumed, Absent}
    \/ state.s = "Valid" /\ PayloadOK(state.p)
    \/ state.s = "Decayed" /\ state.p.k = "struct"
    \/ state.s = "Pending" /\ state.ready \in Nat /\ state.deadline \in Nat

TimelineOK(t) ==
    /\ t.clock \in 0 .. Unlimited /\ t.budget \in 0 .. Unlimited
    /\ t.slice \in Nat \union {None} /\ t.depth \in Nat
    /\ t.broken \in BOOLEAN /\ t.manifests \in Nat
    /\ \A c \in Capabilities : t.uses[c] \in Nat \union {None}
    /\ \A x \in Names : /\ EntropyOK(t.vars[x])
                        /\ t.expires[x] \in Nat \union {None}

MachineOK(m) ==
    /\ Main \in DOMAIN m.timelines
    /\ \A id \in DOMAIN m.timelines : TimelineOK(m.timelines[id])
    /\ \A p \in Range(m.channel) \union Range(m.pending) : PayloadOK(p)

\* Clocks and budgets stay within their type, also in a tick without a slice, a
\* decayed value is a struct, and the main timeline never goes away
\* (execute_statement, consume_budget, Arena::decay).
TypeOK == MachineOK(vm) /\ MachineOK(twin) /\ ~Failed(vm)

-----------------------------------------------------------------------------
(* Blocks *)

\* No loop, break, manifest or speculation is open.
Quiescent(m) ==
    /\ m.speculations = <<>>
    /\ LET t == m.timelines[Main]
       IN  t.depth = 0 /\ ~t.broken /\ t.manifests = 0

\* A speculation that fails inside a call or a split_map puts its own timeline
\* back and forgets the child's.
MayStrand(st) ==
    /\ st.op = "Speculate"
    /\ \E s \in Statements(st.body) : s.op = "SplitMap" \/ CallsIn(s) # {}

\* As long as no statement has failed, every statement closes what it opens:
\* loop_depth, break_requested, the manifest stack and the speculation stack,
\* however they are nested, also when a speculation inside or around them was
\* given up; and the timelines of routines and of split_map, unless they were
\* speculated on.
NothingLeftOpen ==
    faults = <<>> =>
        /\ Quiescent(vm)
        /\ (\E st \in Statements(Body) : MayStrand(st))
           \/ DOMAIN vm.timelines = {Main}

-----------------------------------------------------------------------------
(* Time *)

\* Statements whose real cost an estimate covers: it does not cover a wait, the
\* body of a commit or of a loop, nor a speculation's maximum.  The machine's
\* own estimate does not know a call's contract either.
Costed(block) ==
    \A st \in ToSet(Preorder(block)) :
        /\ st.op \notin {"Await", "For", "LoopTick", "Loop"}
        /\ st.op = "Commit" => st.body = <<>>
        /\ st.op = "Speculate" => st.max <= EstimateBlock(st.body)

\* The body of a decay handler, whose time falls to any statement.
HasHandler == \E st \in Statements(Body) : st.op = "DecayHandler"
HandlerBody ==
    FlattenSeq(SetToSeq({st.body : st \in {s \in Statements(Body) :
                                              s.op = "DecayHandler"}}))

Metered(block) ==
    Costed(block) /\ \A st \in Statements(block) : CallsIn(st) = {}

\* No metered statement takes the machine longer than the machine's own
\* estimate of it, by which if, select and speculate are padded
\* (estimate_statement_cost, handlers.rs).
WithinEstimate ==
    [][Succeeds /\ Metered(<<Current>>) /\ ~HasHandler
          => Elapsed <= EstimateStatement(Current)]_vars

\* A speculation takes the same time whether it commits, collapses, fails or
\* runs out of time (docs/spec/ictl_spec_speculation.md:53); a select whether a
\* message is there or not (ictl_spec_control_flow.md:87); a call what its
\* routine contracts for, whatever its body took (ictl_spec_routines.md:31).
\* For the first two the amount is the one the code pads to (handlers.rs:154 and
\* :770); the cost equations in ictl_spec_speculation.md:57 and
\* ictl_spec_temporal_routing.md:25 give less.
ContractsKept ==
    [][HasHandler \/
       /\ (SucceedsAs("Speculate") /\ Metered(Current.fallback))
             => Elapsed = 2 + Current.max + EstimateBlock(Current.fallback)
       /\ (SucceedsAs("Select") /\ Metered(FlattenSeq(Blocks(Current))))
             => Elapsed = 1 + Current.max +
                          Dearest(EstimateBlocks(Blocks(Current)))
       /\ (SucceedsAs("Assignment") /\ CallsIn(Current) = {Current.expr})
             => Elapsed = Max({1, vm.routines[Current.expr.routine].taking})]_vars

\* No budget is gained: whatever a statement restores, sets aside or isolates,
\* the timeline ends with no more budget than it had (consume_budget, isolate,
\* slice, the snapshots of speculate, if and inspect).
BudgetNeverGrows ==
    [][vm'.timelines[Main].budget <= vm.timelines[Main].budget]_vars

\* A promise is settled only when it is due: while a value is pending, no
\* statement that does not bind its name settles it before it is ready, and
\* none makes it available after its deadline, whatever blocks the await is in
\* and whatever they put back (await, docs/spec/ictl_spec_promises.md:33).
PromisesKept ==
    [][\A x \in Names :
        LET before == vm.timelines[Main].vars[x]
            after == vm'.timelines[Main].vars[x]
        IN  /\ before.s = "Pending" /\ after.s # "Pending"
            /\ x \notin Bound(<<Current>> \o HandlerBody)
            => /\ Clock(vm') >= before.ready
               /\ after.s = "Valid" =>
                     before.deadline >= Max({before.ready, Clock(vm) + 1})]_vars

\* A value does not outlive its limit: after a statement that succeeds, nothing
\* is valid that was past its limit when the statement began, whatever the
\* handlers and the snapshots of the blocks in it bound, consumed or put back,
\* and whatever failed before (execute_statement, decay_variable).
LimitsKept ==
    [][Succeeds =>
        \A x \in Names :
            LET t == vm'.timelines[Main]
            IN  t.vars[x].s = "Valid" /\ t.expires[x] # None
                => t.expires[x] > Clock(vm)]_vars

\* The time of a program does not tell its secret: the clocks of two runs that
\* differ in a Boolean an if decides on agree after every statement, as long as
\* neither run has failed, the arms of every if are metered and do not break or
\* set a slice, and no match finds out what an arm moved
\* (docs/spec/ictl_spec_control_flow.md:18).
SecretKeepsTime ==
    /\ HasSecret(program) /\ Accepted /\ faults = <<>> /\ ~Failed(twin)
    /\ ~HasHandler
    /\ \A st \in Statements(Body) :
          /\ st.op # "Match"
          /\ st.op = "If" =>
                /\ Metered(st.then \o st.else)
                /\ \A s \in Statements(st.then \o st.else) :
                      /\ s.op \notin {"Break", "Slice"}
                      /\ s.op = "Isolate" => s.cpu = None
    => Clock(twin) = Clock(vm)

-----------------------------------------------------------------------------
(* The analyser and the machine *)

\* Time the analyser does not see: a recovery, a loop of too many turns, a
\* body with costs it does not know, a slice that is not the one it takes it
\* for, a call in a routine whose contract the machine estimates.
HasUnseenTime ==
    LET all == Statements(Body)
    IN  \E st \in all :
            \/ st.op \in {"Watchdog", "DecayHandler"}
            \/ st.op = "Loop" /\ st.max > MaxIterations
            \/ st.op \in {"RoutineDef", "LoopTick"} /\ ~Costed(st.body)
            \/ st.op = "Isolate" /\ st.cpu # None
            \/ st.op = "Slice" /\ st \notin ToSet(Body)
            \/ /\ st.op = "RoutineDef" /\ st.taking = None
               /\ \E s \in Statements(st.body) : CallsIn(s) # {}

\* An accepted program runs over no contract of a routine and no slice, and
\* loses no timeline, unless it has time the analyser does not see
\* (RoutineBudgetExceeded and TickLoopBudgetExceeded against the watchdogs of
\* evaluate_call and of loop tick).
AcceptedContractsHold ==
    /\ Accepted /\ faults # <<>>
    /\ Head(faults) \in {"WatchdogBite", "BranchNotFound"}
    => HasUnseenTime

\* Statements that may take less time than the analyser has added up, and
\* assertions that may not be reached.
MaySkip(st) ==
    \/ st.op \in {"For", "SplitMap", "Watchdog", "DecayHandler"}
    \/ st.op = "Loop" /\ Break \in Statements(<<st>>)
    \/ st.op = "AssertTime" /\ (st.fallback # <<>> \/ st \notin ToSet(Body))

\* A program that is refused because it is too late for an assertion does not
\* get past it: the cost the analyser adds up is never more than the clock.
RefusedAssertionsFail ==
    /\ analysis.a.err = "TemporalAssertionViolation"
    /\ faults = <<>> /\ Done > Len(analysis.spans)
    => \E st \in Statements(Body) : MaySkip(st)

\* What an expression reads by name.
Reads(exprs) == {e \in exprs : e.e \in {"Identifier", "FieldAccess", "CloneOp"}}
FieldsRead(st) == {e \in Expressions(st) : e.e = "FieldAccess"}

\* The names a statement moves out of, not counting its blocks.
Moved(st) ==
    {e.name : e \in {r \in Reads(Expressions(st)) : r.e # "CloneOp"}} \union
    (IF st.op \in {"ChannelSend", "Yield"} THEN {st.name} ELSE {}) \union
    (IF st.op \in {"For", "SplitMap"} THEN {st.source} ELSE {})

\* Expressions the analyser does not look into, but the machine evaluates.
UnseenOperands(e) ==
    CASE e.e = "ArrayLiteral" -> ToSet(e.elements)
      [] e.e = "Call" -> {a \in ToSet(e.args) : a.e # "Identifier"}
      [] OTHER -> {}

\* Statements after which a value may be gone although the analyser thinks it
\* is there, or the other way round:
BlindSpot(st) ==
    \* print and debug are taken to read nothing away
    \/ st.op \in {"Print", "Debug"} /\ Moved(st) # {}
    \* array elements and computed arguments
    \/ \E e \in Expressions(st) : \E o \in UnseenOperands(e) :
            Reads(Subexpressions(o)) # {}
    \* a peeked argument may be consumed already
    \/ st.op = "RoutineDef" /\ "Peek" \in ToSet(st.modes)
    \* a yield is not looked at, a promise may be late
    \/ st.op = "Yield"
    \/ \E e \in Expressions(st) : e.e = "Deferred"
    \* the body of a loop is looked at once; a for may have nothing to run on,
    \* and a source that it clones may be consumed already
    \/ st.op = "Loop" /\ \E s \in Statements(st.body) : Moved(s) # {}
    \/ st.op = "For"
    \* what a speculation does is forgotten
    \/ st.op = "Speculate"
    \* a name is bound by a block that may not run
    \/ /\ st.op \in {"If", "AssertTime", "Watchdog", "Loop", "LoopTick", "SplitMap",
                     "DecayHandler"}
       /\ Bound(FlattenSeq(Blocks(st))) # {}
    \* inside of inspect a field may be taken twice
    \/ st.op = "Inspect" /\ \E s \in Statements(st.body) : FieldsRead(s) # {}
    \* select forgets decay, and drops a name that may have been bound before
    \/ /\ st.op = "Select"
       /\ \/ st.binding \in Bound(Body)
          \/ \E s \in Statements(FlattenSeq(Blocks(st))) : FieldsRead(s) # {}
    \* the machine's clock runs ahead of the analyser's
    \/ st.op = "TypeDecl" /\ st.limit # None

\* A field is taken a second time: the analyser counts whole values.
FieldTakenTwice(all) ==
    \E i, j \in DOMAIN all : \E e1 \in FieldsRead(all[i]), e2 \in FieldsRead(all[j]) :
        e1.field = e2.field /\ (i # j \/ e1 # e2)

\* A name nothing has bound is sent, mapped or cloned.
UsesUnbound(all) ==
    \E i \in DOMAIN all :
        \E n \in {e.name : e \in {r \in Expressions(all[i]) : r.e = "CloneOp"}} \union
                 (IF all[i].op \in {"ChannelSend", "SplitMap"}
                  THEN Moved(all[i]) ELSE {}) :
            ~\E j \in 1 .. i - 1 : all[j].op = "Assignment" /\ all[j].target = n

HasBlindSpot ==
    LET all == Preorder(Body)
    IN  \/ \E st \in ToSet(all) : BlindSpot(st)
        \/ FieldTakenTwice(all)
        \/ UsesUnbound(all)

\* An accepted program uses a value that is gone only if it has one of these
\* blind spots (analyze_program against Arena::consume, peek, consume_field).
OnlyBlindSpotsReuse ==
    /\ Accepted /\ faults # <<>>
    /\ Head(faults) \in {"AlreadyConsumed", "StructurallyDecayed"}
    => HasBlindSpot

\* And the states it records, which the editor shows, cover the machine's.
SpansCoverMachine ==
    /\ Accepted /\ faults = <<>> /\ Done > 0
    /\ LET span == analysis.spans[Done]
       IN  \E n \in Names :
              LET state == vm.timelines[Main].vars[n]
              IN  \/ /\ state.s = "Consumed" \/ (state = Absent /\ span.types[n] # NoType)
                     /\ n \notin span.consumed
                  \/ state.s = "Decayed" /\ n \notin span.consumed \union span.decayed
    => HasBlindSpot
=============================================================================
