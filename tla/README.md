# A TLA+ model of the ICTL virtual machine

ICTL is a language whose values decay when they are read, whose programs run on
several *timelines* (branches), and whose statements may rewind a timeline to an
earlier anchor. The repository holds its parser, a static analyser, a virtual
machine, a command line and a language server. This directory models the parts
of it that keep state, checks them with TLC and proves theorems about them with
TLAPS.

## 1. Inventory

| part | source | state it keeps | operations | interaction |
|---|---|---|---|---|
| causal core | `ictl-runtime/src/vm/core.rs`, `state.rs`, `statements/handlers.rs` | timelines, channels, pending buffers, `causal_history`, `speculation_stack` | channel send and receive, direct send, anchor, `rewind_to`, `reset`, `causal_rollback`, `commit`, `speculate` | every timeline reads and writes the shared channels and the one global log; a rollback of one timeline edits queues and arenas of the others |
| value arena | `ictl-core/src/value.rs` | bindings, metadata, `used`, `capacity` | insert, consume, consume a field, peek, decay, update, compact | one per timeline; snapshots of it are taken by anchors, `speculate`, `if`, `inspect` and merges |
| isochronous scheduling | `handlers.rs` (`slice`, `isolate`, `loop tick`), `commit_tick_buffers` | `slice_ms`, pending buffers | buffer a send, pad an iteration, publish | the tick of one timeline publishes for all |
| timing contracts | `handlers.rs`, `cost.rs` | `local_clock`, `cpu_budget_ms` | estimate, pad, consume budget | all paced statements |
| entanglement | `core.rs`, `expression.rs` | `entanglements` | entangle, propagate a consumption or a decay | reaches into other timelines' arenas |
| split and merge | `core.rs` | `active_branches` | split, merge with resolutions, terminate | creates and destroys timelines |
| simulated branches | `core.rs` (`simulate_branch`), `handlers.rs` (`if`, `inspect`) | saved timelines and channels | simulate, keep one | run statements whose effects are then dropped |
| promises | `handlers.rs` | `Pending` bindings | defer, await | the clock |
| decay | `core.rs`, `value.rs` | metadata, decay handlers | decay before each statement | runs program statements |
| routines, capabilities | `expression.rs`, `handlers.rs` | manifest stack, child timelines | call, check | parameter modes move, clone or peek values |
| static analyser | `ictl-analysis/src` | abstract arenas and costs per branch | one rule per statement | must accept only what the machine runs |
| command line | `ictl-cli/src/main.rs` | one analyser and one machine per file | analyse, run block after block | an error ends a block, not the program |
| language server | `lsp/src` | document map, analysis cache | open, change, save, queries | handlers interleave at their awaits |
| parser and IR, editor support | `ictl-frontend`, `lsp` | none | | |

What is hard in this code:

* *Rollback over shared state.* A rewind walks the global log backwards and
  reverses the events of one timeline in queues and arenas that other timelines
  use meanwhile. It can fail half-way.
* *Snapshots against live state.* Anchors, speculations and simulated branches
  keep copies of a timeline; the effects the timeline had elsewhere are not in
  the copy.
* *Nesting.* Commits and speculations nest; an error leaves some blocks and
  aborts others; an abort truncates a log that anchors point into.
* *Accounting.* Budgets, clocks and arena sizes are changed on paths that do
  not all use the same rule.
* Nothing is persisted and the machine is single-threaded: there are no crashes
  or data races to model. What interleaves are the statements of the timelines
  (`@branch` blocks, relativistic blocks) and, in the language server, handlers.

What makes the parts correct: a value has one owner; a message taken back never
surfaces, and a message is delivered once; a completed rewind has undone
everything its timeline did since the anchor; an aborted speculation restores
the configuration it started from; past a commit no older anchor is usable;
a rollback ends. An arena is charged for what it holds, a value that was copied
by a split is spent once, and a merge loses no consumption. A paced construct
takes its time whichever way it goes, a budget never grows, every block closes
what it opens, a promise is settled when it is due; and a program the analyser
accepts keeps its contracts and does not use a value that is gone, up to blind
spots that can be listed.

## 2. The modules

| module | what it is |
|---|---|
| `CausalVm` | the causal core: state, one action per statement, `causal_rollback` one event per step, commit and speculate blocks, error propagation |
| `CausalProperties` | its type invariant, safety, action and liveness properties |
| `MCCausalVm` | the program classes and the symmetry of the runs |
| `SequenceLemmas` | what push, pop, truncate, remove, push_front and append do to a sequence; proved |
| `CausalProofs` | the theorems about the causal core: types, outflow locking, that it implements `CausalChannels`, and that completed rewinds have undone everything |
| `CausalChannels` | what the causal core promises of its channels: an abstract specification without timelines, anchors or log |
| `BlockProofs` | theorems about anchors under commits and speculations |
| `OwnershipProofs` | that a value has one owner when anchors are used once |
| `AbortProofs` | that aborted speculations restore what they started from, and that a value has one owner in programs that speculate |
| `ArenaProofs` | that arenas account for their memory, and what merges deliver |
| `ValueProofs` | what every operation and every merge does to the trees of fields in arenas; that valid values are valid all through |
| `EntanglementProofs` | that no value is spent twice |
| `EntropicArena` | the arena of a timeline as operators: entropic states, their weight, every operation with what it returns and what it leaves behind when it fails |
| `Reconciliation` | `resolve_entropic_conflict`: what a merge makes of two states |
| `EntangledTimelines` | timelines over such arenas: values, fields, entanglement, split and merge; uses the two above |
| `EntangledProperties`, `MCEntangled` | their properties and instances |
| `IctlSyntax` | the syntax tree of a program on one timeline |
| `CostModel` | the cost of statements, by the table of the machine and by the table of the analyser |
| `StaticAnalyser` | the analyser: one rule per kind of statement, on a record of its state |
| `TimedVm` | the machine as a keeper of time: clocks, budgets, slices, padding, loops, calls, simulation, speculation, promises, decay |
| `TimedPrograms` | the command line: a program is analysed and run, statement by statement; composes the two above |
| `TimedProperties`, `MCTimedPrograms` | what is promised about time and by the analyser, and the programs of the run |

### How `CausalVm` corresponds to the code

* `timeline` is `root_timeline` and `active_branches`. A binding is the number of
  the assignment that made its value, `Consumed`, or `Absent`: payloads are told
  apart by origin only, which is what ownership is about. `channels`, `pending`,
  `history`, `nextId`, `contexts` are `channels`, `pending_channels`,
  `causal_history`, `next_payload_id` and `speculation_stack`.
* The machine is one recursive function. Its recursion is made explicit:
  `blocks` holds the open speculate and commit blocks, and `control` says whether
  statements run, a rollback walks the log (`at` is the loop index of
  `causal_rollback`, `resume` what its caller does on `Ok`), or an error
  propagates.
* A statement that moves several pieces of state is one action, its early
  returns are disjuncts, and the order of the code matters where an error
  interrupts it: a send has consumed its value and written its event when the
  missing channel or target is noticed, and an un-send that fails leaves the
  events behind it undone.
* How full an arena is is not state here, but an insert that finds no room is a
  behaviour: a value received, moved or sent is gone from where it was, and its
  event is logged, when its new binding fails (`Bind`, the second alternative of
  `Send`), and a selective commit can stop half-way through its exports
  (`SpeculateEnd`). Each insert may fail at any time.
* `Fail` stands for every failure of a statement that has changed nothing yet: spent
  budgets, watchdogs, `collapse`, a consumed variable, a literal that does not fit.
  It matters only inside a block, where an error unwinds commits and aborts the
  innermost speculation; elsewhere the command line reports it and the program
  goes on with its next timeline block.
* A fallback block is the ordinary statements that follow the abort.
* `commits` and `stale` in an anchor, `commits` in a timeline, `before` in a
  block, `unsent` and `faulted` are history variables: no guard of the code's
  reads them (`stale` is read by the program class `OneShot`, below).
* The operators named `Bug...` are faulty variants of the definition after them;
  nothing uses them. They show, one property at a time, that a plausible error
  would be found.

Program classes. `Stmts` is the set of statement kinds a program uses.
`Scoped` programs write only statements of the block's own branch into a block
(no relativistic block or foreign `reset` inside). `OneShot` programs use a
branch's anchors for one rewind at most and set them anew. They are properties of
programs, not of the machine: where a property holds of such programs only, the
counterexample outside the class is a run of its own (section 4).

Left out of the core: entangled bindings, `RewindDisabledInChaos`, decay and clocks
(they can only make a statement fail here), the capacity of an arena as a number, structured
payloads, split and merge (the branches exist from the start), `reset` of a
branch that does not exist.

### How `EntangledTimelines` corresponds to the code

* A timeline is its arena, the arenas its anchors hold, and `parent`, a history
  field. `groups` is `entanglements`. A scalar is the number of the literal that
  made it and its place in the literal, so that a value can be followed through
  moves, copies and merges; `spent` counts how often each was used up.
* `EntropicArena` keeps the order of the code inside an operation. An unknown
  field leaves the parent out of the map with its weight still in `used`; an
  update that does not fit leaves `Consumed` behind; `consume_field` has decayed
  the parent by the time it finds the field is not valid. `Weight` has the
  numbers of `value.rs`; `KeyWeight` is a constant.
* Statements outside of blocks report an error and the program goes on, so each
  action includes what a failing statement has done before it failed.
* `FieldAccess` stands for `v.f` and for `v["f"]`; in a `match entropy` only the
  second can be valid (the first always takes the consumed arm).
* Hash maps are iterated in any order: `MergeInto` takes any order of insertion,
  and of several reversions any may be the first. `Combined` gives every contested
  name any rule.
* `Disciplined` programs follow `docs/spec/ictl_spec_syntax.md` (entangle before
  the split): a split starts a new timeline when everything of value is
  entangled, and a timeline merges into its parent after those split off it. The
  machine does not enforce it; it is the class of programs `SpentOnce` is about.

Left out: clocks and decay limits (a value may decay at any time; they are in
`TimedVm`), arrays, metadata, strings, `yield` and routine arguments (they consume without
propagating), peeking through two index accesses (`g["a"]["b"]` copies the value
and consumes nothing), channels (in `CausalVm`).

The code walks nested values recursively. Here a walk is a recursive function from
depths to what is found down there, so that it can be reasoned about: `Nodes` are the
nodes of a state, which `Weight` adds up, and `Resolve` settles the conflicts of two
states from the deepest fields up. `MaxDepth` bounds the nesting: `let` and field
updates, which alone make values deeper, are guarded by `NestsWithin`, and `TypeOK`
says that no state is nested deeper, so that no walk is cut off. `NoTimeline` stands for a timeline that
is not in `active_branches`.

### How `TimedVm` and `StaticAnalyser` correspond to the code

* The handlers of the machine call each other recursively, and so do the rules
  of the analyser. Each is an operator from the state before to the state after;
  the first error is kept in `err` and stops what follows, as `?` does, and
  nothing is undone by it. An operator for a handler has its name (`ExecuteIf`,
  `AnalyseIf`, `EvaluateCall`).
* `timelines` holds the main timeline and the children that calls and `split_map`
  insert; `clock`, `budget`, `slice`, `depth`, `broken`, `manifests` and `uses`
  are `local_clock`, `cpu_budget_ms`, `slice_ms`, `loop_depth`,
  `break_requested`, the length of `manifest_stack` and `resource_budgets`.
  `branch` in the analyser is its `BranchState`, with `cost` for
  `accumulated_cost` and `born` for `instantiated_at`.
* A value is its kind; a struct has the set of its fields that are still there,
  so that moving a field out shows. `vars` and `expires` are the bindings and the
  metadata that makes them decay.
* `TimedPrograms` is `main.rs`: analysis first, then one step for each statement
  of a block; the first error ends the block and the next block goes on with what
  the failure left behind. A program is run also when the analyser refuses it, as
  the tests of the machine do: that shows what a refusal is worth. A program that
  binds a secret Boolean is run a second time beside the first, with the other
  value (`twin`).
* Simplifications: one declared type `D`, one channel, arrays of integers,
  arithmetic as the only binary operation, `<` as the only assertion, `reconcile
  auto` as the only reconciliation. The cost of a clone is a constant.
  `Unlimited` is `u64::MAX`: a clock beyond it panics, as in a build with overflow
  checks. `KeepCommitted` asks for missing variables first, where the code
  iterates a hash set in any order. Speculations send and receive nothing
  (`CausalVm` has the rollback of messages). The chaos mode and the bytes of the
  arena are left out.
* What is past its limit decays at the beginning of the next statement (`AutoDecay`),
  each value after the handler of its type has run as a block of that statement;
  statements of a handler find nothing due (`decaying`). The code walks a hash
  map: `walk` is the order of the names, chosen at the start, and with two names
  that can be due either comes first.
* The handlers pass a result on with `Then` and a value with `Using`, which are the
  `?` of the code.

## 3. What TLC checks

The runs of the causal core use `Spec`, or `FairSpec` where they check liveness.
Deadlock is not checked: a bounded program has a last statement. Bounds:
`MaxValue` assignments, `MaxId` sends, `MaxHistory` log entries, `MaxDepth` open
blocks, `MaxCommits` commits per branch, and no rewind starts while a queue is
longer than `MaxQueue` (repeated rewinds may otherwise grow a queue for ever, see
`SecondRewind`). In the second component `MaxValue` bounds literals and
`MaxGroups` entangle statements; `MaxDepth` (`NestsWithin`) is the nesting of values, 2 in
`ArenaBudgets` and `Entanglement`, 1 in the others. `TimedPrograms` has no bound but its programs:
a loop turns `MaxIterations` = 8 times instead of 1000 before its watchdog bites.

| run | properties | instance | shows |
|---|---|---|---|
| `ChannelRewinds` | `TypeOK`, `UnsentNeverSurfaces`, `QueuedWasSent`, `RewindUndoesAll`, `ImplementsChannels` | 2 branches, 1 channel, 2 values, 2 messages, 3 events | any number of rewinds and reopened channels over buffered and direct channel sends and sends from branch to branch; the channels implement `CausalChannels` |
| `OneShotAnchors` | `OneOwner`, `RewindUndoesAll` | 3 branches, 1 channel, 1 value, 2 messages, 4 events | rewinds, and resets from any branch: single ownership when anchors are used once, and a completed one undid its branch's events |
| `Speculation` | `OneOwner`, `HorizonClosed`, `AnchorInLog`, `AbortRestores` | `Scoped`, full commits, depth 3, 1 value, 2 messages, 2 events | nested speculation and commits |
| `SendSpeculation` | `OneOwner` | `Scoped`, full commits, depth 1, 2 values, 2 events, local moves | direct sends, failing ones too, inside a speculation |
| `RollbackLiveness` | `RollbackEnds` | selective commits, rewinds and speculation | rollbacks and errors end |
| `ArenaBudgets` | `TypeOK`, `FootprintCounted`, `GrowthWithinCapacity` | 1 timeline, 2 names, 2 fields, values 2 deep, capacities 130 and 220 | the accounting of memory |
| `Entanglement` | `SpentOnce` | 3 timelines, 2 names, 1 field, values 2 deep, 1 literal, 1 group | entangled copies are spent once |
| `Merges` | `MergeDelivers`, `MergeKeepsConsumed` | 3 timelines, 2 names, every strategy, capacity 150 | merges under conflict, reversion and memory pressure |
| `TimedPrograms` | `TypeOK`, `NothingLeftOpen`, `WithinEstimate`, `ContractsKept`, `BudgetNeverGrows`, `PromisesKept`, `LimitsKept`, `SecretKeepsTime`, `AcceptedContractsHold`, `RefusedAssertionsFail`, `OnlyBlindSpotsReuse`, `SpansCoverMachine` | 28038 programs in 12 families | time, and the analyser against the machine |

The bounds are enough for the cases that matter: three events allow a send, its
receive and a rewind of either side with a further event between; two messages
allow reordering; depth three allows a commit in a speculation in a speculation.
Two values of one name can be sent directly in both directions, with a receive
between, and overwrite one another; `SendSpeculation` has two names, so that values
are moved on locally, too.
Two branches make every pair of a sender and a receiver; the third branch of
`OneShotAnchors` adds a competing receiver. Capacity 130 holds one struct of one
field or two scalars, and 220 a struct of two fields and a scalar, or a nested one,
so that every kind of insert and update both fits and fails. One literal in
`Entanglement` is a scalar of which every timeline gets a copy, bare or in a struct,
a topology or a nested struct, and which every statement on values moves and takes
out again, also into another name that is or is not entangled. Three timelines give siblings that
conflict in a merge, and a timeline split off one that was split off.

The families of `MCTimedPrograms` are all short sequences over pools of statements
that have to do with each other: moves (up to three of fifteen statements that
move, copy, bind or send a value, in every block), further moves, routines (all
parameter modes, with and without contract), nested calls, time (loops, ticks,
slices, isolates, assertions), assertions after every pair of timed statements,
what a failure leaves to the next block, speculations in both commit modes,
speculations on calls and maps, promises and decay, decay handlers (that take
time, consume, rebind, promise, break or fail), and secrets (an `if` on a
secret over all pairs of nineteen arms, followed by what could make the difference
show). Three statements allow a value to be moved, bound again and used; two
constructs one after the other or in each other allow what one leaves behind to
reach the other.

Properties, in words. `UnsentNeverSurfaces`: the id of an un-sent message is in no
queue and in no receive event. `QueuedWasSent`: a queued message has its send in
the log. `RewindUndoesAll`: when a rewind or reset completes, each event of its
branch since the anchor is reversed. `OneOwner`: over arenas and queues together
each value occurs at most once, as long as no rollback has failed. `AbortRestores`:
the step that ends an abort leaves timelines, channels and pending buffers as they
were when the block began. `HorizonClosed`: a stored anchor was set after the
branch's last commit. `AnchorInLog`: an anchor's index is within the log.
`FootprintCounted`: `used` covers the weight of what is bound.
`GrowthWithinCapacity`: a step that grows `used` ends within the capacity.
`SpentOnce`: no scalar is spent twice. `MergeDelivers`: a timeline ends only by a
merge whose target then binds every name it had bound. `MergeKeepsConsumed`: what it had consumed is
not readable in its parent then. `ImplementsChannels`: a channel changes only by
offering, deferring and publishing messages, by taking them in order, by giving
back to the front what was once taken, and by withdrawing what never was.

`NothingLeftOpen`: as long as nothing failed, no loop, break, manifest, speculation
or child timeline stays open, except child timelines a speculation gave up.
`WithinEstimate`: no statement whose parts are metered takes the machine longer
than the machine's own estimate, to which conditionals and speculations are
padded. `ContractsKept`: a `speculate`, a `select` and a call take the same time
whatever happens inside, which is what the documents promise in words; the amount
is the code's, and for the first two it is more than their cost equations give
(section 4). `BudgetNeverGrows`: no statement leaves more budget than it found. `PromisesKept`: a pending value is settled neither before it is ready
nor, as a value, after its deadline. `LimitsKept`: after a statement that succeeds
no value is valid that was past its limit when it began. `SecretKeepsTime`: two runs that differ in a
secret Boolean show the same clock after every statement, for programs whose arms
are metered and neither break nor set a slice.

`AcceptedContractsHold`: an accepted program does not overrun a contract or a
slice, unless it has time the analyser does not see (`HasUnseenTime` lists it).
`RefusedAssertionsFail`: a refused assertion would not have been passed: the cost
the analyser adds up is a lower bound. `OnlyBlindSpotsReuse`: an accepted program
finds a value gone only if it uses a construct of `BlindSpot`, which lists them.
`SpansCoverMachine`: the states the analyser records for the editor call consumed
or decayed what is consumed or decayed in the machine, with the same blind spots.
Metered statements, the exceptions and the blind spots are defined by the syntax
of the program alone; each exception stands for programs that break the property
without it.

Fairness. `FairSpec` adds weak fairness of `Rollback` and `Unwind`:
`causal_rollback` is a synchronous loop and `?` returns at once, nothing can
preempt them. No statement is assumed to be executed.

## 4. Where the code and its documents differ

Each is a run that TLC must find violated; PROJECT.json quotes the documents.

| run | what happens |
|---|---|
| `SecondRewind` | the log keeps undone events and the anchor stays usable: a second rewind puts a received message back a second time |
| `SelectiveCommitOwner` | a selective commit keeps a send but restores the variable sent |
| `DecayUnshared` | the decay of an entangled value does not reach its partners |

Two more differences from the documents come from the undoing of direct sends, and
one from how an event is logged. TLC finds each of them with two branches, two
values and two events; the properties are stated of what is left.

* A rewind or abort pulls a sent value back by name (`core.rs:629`). A target that has
  moved the value to another name and bound the first name again loses the new
  value, and the old one has two owners, where the comment at `core.rs:633` speaks of
  a paradox and `docs/rfc/ictl_RFC.md:72` of exactly one owner.
* It removes the name from the target, also what the target had bound to it before
  the send (`core.rs:630`), so that the state before the block is not "restored"
  (`docs/spec/ictl_spec_syntax.md:121`).
* A direct send is logged before its target is looked up (`handlers.rs:635`). A
  speculation that fails because the target does not exist is rolled back over
  that event, the rollback fails on the same missing branch (`handlers.rs:145`), and
  what the block had sent elsewhere before stays there and is back at its source,
  where `ictl_spec_control_flow.md:96` promises a rollback of all causal effects.

The models reach further states a reader of the code may not expect; no document
speaks of them, and the properties above are stated so that they do not depend
on them. A send is refused on a receive that its receiver has rewound (`core.rs:572`).
A speculation that received its own message cannot be rolled back
(`handlers.rs:145`). An aborted speculation truncates the events other branches
logged meanwhile (`handlers.rs:146`), which only programs that are not `Scoped`
can have. A selective commit brings back the anchors its commit dropped
(`handlers.rs:118`). A rewind inside
a speculation that is aborted later has its events undone twice. A merge that
runs out of memory leaves what had arrived in the target and in the source.
Repeated reads of unknown fields use up an arena until the next commit.

Of time, the models show these; the documents that promise more are named where
there are any, and the properties exclude them by name:

* A `speculate` takes 2 ms + `max` + fallback (`handlers.rs:157`, on a clock that the
  statement has advanced at `core.rs:62`); `docs/spec/ictl_spec_speculation.md:57`
  gives "1ms (overhead) + max_ms + fallback_wcet". A `select` takes 1 ms + `max` + its
  dearest arm (`handlers.rs:770`); `docs/spec/ictl_spec_temporal_routing.md:25` gives
  `1ms + max(case_wcet, timeout_wcet)` without the maximum,
  while `ictl_spec_control_flow.md:87` has `max + overhead`. `ContractsKept`
  has the amounts of the code.
* `for ... max` pads to the value of `max` on the clock, not to `max` after its
  start (`handlers.rs:1060`; `docs/spec/ictl_spec_iteration.md:28`); `loop` looks at
  its maximum between turns only and overshoots it; `break` needs a `loop` around
  it and a `for` is not one.
* A tick loop without a slice takes the budget as its slice: on a timeline with no
  budget set, the clock overflows. A tick is padded free of charge. An accepted
  tick loop has a `break` in its body and ends after one tick unless the break is
  skipped.
* The padding of `if` is charged to the budget, so that budgets differ between
  arms when clocks agree; the channel effects of both arms are dropped, while
  pending messages and routines of both arms stay. A `break` or `slice` in one arm
  of a secret `if` tells it.
* The machine's estimate of a `speculate` adds up its blocks while the statement
  takes its maximum; the body of `commit` counts for nothing; a call counts for
  nothing.
* `isolate` leaves its slice and budget in force (the analyser puts them back), and
  an inner isolate raises the capability budgets of an outer one.
* A nested call with the same contract as the call around it takes the name of its
  child timeline (`expression.rs:458`) and the outer call fails with
  `BranchNotFound`. A routine without a contract that calls another is given the
  machine's estimate, which ignores calls, and overruns it. `yield` does not end a
  routine (`docs/spec/ictl_spec_routines.md`).
* A failing call or `split_map` inside a speculation leaves its child timeline among
  the active ones after the fallback has run.
* After a runtime error the command line goes on with the next block and ends with
  `run ok`; a loop depth that the failure left raised makes a later `break` outside
  of every loop legal.
* A decay handler that fails leaves its value valid, and it runs again, and fails
  again, with each later statement of the timeline. What a handler does takes time
  that no estimate and no contract counts, so the properties about time except
  programs with handlers; what it binds in place of the value decays with it.
* A selective commit makes a decayed value valid, and fails if a committed name was
  consumed again and had not existed before.
* The analyser's cost is a lower bound of the clock, not a worst case: it is right
  to refuse assertions by it and not to accept them.

## 5. What is proved

`CausalProofs`, for every value of the constants that satisfies
`ConstantsAssumption`, and with inserts that find no room at any time:

* `Typing`: `Spec => []TypeOK`. Inductive invariant `TypeInv`: `TypeOK` and the
  cursor of a rollback lies in the log, without which the event it looks at need
  not exist. One lemma per action.
* `Traceability`, `OutflowLocking`, `Tracing`: for programs without `speculate`,
  `[]UnsentNeverSurfaces` and `[]QueuedWasSent`. `UnsentNeverSurfaces` alone is
  not inductive: an un-receive puts a message back, so one must know that the
  message un-sent was not received; and a message that two rewinds have put back
  twice has a second copy that an un-send would miss. The invariant `Traced` adds
  that an id has one send event, that whatever was received or queued was sent on
  that channel, and that a message nobody has received exists once (`SoleCopy`);
  a message with a receive in the log cannot be un-sent at all. The hypothesis is
  needed: an abort truncates the log, with it a receive event, and the
  duplicate of the message that earlier rewinds left in the queue survives its
  un-send.

* `ChannelsImplemented`, for programs without `speculate`: `ImplementsChannels`, the refinement of `CausalChannels` by
  `CausalVm`. `offered` and `waiting` are the messages of channels and pending
  buffers, `taken` the deliveries in the log, `withdrawn` the ids un-sent, `next`
  the next id. The initial states map to initial states, and every action to a
  step of a channel or a stutter: the sends to `Offer`, `Defer` or `Lose`, a tick
  to `Publish`, the steps of a rollback to `GiveBack` and the two kinds of
  `Withdraw`. That an un-sent message was never taken follows from the guard
  `ReceivedAfter` and from `Traced`: its id has one send, which lies before
  every receive of it, and the log is not truncated. With `speculate` the refinement is not claimed:
  an abort forgets deliveries.

* `RewindsComplete`, for programs without `speculate`: `Spec => RewindUndoesAll`. The property speaks of the step that
  ends a rewind; its invariant `UndoneSoFar` speaks of the walk: while it is under
  way, every event of the branch behind the cursor is undone, its received message
  queued again, its sent message gone, its moved binding free. What has been undone
  could be done again by a later step of the same walk: an un-send could take the
  message that an un-receive gave back, an un-receive bring back what was un-sent.
  `Traced` excludes both: an un-send is refused once anybody received the message,
  and what was un-sent has no receiver. Other branches cannot interfere because a
  rollback is not interrupted. With `speculate` the log is no longer a witness: an
  abort cuts off receives.

`BlockProofs`:

* `HorizonKept`: `Spec => []HorizonClosed` if `CommitMode = "Full"` or nothing
  speculates. The invariant `AnchorsFresh` extends the property to the states between
  statements and to the timelines saved in open blocks, which an abort makes
  current. Selective commits are excluded because the saved timeline returns with
  the anchors its commit dropped.
* `AnchorsValid`: `Spec => []AnchorInLog` for programs that are `Scoped` or do not
  speculate. An abort truncates the log, so an anchor must lie before the start of
  every open block except where the block's own abort drops it. `AnchorsInside` says
  this of every timeline of another branch, of the saved timelines, and, while an
  abort walks the log, of all timelines and of the starts of the blocks around it.
  Of two blocks the inner starts later. Without `Scoped` another branch may
  set an anchor inside the block and keep it past the abort.

`AbortProofs`, for `Restorable` programs: `Scoped`, and without direct sends, ticks,
rewinds, resets and reopened channels, each of which the model has a counterexample
for or which no event of the log records. Slices, nested speculations and commits, in
both modes, are allowed.

* `AbortsRestore`: `Spec => AbortRestores`. For the timelines the invariant is that
  only the branch of the open blocks has changed since each of them began
  (`TimelinesKept`), and its own timeline is saved. For the queues there is no snapshot in the machine: they must
  be recovered by walking the log. The invariant `QueuesTraced` states that there
  are two functions from positions of the log to queues (`Past`) that agree with the
  present at the cursor, with what each open block started from at its start, and
  that lead from one to the next by the event logged there: a receive popped its
  message, a send pushed one with a new id or lost it. A statement extends the past
  by one position, a step of the walk shortens it, since a `push_front` undoes a pop
  and the first message of an id is the one pushed last. This past can break, when a
  rollback fails after undoing some events and leaves them in the log; then the event
  it failed on was received or is in no queue, lies in every block that is still
  open, and stays so until all of them are left (`Doomed`): the rollback of each outer
  block fails on it, or on an event after it, so no abort completes. `BlockEvents` (events since the start of a
  block are of its branch, and none is a direct send) and `MessagesOld` (the ids in
  queues have been handed out) support both.
* `SingleOwnerSpeculating`: `Spec => []OneOwner` for such programs with full commits.
  The invariant `AllSettled` says that a value is at one place, and was created by an
  assignment, in the configuration of now, in the one every open block started from,
  and in the one a running abort is to come back to. While an abort walks, nothing is
  said of now: its branch already has the bindings of the start, and messages it
  received are still on their way back to the queues. That it ends exactly in the
  configuration before, which is settled, is `AbortsRestore` (the lemma `BackBefore`).
  A value created in a block that aborts is not created again, since `nextValue` never
  goes back; a full commit leaves bindings where they are. `SelectiveCommitOwner`
  shows that selective commits break ownership, and TLC finds a second owner as soon
  as such a program may also rewind or reset, also if it uses anchors once, or is not
  `Scoped`. Direct sends, ticks and reopened channels are excluded because
  `AbortsRestore` excludes them; no counterexample for ownership is known for them.

`OwnershipProofs`, for programs that return to an anchor once (`OneShot`) and have
neither direct sends nor `speculate`:

* `SingleOwner`: `Spec => []OneOwner`. That every value is in one place now says
  nothing about the places a rollback will bring it back to. The invariant `Owned`
  therefore keeps the claims of a branch: it has a `Claim` on a value at position
  `k` of the log if going back to `k` would give it the value, because an anchor at
  `k` holds it, or because the receive logged at `k` would be undone and the message
  be received once more. A claim stands until somebody has received what the branch
  sent after `k` (`Spoilt`): its rollback then fails. `ClaimsSafe` says that the value of
  a claim that stands is held by nobody else, claimed by nobody else, received by
  nobody after `k`, and in a queue only as a message the branch itself sent after
  `k`, which the rollback takes back before it restores the arena. While a branch is
  rolled back its bindings do not count, since they are about to be replaced, and
  `WalkUnsent` says that all it sent above the cursor is withdrawn. With this a
  completed rewind gives its branch values that are nowhere else. The rest is one
  lemma per action: a send keeps the value under the
  claims of its sender, a receive spoils those from before the send and claims the
  value for the receiver, an assignment creates a value that nobody can claim
  (`Known`).
* The hypotheses are needed. `SecondRewind` shows what a second return to an anchor
  does. With direct sends TLC finds: the target of a `send` sets an anchor, the
  sender rewinds and has its value back, the target rewinds and has it too, since a
  rollback pulls a value out of a binding and not out of anchors. For programs that
  speculate see `SingleOwnerSpeculating` above.

`ArenaProofs`, under `ArenaAssumption` and `EntangledAssumption` (finitely many names
and fields, natural capacities), for every program of `EntangledTimelines`, all
branches, strategies, key weights and depths of nesting:

* `FootprintsCounted`: `Spec => []FootprintCounted`. The invariant `TimelinesSound`
  says that the arena of every active timeline, and every arena that an anchor has
  kept, is `Sound`: `used` is at least the footprint of the bindings. It is needed
  for snapshots since a rewind, or a merge that triggers a reversion, makes one
  current. An operation of the arena subtracts what a binding weighed and adds what
  it will weigh; `FootprintRest` says that the footprint changes by exactly that, and
  from the invariant it follows that `saturating_sub` never saturates. Where the code
  leaves a parent out of the map, or puts a consumed marker back without paying, the
  footprint shrinks and `used` does not.
* `GrowthFits`: `Spec => GrowthWithinCapacity`. Each operation either takes no memory
  (`Harmless`: consuming, decaying, propagation over any number of partners,
  compaction) or ends within the capacity (`Fits`: insert, update in place, the
  insertions of a merge). That taking a field takes no memory is not obvious, as the
  parent changes its kind: `LostFieldWeight` compares the trees before and after node
  by node, and a hole weighs no more than what was there.
* `MergesDeliver` and `MergesKeepConsumed`: `Spec => MergeDelivers` and `Spec =>
  MergeKeepsConsumed` for `Disciplined` programs, as in the run. Only a merge ends a
  timeline (`NextKeeps`). What two timelines bring is combined without losing a name or a
  consumed marker, whatever the strategy (`CombinedGathers`), since the code asks for
  consumed sides first; and every order in which the hash map is walked visits every
  name (`OrderCovers`), so that if no insertion fails each binding is in the target
  (`InsertAllProperties`), also where it replaces one there. Without the hypothesis both fail:
  a timeline that merges into itself disappears with what it had, and a timeline may merge into
  another than its parent.
* The footprint of an arena and the propagation through a group are folds over sets,
  and weights are sums over trees. Facts about them are proved by induction over the
  subsets of a finite set (`SubsetInduction`) and over depths (`NaturalInduction`),
  stated for sets: the induction theorems of the library take an operator.

`ValueProofs` and `EntanglementProofs`, under the same assumptions, follow the scalars.
A value is a tree; `Leaf(state, path, x)` says that the scalar `x` is at the end of
`path` in it. The lemmas about nodes (`NodesUnfold`, `NestsUnfold`) turn this into
statements about one level: the leaves of a parent are those of its fields, one step
further down (`ParentTree`, `FieldTree`). For every operation of the arena a lemma
says which trees it leaves and where their leaves were before: what consumes only takes
(`Takes`, `Dwindles`), what binds adds the leaves of the new value (`Receives`,
`UpdatedAt`), and a resolution, down to the deepest field, returns leaves of the two
sides and nothing else (`ResolveSettles`, by induction from the deepest conflicts
up, as the code returns from them). From these lemmas follow two theorems:

* `TypesStayOK`: `Spec => []TypeOK` for programs with `PlainMerges`, in which no merge
  combines fields. `TypesKept` is the invariant: `TypeOK` together with `Sound`
  arenas, without which an operation could forget a binding it is asked to change.
  The hard part of `TypeOK` is that a valid parent has valid fields only: a taken
  field, a failed `consume_field`, a decay and an update through a decayed
  parent must leave the parent decayed, or decayed as before. The hypothesis is
  needed: a union of two valid structs whose fields disagree under `auto` is a valid
  struct with a consumed field.
* `NothingSpentTwice`: `[]SpentOnce` for `Disciplined` programs without `anchor` whose
  merges fit (`MergesFit`), for any number of timelines, names, groups and fields
  and every set of strategies. `SpentOnce` only speaks of what was spent; the invariant `ValuesTidy`
  says where a scalar may be as long as it is not:
  - it is at one place, the same name and path, on every timeline that holds it
    (`OnePlace`), so that what is taken from that place is taken from all;
  - two timelines that hold it are `Linked`: there are a group and a set of
    timelines, all that hold the scalar among them, in which every timeline has the
    name in that group and its parent in the set, up to one timeline `r` (`Kin`). So
    whoever takes the scalar tells all the others, since propagation reaches a whole group;
  - what was spent once is nowhere (`Gone`), and literals are new (`Fresh`).

  That a group contains all holders is not enough for merges: a merge could bring
  the scalar to a parent outside of the group. But a timeline that merges while
  another holder stays is not `r`: the one that stays descends from `r`, and by
  `Ancestry` (an active timeline descends from active timelines only, with an active
  child on the way) `r` would have a child that has not merged. So its parent, the
  target of the merge, is in the set already (`HandOverLinked`). A split extends the
  set by the copy, which joins the groups of the original (`SplitTidy`), and a statement
  that moves a scalar takes it away everywhere and has it in one place, which needs
  no group (`MoveTidy`).

  The hypotheses are needed. An anchor brings back what was spent since. A merge that
  runs out of memory leaves what had arrived in the target and in its sources, which
  no group ties together: with a capacity for two of three scalars TLC finds one of
  them spent twice. `AreStrategies` says that the strategies, with those they give
  to fields, are of the kinds there are.

Facts about ids are lemmas of `CausalProofs`; what `push`, `pop`, `truncate` and
`remove` do to a sequence is proved in `SequenceLemmas`.

Only model-checked: liveness (`RollbackEnds`), which is out of the prover's reach. `TimedVm` and `StaticAnalyser` are recursive over
the syntax of programs (RECURSIVE operators, and what they compute is only accessible
by induction over programs): `TimedProperties` are checked and cannot be proved with
the provers at hand.

## 6. Not modelled, and what is left

* Parser and IR: a translation of text into `IctlSyntax` without state.
* The language server: its handlers run without interruption to their only await,
  the publication of diagnostics, and then write the cache. In which order they go
  on, and hence whether an older analysis can stay in the cache, is decided by the
  server library and its channels, which are not in the repository; nothing in the
  repository says what an editor may rely on. Editor support renders what is in
  the cache.
* Programs of several timelines in the analyser (relativistic blocks, split, merge,
  anchors, entanglement, scoped types); they are in the two models of the machine.
* The compositions of entanglement with channels and with routine arguments, and of
  merges with channels.
* The chaos mode, capability handlers that fail, the bytes of arrays.

Left to do: entangled bindings in `CausalVm`; ownership in programs that speculate and
send directly or under ticks.
