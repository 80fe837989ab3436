------------------------------ MODULE CausalVm ------------------------------
(***************************************************************************)
(* The causal core of the ICTL virtual machine: timelines that move values *)
(* between each other over channels, anchors they rewind to, speculative   *)
(* blocks that abort, and the global log of causal events that a rollback  *)
(* walks backwards.                                                        *)
(*                                                                         *)
(* The machine is single-threaded but a program interleaves the statements *)
(* of its timelines freely (@branch blocks), so the next statement is any  *)
(* statement of any branch.  Rust recursion is made explicit: "blocks" is  *)
(* the stack of open speculate and commit blocks, and "control" says       *)
(* whether the machine runs statements, walks the log in causal_rollback   *)
(* (one event per step), or propagates an error to the enclosing block.    *)
(*                                                                         *)
(* A value is the number of the assignment that created it; a binding is a *)
(* value (Valid), Consumed, or Absent.  Clocks, budgets and arena capacity *)
(* are not state here: an insert into an arena may find no room, and what  *)
(* else makes a statement fail for their sake is the action Fail.          *)
(***************************************************************************)
EXTENDS Integers, SequencesExt

CONSTANTS
    Branch,      \* the timelines of the program: main and those it split off
    NoBranch,    \* the name of a timeline that does not exist
    Var,         \* variable names
    AnchorName,  \* anchor names
    Chan,        \* channel names
    Absent,      \* no binding for a name in the arena
    Consumed,    \* EntropicState::Consumed
    NoAnchor,    \* no anchor stored under a name
    CommitMode,  \* speculation_mode of the program: "Selective" or "Full"
    Stmts,       \* the kinds of statement the program uses
    Scoped,      \* TRUE: a block body holds statements of its own branch only
    OneShot,     \* TRUE: the program drops a branch's anchors once it rewound
    MaxValue,    \* bound on assignments that create a value
    MaxId,       \* bound on next_payload_id
    MaxHistory,  \* bound on the length of causal_history
    MaxDepth,    \* bound on nested blocks
    MaxCommits,  \* bound on the commits of one branch
    MaxQueue     \* no rewind is started once a queue is longer than this

StmtKinds == {"assign", "move", "send", "open", "reopen", "chan_send", "recv",
              "slice", "tick", "anchor", "rewind", "reset", "commit",
              "speculate"}

ASSUME ConstantsAssumption ==
    /\ NoBranch \notin Branch
    /\ Absent # Consumed
    /\ Absent \notin Nat
    /\ Consumed \notin Nat
    /\ CommitMode \in {"Selective", "Full"}
    /\ Stmts \subseteq StmtKinds
    /\ Scoped \in BOOLEAN
    /\ OneShot \in BOOLEAN
    /\ {MaxValue, MaxId, MaxHistory, MaxDepth, MaxCommits,
        MaxQueue} \subseteq Nat

VARIABLES
    timeline,   \* root_timeline and active_branches
    opened,     \* the channels that exist
    channels,   \* the queue each receiver pops from
    pending,    \* the queue of sends not yet published by a tick
    history,    \* causal_history
    nextId,     \* next_payload_id
    nextValue,  \* the value the next assignment creates
    blocks,     \* open speculate and commit blocks, outermost first
    contexts,   \* speculation_stack
    control,    \* running, undoing or raising
    unsent,     \* history variable: ids removed from a queue by a rollback
    faulted     \* history variable: a rollback has failed

queueVars == <<opened, channels, pending>>
blockVars == <<blocks, contexts>>
ghostVars == <<unsent, faulted>>
vars == <<timeline, queueVars, history, nextId, nextValue, blockVars, control,
          ghostVars>>

-----------------------------------------------------------------------------
(* Data *)

Value == Nat \ {0}
Binding == Value \union {Absent, Consumed}
Arena == [Var -> Binding]

Message == [id : Nat, sender : Branch, payload : Value]

\* "commits" and "stale" are history fields: the commits the branch had made
\* when the anchor was taken, and whether the branch has rewound since.
AnchorPoint == [arena : Arena, index : Nat, commits : Nat, stale : BOOLEAN]

\* "horizon" is commit_horizon_passed, "sliced" is slice_ms.is_some();
\* "commits" is a history field.
Timeline == [arena   : Arena,
             anchors : [AnchorName -> AnchorPoint \union {NoAnchor}],
             horizon : BOOLEAN,
             sliced  : BOOLEAN,
             commits : Nat]

SendEvent == [kind : {"send"}, branch : Branch, chan : Chan, id : Nat]
RecvEvent == [kind : {"recv"}, branch : Branch, chan : Chan, message : Message]
MoveEvent == [kind : {"move"}, branch : Branch, var : Var,
              target : Branch \union {NoBranch}]
CausalEvent == SendEvent \union RecvEvent \union MoveEvent

Context == [vars : SUBSET Var, inCommit : BOOLEAN, executed : BOOLEAN]

\* "before" is a history field: the configuration the block started from.
Configuration == [timeline : [Branch -> Timeline],
                  channels : [Chan -> Seq(Message)],
                  pending  : [Chan -> Seq(Message)]]

SpeculateBlock == [kind : {"speculate"}, branch : Branch, saved : Timeline,
                   start : Nat, before : Configuration]
CommitBlock == [kind : {"commit"}, branch : Branch]

\* What the caller of causal_rollback does once it returns Ok.
Resume == [kind : {"rewind", "reset"}, anchor : AnchorPoint]
            \union [kind : {"abort"}, before : Configuration]

Running == [mode |-> "run"]
Raising(e) == [mode |-> "raise", error |-> e]
\* Fault: the rollback stops one event short of its start.
BugUndoing(b, first, r) ==
    [mode |-> "undo", branch |-> b, at |-> Len(history), start |-> first + 1,
     resume |-> r]

Undoing(b, first, r) ==
    [mode |-> "undo", branch |-> b, at |-> Len(history), start |-> first,
     resume |-> r]

Errors == {"Paradox", "BranchNotFound", "AnchorNotFound",
           "CommitHorizonViolation", "ChannelFault", "MemoryFault", "Other"}

Control == {Running}
             \union [mode : {"raise"}, error : Errors]
             \union [mode : {"undo"}, branch : Branch, at : Nat, start : Nat,
                     resume : Resume]

\* Fault: a consumed binding can be taken again.
BugIsValid(binding) == binding # Absent

IsValid(binding) == binding \notin {Absent, Consumed}

InitTimeline == [arena   |-> [v \in Var |-> Absent],
                 anchors |-> [a \in AnchorName |-> NoAnchor],
                 horizon |-> FALSE,
                 sliced  |-> FALSE,
                 commits |-> 0]

Init ==
    /\ timeline = [b \in Branch |-> InitTimeline]
    /\ opened = {}
    /\ channels = [c \in Chan |-> <<>>]
    /\ pending = [c \in Chan |-> <<>>]
    /\ history = <<>>
    /\ nextId = 0
    /\ nextValue = 1
    /\ blocks = <<>>
    /\ contexts = <<>>
    /\ control = Running
    /\ unsent = {}
    /\ faulted = FALSE

\* Branch b executes a statement of kind k.
Executes(b, k) ==
    /\ control = Running
    /\ k \in Stmts
    /\ Scoped /\ blocks # <<>> => Last(blocks).branch = b

-----------------------------------------------------------------------------
(* Statements on values *)

\* An assignment inside the commit block of the innermost speculation is
\* exported by a selective commit.
NoteCommitVar(v) ==
    contexts' = IF contexts # <<>> /\ Last(contexts).inCommit
                THEN [contexts EXCEPT ![Len(contexts)].vars = @ \union {v}]
                ELSE contexts

\* let v = <literal>
Assign(b, v) ==
    /\ Executes(b, "assign")
    /\ nextValue <= MaxValue
    /\ timeline' = [timeline EXCEPT ![b].arena[v] = nextValue]
    /\ nextValue' = nextValue + 1
    /\ NoteCommitVar(v)
    /\ UNCHANGED <<queueVars, history, nextId, blocks, control, ghostVars>>

\* Once the value is taken from where it was, b's arena binds v to it or has
\* no room for it; in either case it is gone from there.
Bind(b, v, value, taken) ==
    \/ /\ timeline' = [taken EXCEPT ![b].arena[v] = value]
       /\ NoteCommitVar(v)
       /\ UNCHANGED control
    \/ /\ timeline' = taken
       /\ control' = Raising("MemoryFault")
       /\ UNCHANGED contexts

\* let v = w: the identifier w is consumed.
MoveLocal(b, w, v) ==
    /\ Executes(b, "move")
    /\ v # w
    /\ IsValid(timeline[b].arena[w])
    /\ Bind(b, v, timeline[b].arena[w],
            [timeline EXCEPT ![b].arena[w] = Consumed])
    /\ UNCHANGED <<queueVars, history, nextId, nextValue, blocks, ghostVars>>

\* send v to t: the value leaves b and overwrites the target's binding.  The
\* event is logged before the target is looked up and its arena has room.
Send(b, v, t) ==
    /\ Executes(b, "send")
    /\ IsValid(timeline[b].arena[v])
    /\ nextId < MaxId /\ Len(history) < MaxHistory
    /\ nextId' = nextId + 1
    /\ history' = Append(history,
                    [kind |-> "move", branch |-> b, var |-> v, target |-> t])
    /\ LET payload == timeline[b].arena[v]
           taken   == [timeline EXCEPT ![b].arena[v] = Consumed]
       IN  \/ /\ t \in Branch
              /\ timeline' = [taken EXCEPT ![t].arena[v] = payload]
              /\ control' = Running
           \/ /\ timeline' = taken
              /\ control' = Raising(IF t \in Branch THEN "MemoryFault"
                                    ELSE "BranchNotFound")
    /\ UNCHANGED <<queueVars, nextValue, blockVars, ghostVars>>

-----------------------------------------------------------------------------
(* Channels *)

\* open_chan c: replaces the queues of a channel that is already open.
ChannelOpen(b, c) ==
    /\ Executes(b, "open")
    /\ c \in opened => "reopen" \in Stmts
    /\ opened' = opened \union {c}
    /\ channels' = [channels EXCEPT ![c] = <<>>]
    /\ pending' = [pending EXCEPT ![c] = <<>>]
    /\ UNCHANGED <<timeline, history, nextId, nextValue, blockVars, control,
                   ghostVars>>

\* chan_send c(v): the value is consumed and the event logged before the
\* channel is looked up; under a slice the message waits for the next tick.
ChannelSend(b, v, c) ==
    /\ Executes(b, "chan_send")
    /\ IsValid(timeline[b].arena[v])
    /\ nextId < MaxId /\ Len(history) < MaxHistory
    /\ nextId' = nextId + 1
    /\ timeline' = [timeline EXCEPT ![b].arena[v] = Consumed]
    /\ history' = Append(history,
                    [kind |-> "send", branch |-> b, chan |-> c, id |-> nextId])
    /\ LET message == [id |-> nextId, sender |-> b,
                       payload |-> timeline[b].arena[v]]
       IN  \/ /\ c \notin opened
              /\ control' = Raising("ChannelFault")
              /\ UNCHANGED <<channels, pending>>
           \/ /\ c \in opened /\ timeline[b].sliced
              /\ pending' = [pending EXCEPT ![c] = Append(@, message)]
              /\ UNCHANGED <<channels, control>>
           \/ /\ c \in opened /\ ~timeline[b].sliced
              /\ channels' = [channels EXCEPT ![c] = Append(@, message)]
              /\ UNCHANGED <<pending, control>>
    /\ UNCHANGED <<opened, nextValue, blockVars, ghostVars>>

\* let v = chan_recv(c): the message is taken and the event logged before the
\* arena has room for the payload.
ChannelReceive(b, v, c) ==
    /\ Executes(b, "recv")
    /\ channels[c] # <<>>
    /\ Len(history) < MaxHistory
    /\ channels' = [channels EXCEPT ![c] = Tail(@)]
    /\ history' = Append(history,
                    [kind |-> "recv", branch |-> b, chan |-> c,
                     message |-> Head(channels[c])])
    /\ Bind(b, v, Head(channels[c]).payload, timeline)
    /\ UNCHANGED <<opened, pending, nextId, nextValue, blocks, ghostVars>>

\* slice n ms, or an isolate block with a cpu budget: from now on the sends of
\* b are buffered.
Slice(b) ==
    /\ Executes(b, "slice")
    /\ timeline' = [timeline EXCEPT ![b].sliced = TRUE]
    /\ UNCHANGED <<queueVars, history, nextId, nextValue, blockVars, control,
                   ghostVars>>

\* The end of an iteration of b's loop tick publishes every pending message.
Tick(b) ==
    /\ Executes(b, "tick")
    /\ channels' = [c \in Chan |-> channels[c] \o pending[c]]
    /\ pending' = [c \in Chan |-> <<>>]
    /\ UNCHANGED <<timeline, opened, history, nextId, nextValue, blockVars,
                   control, ghostVars>>

-----------------------------------------------------------------------------
(* Anchors, rewind and reset *)

SetAnchor(b, a) ==
    /\ Executes(b, "anchor")
    /\ timeline' = [timeline EXCEPT ![b].anchors[a] =
                      [arena   |-> timeline[b].arena,
                       index   |-> Len(history),
                       commits |-> timeline[b].commits,
                       stale   |-> FALSE]]
    /\ UNCHANGED <<queueVars, history, nextId, nextValue, blockVars, control,
                   ghostVars>>

\* An anchor that is stored and that a one-shot program may still return to.
Usable(point) ==
    /\ point # NoAnchor
    /\ OneShot => ~point.stale
    /\ \A c \in Chan : Len(channels[c]) <= MaxQueue

\* rewind_to(a)
Rewind(b, a) ==
    /\ Executes(b, "rewind")
    /\ LET point == timeline[b].anchors[a]
       IN  \/ /\ point = NoAnchor
              /\ control' = Raising(IF timeline[b].horizon
                                    THEN "CommitHorizonViolation"
                                    ELSE "AnchorNotFound")
           \/ /\ Usable(point)
              /\ control' = Undoing(b, point.index,
                                    [kind |-> "rewind", anchor |-> point])
    /\ UNCHANGED <<timeline, queueVars, history, nextId, nextValue, blockVars,
                   ghostVars>>

\* reset t to a, executed by b: reaches into another timeline.
AcausalReset(b, t, a) ==
    /\ Executes(b, "reset")
    /\ Scoped /\ blocks # <<>> => t = b
    /\ LET point == timeline[t].anchors[a]
       IN  \/ /\ point = NoAnchor
              /\ control' = Raising("AnchorNotFound")
           \/ /\ Usable(point)
              /\ control' = Undoing(t, point.index,
                                    [kind |-> "reset", anchor |-> point])
    /\ UNCHANGED <<timeline, queueVars, history, nextId, nextValue, blockVars,
                   ghostVars>>

-----------------------------------------------------------------------------
(* causal_rollback: the log is walked from its end down to control.start    *)
(* and the events of control.branch are undone one by one.  The log itself  *)
(* keeps the undone events.                                                 *)

Undo == control.mode = "undo" /\ control.at > control.start
Event == history[control.at]
\* Fault: the walk does not advance.
BugNextEvent == control' = control

NextEvent == control' = [control EXCEPT !.at = @ - 1]

RollbackFails(e) ==
    /\ control' = Raising(e)
    /\ faulted' = TRUE
    /\ UNCHANGED <<timeline, channels, pending, unsent>>

UndoOther ==
    /\ Undo
    /\ Event.branch # control.branch
    /\ NextEvent
    /\ UNCHANGED <<timeline, queueVars, history, nextId, nextValue, blockVars,
                   ghostVars>>

\* Fault: the walk does not look for receivers.
BugReceivedAfter(i, c, id) == FALSE

\* Somebody received message id of channel c after position i of the log.
ReceivedAfter(i, c, id) ==
    \E j \in i + 1 .. Len(history) :
        /\ history[j].kind = "recv"
        /\ history[j].chan = c
        /\ history[j].message.id = id

\* The first position of message id in a queue.
FirstAt(queue, id, p) ==
    /\ p \in DOMAIN queue
    /\ queue[p].id = id
    /\ \A q \in 1 .. p - 1 : queue[q].id # id

InQueue(queue, id) == \E p \in DOMAIN queue : queue[p].id = id

\* Un-send: take the message back unless it was received.
UndoSend ==
    /\ Undo
    /\ Event.branch = control.branch
    /\ Event.kind = "send"
    /\ LET c  == Event.chan
           id == Event.id
       IN  \/ /\ ReceivedAfter(control.at, c, id)
              /\ RollbackFails("Paradox")
           \/ /\ ~ReceivedAfter(control.at, c, id)
              /\ \E p \in DOMAIN channels[c] :
                   /\ FirstAt(channels[c], id, p)
                   /\ channels' = [channels EXCEPT ![c] = RemoveAt(@, p)]
              /\ unsent' = unsent \union {id}
              /\ NextEvent
              /\ UNCHANGED <<timeline, pending, faulted>>
           \/ /\ ~ReceivedAfter(control.at, c, id)
              /\ ~InQueue(channels[c], id)
              /\ \E p \in DOMAIN pending[c] :
                   /\ FirstAt(pending[c], id, p)
                   /\ pending' = [pending EXCEPT ![c] = RemoveAt(@, p)]
              /\ unsent' = unsent \union {id}
              /\ NextEvent
              /\ UNCHANGED <<timeline, channels, faulted>>
           \/ /\ ~ReceivedAfter(control.at, c, id)
              /\ ~InQueue(channels[c], id)
              /\ ~InQueue(pending[c], id)
              /\ RollbackFails("Paradox")
    /\ UNCHANGED <<opened, history, nextId, nextValue, blockVars>>

\* Fault: the message goes to the end.
BugUndoRecv ==
    /\ Undo
    /\ Event.branch = control.branch
    /\ Event.kind = "recv"
    /\ channels' = [channels EXCEPT ![Event.chan] = Append(@, Event.message)]
    /\ NextEvent
    /\ UNCHANGED <<timeline, opened, pending, history, nextId, nextValue,
                   blockVars, ghostVars>>

\* Un-receive: the message goes back to the front.  (A logged receive names
\* a channel that exists, and channels are never closed.)
UndoRecv ==
    /\ Undo
    /\ Event.branch = control.branch
    /\ Event.kind = "recv"
    /\ channels' = [channels EXCEPT ![Event.chan] = <<Event.message>> \o @]
    /\ NextEvent
    /\ UNCHANGED <<timeline, opened, pending, history, nextId, nextValue,
                   blockVars, ghostVars>>

\* Fault: the target keeps the value that went back to its source.
BugUndoMove ==
    /\ Undo
    /\ Event.branch = control.branch
    /\ Event.kind = "move"
    /\ NextEvent
    /\ UNCHANGED <<timeline, queueVars, history, nextId, nextValue, blockVars,
                   ghostVars>>

\* Pull a moved value back if the target's binding of that name is Valid,
\* whatever value it holds by now.
UndoMove ==
    /\ Undo
    /\ Event.branch = control.branch
    /\ Event.kind = "move"
    /\ LET v == Event.var
           t == Event.target
       IN  \/ /\ t \notin Branch
              /\ RollbackFails("BranchNotFound")
           \/ /\ t \in Branch /\ IsValid(timeline[t].arena[v])
              /\ timeline' = [timeline EXCEPT ![t].arena[v] = Absent]
              /\ NextEvent
              /\ UNCHANGED <<channels, pending, ghostVars>>
           \/ /\ t \in Branch /\ ~IsValid(timeline[t].arena[v])
              /\ RollbackFails("Paradox")
    /\ UNCHANGED <<opened, history, nextId, nextValue, blockVars>>

Undone(kind) ==
    /\ control.mode = "undo"
    /\ control.at <= control.start
    /\ control.resume.kind = kind
    /\ control' = Running

\* Fault: the arena is not restored.
BugRestored(b, point) == timeline[b]

\* The branch returns to its anchor: arena and budgets, not its anchors.
Restored(b, point) ==
    [timeline[b] EXCEPT
        !.arena   = point.arena,
        !.anchors = [a \in AnchorName |->
                       IF @[a] = NoAnchor THEN NoAnchor
                       ELSE [@[a] EXCEPT !.stale = OneShot]]]

\* Fault: the whole log is cut back, the events of other branches included.
BugFinishRewind ==
    /\ Undone("rewind")
    /\ timeline' = [timeline EXCEPT ![control.branch] =
                      Restored(control.branch, control.resume.anchor)]
    /\ history' = SubSeq(history, 1, Min({control.start, Len(history)}))
    /\ UNCHANGED <<queueVars, nextId, nextValue, blockVars, ghostVars>>

FinishRewind ==
    /\ Undone("rewind")
    /\ timeline' = [timeline EXCEPT ![control.branch] =
                      Restored(control.branch, control.resume.anchor)]
    /\ UNCHANGED <<queueVars, history, nextId, nextValue, blockVars,
                   ghostVars>>

FinishReset ==
    /\ Undone("reset")
    /\ timeline' = [timeline EXCEPT ![control.branch] =
                      [Restored(control.branch, control.resume.anchor)
                         EXCEPT !.horizon = FALSE]]
    /\ UNCHANGED <<queueVars, history, nextId, nextValue, blockVars,
                   ghostVars>>

\* Fault: the undone events stay in the log.
BugFinishAbort ==
    /\ Undone("abort")
    /\ UNCHANGED <<timeline, queueVars, history, nextId, nextValue, blockVars,
                   ghostVars>>

\* An aborted speculation also cuts the log back to where it started.
FinishAbort ==
    /\ Undone("abort")
    /\ history' = SubSeq(history, 1, Min({control.start, Len(history)}))
    /\ UNCHANGED <<timeline, queueVars, nextId, nextValue, blockVars,
                   ghostVars>>

-----------------------------------------------------------------------------
(* Commit and speculate blocks *)

TopBlock(kind) ==
    /\ control = Running
    /\ blocks # <<>>
    /\ Last(blocks).kind = kind

Top == Last(blocks)

\* commit { : the innermost speculation, whoever's it is, counts as committed.
CommitBegin(b) ==
    /\ Executes(b, "commit")
    /\ Len(blocks) < MaxDepth /\ timeline[b].commits < MaxCommits
    /\ blocks' = Append(blocks, [kind |-> "commit", branch |-> b])
    /\ contexts' = IF contexts = <<>> THEN contexts
                   ELSE [contexts EXCEPT ![Len(contexts)].executed = TRUE,
                                         ![Len(contexts)].inCommit = TRUE]
    /\ UNCHANGED <<timeline, queueVars, history, nextId, nextValue, control,
                   ghostVars>>

\* Fault: the anchors survive the commit.
BugCommitEnd ==
    /\ TopBlock("commit")
    /\ blocks' = Front(blocks)
    /\ contexts' = IF contexts = <<>> THEN contexts
                   ELSE [contexts EXCEPT ![Len(contexts)].inCommit = FALSE]
    /\ timeline' = [timeline EXCEPT ![Top.branch].horizon = TRUE,
                                    ![Top.branch].commits = @ + 1]
    /\ UNCHANGED <<queueVars, history, nextId, nextValue, control, ghostVars>>

\* } of commit: the horizon is passed, the branch's anchors are dropped and its
\* consumed bindings compacted away.
CommitEnd ==
    /\ TopBlock("commit")
    /\ blocks' = Front(blocks)
    /\ contexts' = IF contexts = <<>> THEN contexts
                   ELSE [contexts EXCEPT ![Len(contexts)].inCommit = FALSE]
    /\ timeline' = [timeline EXCEPT
         ![Top.branch].horizon = TRUE,
         ![Top.branch].anchors = [a \in AnchorName |-> NoAnchor],
         ![Top.branch].arena   = [v \in Var |-> IF @[v] = Consumed THEN Absent
                                                ELSE @[v]],
         ![Top.branch].commits = @ + 1]
    /\ UNCHANGED <<queueVars, history, nextId, nextValue, control, ghostVars>>

\* speculate (max n) {
SpeculateBegin(b) ==
    /\ Executes(b, "speculate")
    /\ Len(blocks) < MaxDepth
    /\ blocks' = Append(blocks,
         [kind |-> "speculate", branch |-> b, saved |-> timeline[b],
          start |-> Len(history),
          before |-> [timeline |-> timeline, channels |-> channels,
                      pending |-> pending]])
    /\ contexts' = Append(contexts,
         [vars |-> {}, inCommit |-> FALSE, executed |-> FALSE])
    /\ UNCHANGED <<timeline, queueVars, history, nextId, nextValue, control,
                   ghostVars>>

PopSpeculation ==
    /\ blocks' = Front(blocks)
    /\ contexts' = Front(contexts)

\* Fault: the aborted branch keeps the anchors it set in the block.
BugAbort ==
    /\ PopSpeculation
    /\ timeline' = [timeline EXCEPT ![Top.branch].arena = Top.saved.arena]
    /\ control' = Undoing(Top.branch, Top.start,
                          [kind |-> "abort", before |-> Top.before])
    /\ UNCHANGED <<queueVars, history, nextId, nextValue, ghostVars>>

\* The branch is restored, then what the block did elsewhere is rolled back.
Abort ==
    /\ PopSpeculation
    /\ timeline' = [timeline EXCEPT ![Top.branch] = Top.saved]
    /\ control' = Undoing(Top.branch, Top.start,
                          [kind |-> "abort", before |-> Top.before])
    /\ UNCHANGED <<queueVars, history, nextId, nextValue, ghostVars>>

\* The timeline a selective commit leaves once the variables in "done" have
\* been exported: the saved one, with their values at the end of the block.
Exported(done) ==
    [Top.saved EXCEPT
        !.arena   = [v \in Var |->
                       IF v \notin done THEN @[v]
                       ELSE IF IsValid(timeline[Top.branch].arena[v])
                            THEN timeline[Top.branch].arena[v]
                            ELSE Consumed],
        !.commits = timeline[Top.branch].commits]

\* A variable the commit block assigned and used up again, and which the saved
\* arena does not know, cannot be marked consumed there: set_consumed fails.
Unexportable(v) ==
    /\ ~IsValid(timeline[Top.branch].arena[v])
    /\ Top.saved.arena[v] = Absent

\* } of a speculate whose body ran to its end.  A selective commit exports in
\* no fixed order and ends with an error at the first variable it cannot mark
\* consumed or finds no room for.
SpeculateEnd ==
    /\ TopBlock("speculate")
    /\ LET b       == Top.branch
           context == Last(contexts)
           stuck   == {v \in context.vars : Unexportable(v)}
           stored  == {v \in context.vars : IsValid(timeline[b].arena[v])}
       IN  \/ /\ ~context.executed
              /\ Abort
           \/ /\ context.executed /\ CommitMode = "Full"
              /\ timeline' = [timeline EXCEPT ![b].horizon = TRUE]
              /\ PopSpeculation
              /\ UNCHANGED <<queueVars, history, nextId, nextValue, control,
                             ghostVars>>
           \/ /\ context.executed /\ CommitMode = "Selective"
              /\ stuck = {}
              /\ timeline' = [timeline EXCEPT ![b] =
                                [Exported(context.vars) EXCEPT !.horizon = TRUE]]
              /\ PopSpeculation
              /\ UNCHANGED <<queueVars, history, nextId, nextValue, control,
                             ghostVars>>
           \/ /\ context.executed /\ CommitMode = "Selective"
              /\ \E done \in SUBSET (context.vars \ stuck) :
                   /\ (stuck \union stored) \ done # {}
                   /\ timeline' = [timeline EXCEPT ![b] = Exported(done)]
              /\ PopSpeculation
              /\ control' = Raising("MemoryFault")
              /\ UNCHANGED <<queueVars, history, nextId, nextValue, ghostVars>>

\* A statement of a block fails before it has changed anything, or the block's
\* time is up.
Fail ==
    /\ control = Running
    /\ blocks # <<>>
    /\ control' = Raising("Other")
    /\ UNCHANGED <<timeline, queueVars, history, nextId, nextValue, blockVars,
                   ghostVars>>

\* An error leaves the commit blocks around it and aborts the innermost
\* speculation; outside of one it is reported and the program goes on.
Unwind ==
    /\ control.mode = "raise"
    /\ \/ /\ blocks = <<>>
          /\ control' = Running
          /\ UNCHANGED <<timeline, queueVars, history, nextId, nextValue,
                         blockVars, ghostVars>>
       \/ /\ blocks # <<>> /\ Top.kind = "commit"
          /\ blocks' = Front(blocks)
          /\ UNCHANGED <<timeline, queueVars, history, nextId, nextValue,
                         contexts, control, ghostVars>>
       \/ /\ blocks # <<>> /\ Top.kind = "speculate"
          /\ Abort

-----------------------------------------------------------------------------
Statement(b) ==
    \/ \E v \in Var :
         \/ Assign(b, v)
         \/ \E w \in Var : MoveLocal(b, w, v)
         \/ \E t \in Branch \union {NoBranch} : Send(b, v, t)
         \/ \E c \in Chan : ChannelSend(b, v, c) \/ ChannelReceive(b, v, c)
    \/ \E c \in Chan : ChannelOpen(b, c)
    \/ \E a \in AnchorName :
         \/ SetAnchor(b, a)
         \/ Rewind(b, a)
         \/ \E t \in Branch : AcausalReset(b, t, a)
    \/ Slice(b) \/ Tick(b)
    \/ CommitBegin(b) \/ SpeculateBegin(b)

Rollback ==
    \/ UndoOther \/ UndoSend \/ UndoRecv \/ UndoMove
    \/ FinishRewind \/ FinishReset \/ FinishAbort

Next ==
    \/ \E b \in Branch : Statement(b)
    \/ CommitEnd \/ SpeculateEnd \/ Fail \/ Unwind
    \/ Rollback

Spec == Init /\ [][Next]_vars

\* causal_rollback is one synchronous call, and so is the propagation of an
\* error: once begun they are carried through.
FairSpec == Spec /\ WF_vars(Rollback) /\ WF_vars(Unwind)
=============================================================================
