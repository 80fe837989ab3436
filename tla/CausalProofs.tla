---------------------------- MODULE CausalProofs ----------------------------
(***************************************************************************)
(* Proofs about the causal core, for every value of its constants: types,  *)
(* outflow locking, the implementation of the channels, and rewinds.       *)
(***************************************************************************)
EXTENDS CausalProperties, SequenceLemmas

-----------------------------------------------------------------------------
(* Typing *)

\* The cursor of a rollback stays inside the log.
CursorInLog == control.mode = "undo" => control.at <= Len(history)

TypeInv == TypeOK /\ CursorInLog

\* A timeline with one binding replaced is a timeline.
LEMMA BindType ==
    ASSUME NEW t \in [Branch -> Timeline], NEW b \in Branch, NEW v \in Var,
           NEW x \in Binding
    PROVE  [t EXCEPT ![b].arena[v] = x] \in [Branch -> Timeline]
  BY DEF Timeline, Arena

\* The initial state has its types, with no rollback under way.
LEMMA InitTypeInv == Init => TypeInv
<1> SUFFICES ASSUME Init PROVE TypeInv
  OBVIOUS
<1>1. InitTimeline \in Timeline
  BY DEF InitTimeline, Timeline, Arena, Binding
<1>2. Running \in Control /\ Running.mode # "undo"
  BY DEF Running, Control
<1>3. timeline \in [Branch -> Timeline]
  BY <1>1 DEF Init
<1>4. /\ channels \in [Chan -> Seq(Message)]
      /\ pending \in [Chan -> Seq(Message)]
      /\ history \in Seq(CausalEvent)
      /\ blocks \in Seq(SpeculateBlock \union CommitBlock)
      /\ contexts \in Seq(Context)
  BY EmptySeq DEF Init
<1>5. control.mode # "undo"
  BY <1>2 DEF Init
<1>6. /\ opened \subseteq Chan
      /\ nextId \in Nat
      /\ nextValue \in Value
      /\ unsent \subseteq Nat
      /\ control \in Control
  BY <1>2 DEF Init, Value
<1>7. faulted \in BOOLEAN
  BY DEF Init
<1> QED
  BY <1>3, <1>4, <1>5, <1>6, <1>7 DEF TypeInv, TypeOK, CursorInLog

\* The binding read by a valid identifier is a value.
LEMMA ValidIsValue ==
    ASSUME TypeOK, NEW b \in Branch, NEW v \in Var,
           IsValid(timeline[b].arena[v])
    PROVE  timeline[b].arena[v] \in Value
  BY DEF TypeOK, Timeline, Arena, Binding, IsValid

\* Noting a committed variable keeps the speculation contexts typed.
LEMMA NoteCommitVarType ==
    ASSUME TypeOK, NEW v \in Var, NoteCommitVar(v)
    PROVE  contexts' \in Seq(Context)
<1>1. CASE contexts # <<>> /\ Last(contexts).inCommit
  <2> DEFINE n == Len(contexts)
             c == [contexts[n] EXCEPT !.vars = @ \union {v}]
  <2>1. n \in 1 .. Len(contexts) /\ contexts[n] \in Context
    BY <1>1, LastProperties DEF TypeOK
  <2>2. c \in Context
    BY <2>1 DEF Context
  <2>3. contexts' = [contexts EXCEPT ![n] = c]
    BY <1>1 DEF NoteCommitVar
  <2> HIDE DEF n, c
  <2> QED
    BY <2>1, <2>2, <2>3, ExceptSeq DEF TypeOK
<1>2. CASE ~(contexts # <<>> /\ Last(contexts).inCommit)
  BY <1>2 DEF NoteCommitVar, TypeOK
<1> QED
  BY <1>1, <1>2

\* The log with one event appended is a log, and no shorter.
LEMMA AppendLog ==
    ASSUME TypeOK, NEW e \in CausalEvent
    PROVE  /\ Append(history, e) \in Seq(CausalEvent)
           /\ Len(Append(history, e)) = Len(history) + 1
           /\ Len(history) \in Nat
  BY PushProperties, SeqElements DEF TypeOK

\* A step that keeps or ends the walk over a log that does not shrink.
LEMMA RunningType ==
    /\ Running \in Control /\ Running.mode = "run"
    /\ \A e \in Errors : Raising(e) \in Control /\ Raising(e).mode = "raise"
  BY DEF Running, Raising, Control

\* A binding that finds room or not keeps the types and begins no rollback.
LEMMA BindTypes ==
    ASSUME TypeOK, control = Running, NEW b \in Branch, NEW v \in Var,
           NEW value \in Binding, NEW taken \in [Branch -> Timeline],
           Bind(b, v, value, taken)
    PROVE  /\ timeline' \in [Branch -> Timeline]
           /\ contexts' \in Seq(Context)
           /\ control' \in Control /\ control'.mode # "undo"
<1>1. CASE NoteCommitVar(v) /\ UNCHANGED control
           /\ timeline' = [taken EXCEPT ![b].arena[v] = value]
  <2>1. contexts' \in Seq(Context)
    BY <1>1, NoteCommitVarType
  <2> QED
    BY <1>1, <2>1, BindType, RunningType
<1>2. CASE /\ timeline' = taken
           /\ control' = Raising("MemoryFault")
           /\ UNCHANGED contexts
  BY <1>2, RunningType DEF Errors, TypeOK
<1> QED
  BY <1>1, <1>2 DEF Bind

\* An assignment keeps the types.
LEMMA AssignType ==
    ASSUME TypeInv, NEW b \in Branch, NEW v \in Var, Assign(b, v)
    PROVE  TypeInv'
<1>1. timeline' \in [Branch -> Timeline]
  BY BindType DEF Assign, TypeInv, TypeOK, Binding
<1>2. contexts' \in Seq(Context)
  BY NoteCommitVarType DEF Assign, TypeInv
<1>3. nextValue' \in Value
  BY DEF Assign, TypeInv, TypeOK, Value
<1> QED
  BY <1>1, <1>2, <1>3
     DEF Assign, TypeInv, TypeOK, CursorInLog, queueVars, ghostVars

\* A move between two variables keeps the types.
LEMMA MoveLocalType ==
    ASSUME TypeInv, NEW b \in Branch, NEW w \in Var, NEW v \in Var,
           MoveLocal(b, w, v)
    PROVE  TypeInv'
<1> DEFINE y == timeline[b].arena[w]
           taken == [timeline EXCEPT ![b].arena[w] = Consumed]
<1>1. y \in Binding
  BY ValidIsValue DEF MoveLocal, TypeInv, Binding
<1>2. taken \in [Branch -> Timeline]
  BY BindType DEF TypeInv, TypeOK, Binding
<1>3. control = Running /\ Bind(b, v, y, taken)
  BY DEF MoveLocal, Executes
<1> HIDE DEF y, taken
<1>4. /\ timeline' \in [Branch -> Timeline]
      /\ contexts' \in Seq(Context)
      /\ control' \in Control /\ control'.mode # "undo"
  BY <1>1, <1>2, <1>3, BindTypes DEF TypeInv
<1> QED
  BY <1>4 DEF MoveLocal, TypeInv, TypeOK, CursorInLog, queueVars, ghostVars

\* A direct send keeps the types, whether its target exists or not.
LEMMA SendType ==
    ASSUME TypeInv, NEW b \in Branch, NEW v \in Var,
           NEW t \in Branch \union {NoBranch}, Send(b, v, t)
    PROVE  TypeInv'
<1> DEFINE e == [kind |-> "move", branch |-> b, var |-> v, target |-> t]
<1>1. e \in CausalEvent
  BY DEF CausalEvent, MoveEvent
<1>2. history' = Append(history, e)
  BY DEF Send
<1>3. history' \in Seq(CausalEvent)
  BY <1>1, <1>2, AppendLog DEF TypeInv
<1>4. timeline[b].arena[v] \in Value
  BY ValidIsValue DEF Send, TypeInv
<1>5. timeline' \in [Branch -> Timeline]
  <2> DEFINE taken == [timeline EXCEPT ![b].arena[v] = Consumed]
  <2>1. taken \in [Branch -> Timeline]
    BY BindType DEF TypeInv, TypeOK, Binding
  <2>2. t \in Branch => [taken EXCEPT ![t].arena[v] = timeline[b].arena[v]]
                          \in [Branch -> Timeline]
    BY <1>4, <2>1, BindType DEF Binding
  <2> QED
    BY <2>1, <2>2 DEF Send
<1>6. control' \in Control /\ control'.mode # "undo"
  BY RunningType DEF Send, Errors
<1>7. nextId' \in Nat
  BY DEF Send, TypeInv, TypeOK
<1> QED
  BY <1>3, <1>5, <1>6, <1>7
     DEF Send, TypeInv, TypeOK, CursorInLog, queueVars, blockVars, ghostVars

\* Opening a channel keeps the types.
LEMMA ChannelOpenType ==
    ASSUME TypeInv, NEW b \in Branch, NEW c \in Chan, ChannelOpen(b, c)
    PROVE  TypeInv'
<1>1. /\ channels' \in [Chan -> Seq(Message)]
      /\ pending' \in [Chan -> Seq(Message)]
  BY EmptySeq DEF ChannelOpen, TypeInv, TypeOK
<1> QED
  BY <1>1
     DEF ChannelOpen, TypeInv, TypeOK, CursorInLog, blockVars, ghostVars

\* A channel send keeps the types, whichever queue it uses.
LEMMA ChannelSendType ==
    ASSUME TypeInv, NEW b \in Branch, NEW v \in Var, NEW c \in Chan,
           ChannelSend(b, v, c)
    PROVE  TypeInv'
<1> DEFINE e == [kind |-> "send", branch |-> b, chan |-> c, id |-> nextId]
           m == [id |-> nextId, sender |-> b,
                 payload |-> timeline[b].arena[v]]
<1>1. e \in CausalEvent
  BY DEF CausalEvent, SendEvent, TypeInv, TypeOK
<1>2. history' = Append(history, e)
  BY DEF ChannelSend
<1>3. history' \in Seq(CausalEvent)
  BY <1>1, <1>2, AppendLog DEF TypeInv
<1>4. m \in Message
  BY ValidIsValue DEF ChannelSend, TypeInv, TypeOK, Message
<1>5. timeline' \in [Branch -> Timeline]
  BY BindType DEF ChannelSend, TypeInv, TypeOK, Binding
<1>6. /\ Append(channels[c], m) \in Seq(Message)
      /\ Append(pending[c], m) \in Seq(Message)
  BY <1>4, PushProperties DEF TypeInv, TypeOK
<1> HIDE DEF m
<1>7. /\ \/ channels' = channels
         \/ channels' = [channels EXCEPT ![c] = Append(@, m)]
      /\ \/ pending' = pending
         \/ pending' = [pending EXCEPT ![c] = Append(@, m)]
  BY DEF ChannelSend, m
<1>8. /\ channels' \in [Chan -> Seq(Message)]
      /\ pending' \in [Chan -> Seq(Message)]
  BY <1>6, <1>7 DEF TypeInv, TypeOK
<1>9. control' \in Control /\ control'.mode # "undo"
  BY RunningType DEF ChannelSend, Errors, Executes
<1>10. nextId' \in Nat
  BY DEF ChannelSend, TypeInv, TypeOK
<1> QED
  BY <1>3, <1>5, <1>8, <1>9, <1>10
     DEF ChannelSend, TypeInv, TypeOK, CursorInLog, blockVars, ghostVars

\* A receive binds the payload of a typed message.
LEMMA ChannelReceiveType ==
    ASSUME TypeInv, NEW b \in Branch, NEW v \in Var, NEW c \in Chan,
           ChannelReceive(b, v, c)
    PROVE  TypeInv'
<1> DEFINE m == Head(channels[c])
           e == [kind |-> "recv", branch |-> b, chan |-> c, message |-> m]
<1>1. m \in Message /\ Tail(channels[c]) \in Seq(Message)
  BY HeadTailProperties DEF ChannelReceive, TypeInv, TypeOK
<1>2. e \in CausalEvent
  BY <1>1 DEF CausalEvent, RecvEvent
<1>3. history' \in Seq(CausalEvent)
  BY <1>2, AppendLog DEF ChannelReceive, TypeInv
<1>4. channels' \in [Chan -> Seq(Message)]
  BY <1>1 DEF ChannelReceive, TypeInv, TypeOK
<1>5. /\ timeline' \in [Branch -> Timeline]
      /\ contexts' \in Seq(Context)
      /\ control' \in Control /\ control'.mode # "undo"
  <2>1. m.payload \in Binding
    BY <1>1 DEF Message, Binding
  <2>2. control = Running /\ Bind(b, v, m.payload, timeline)
    BY DEF ChannelReceive, Executes
  <2> QED
    BY <2>1, <2>2, BindTypes DEF TypeInv, TypeOK
<1> QED
  BY <1>3, <1>4, <1>5
     DEF ChannelReceive, TypeInv, TypeOK, CursorInLog, ghostVars

\* Entering a slice keeps the types.
LEMMA SliceType ==
    ASSUME TypeInv, NEW b \in Branch, Slice(b)
    PROVE  TypeInv'
<1>1. timeline' \in [Branch -> Timeline]
  BY DEF Slice, TypeInv, TypeOK, Timeline
<1> QED
  BY <1>1
     DEF Slice, TypeInv, TypeOK, CursorInLog, queueVars, blockVars, ghostVars

\* A tick concatenates typed queues.
LEMMA TickType ==
    ASSUME TypeInv, NEW b \in Branch, Tick(b)
    PROVE  TypeInv'
<1>1. \A c \in Chan : channels[c] \o pending[c] \in Seq(Message)
  BY ConcatProperties DEF TypeInv, TypeOK
<1>2. /\ channels' \in [Chan -> Seq(Message)]
      /\ pending' \in [Chan -> Seq(Message)]
  BY <1>1, EmptySeq DEF Tick
<1> QED
  BY <1>2 DEF Tick, TypeInv, TypeOK, CursorInLog, blockVars, ghostVars

\* An anchor snapshots a typed arena and a position of the log.
LEMMA SetAnchorType ==
    ASSUME TypeInv, NEW b \in Branch, NEW a \in AnchorName, SetAnchor(b, a)
    PROVE  TypeInv'
<1> DEFINE point == [arena   |-> timeline[b].arena,
                     index   |-> Len(history),
                     commits |-> timeline[b].commits,
                     stale   |-> FALSE]
<1>1. point \in AnchorPoint
  BY SeqElements DEF TypeInv, TypeOK, Timeline, AnchorPoint
<1>2. timeline' = [timeline EXCEPT ![b].anchors[a] = point]
  BY DEF SetAnchor
<1> HIDE DEF point
<1>3. timeline' \in [Branch -> Timeline]
  BY <1>1, <1>2 DEF TypeInv, TypeOK, Timeline
<1> QED
  BY <1>3
     DEF SetAnchor, TypeInv, TypeOK, CursorInLog, queueVars, blockVars,
         ghostVars

\* The machine state in which causal_rollback starts.
LEMMA UndoingType ==
    ASSUME TypeInv, NEW b \in Branch, NEW n \in Nat, NEW r \in Resume
    PROVE  /\ Undoing(b, n, r) \in Control
           /\ Undoing(b, n, r).at = Len(history)
  BY SeqElements DEF TypeInv, TypeOK, Undoing, Control

\* A stored anchor that is there is an anchor point.
LEMMA AnchorType ==
    ASSUME TypeInv, NEW b \in Branch, NEW a \in AnchorName,
           timeline[b].anchors[a] # NoAnchor
    PROVE  timeline[b].anchors[a] \in AnchorPoint
  BY DEF TypeInv, TypeOK, Timeline

\* rewind_to starts a typed rollback or raises a known error.
LEMMA RewindType ==
    ASSUME TypeInv, NEW b \in Branch, NEW a \in AnchorName, Rewind(b, a)
    PROVE  TypeInv'
<1> DEFINE point == timeline[b].anchors[a]
           r == [kind |-> "rewind", anchor |-> point]
<1>1. CASE point = NoAnchor
  <2>1. control' \in Control /\ control'.mode = "raise"
    BY <1>1, RunningType DEF Rewind, Usable, Errors
  <2> QED
    BY <2>1 DEF Rewind, TypeInv, TypeOK, CursorInLog, queueVars, blockVars,
                ghostVars
<1>2. CASE point # NoAnchor
  <2>1. point \in AnchorPoint
    BY <1>2, AnchorType
  <2>2. point.index \in Nat /\ r \in Resume
    BY <2>1 DEF AnchorPoint, Resume
  <2>3. control' = Undoing(b, point.index, r)
    BY <1>2 DEF Rewind
  <2> HIDE DEF point, r
  <2>4. control' \in Control /\ control'.at <= Len(history)
    BY <2>2, <2>3, UndoingType, SeqElements DEF TypeInv, TypeOK
  <2> QED
    BY <2>4 DEF Rewind, TypeInv, TypeOK, CursorInLog, queueVars, blockVars,
                ghostVars
<1> QED
  BY <1>1, <1>2

\* reset starts a typed rollback of its target.
LEMMA AcausalResetType ==
    ASSUME TypeInv, NEW b \in Branch, NEW t \in Branch, NEW a \in AnchorName,
           AcausalReset(b, t, a)
    PROVE  TypeInv'
<1> DEFINE point == timeline[t].anchors[a]
           r == [kind |-> "reset", anchor |-> point]
<1>1. CASE point = NoAnchor
  <2>1. control' \in Control /\ control'.mode = "raise"
    BY <1>1, RunningType DEF AcausalReset, Usable, Errors
  <2> QED
    BY <2>1 DEF AcausalReset, TypeInv, TypeOK, CursorInLog, queueVars,
                blockVars, ghostVars
<1>2. CASE point # NoAnchor
  <2>1. point \in AnchorPoint
    BY <1>2, AnchorType
  <2>2. point.index \in Nat /\ r \in Resume
    BY <2>1 DEF AnchorPoint, Resume
  <2>3. control' = Undoing(t, point.index, r)
    BY <1>2 DEF AcausalReset
  <2> HIDE DEF point, r
  <2>4. control' \in Control /\ control'.at <= Len(history)
    BY <2>2, <2>3, UndoingType, SeqElements DEF TypeInv, TypeOK
  <2> QED
    BY <2>4 DEF AcausalReset, TypeInv, TypeOK, CursorInLog, queueVars,
                blockVars, ghostVars
<1> QED
  BY <1>1, <1>2

-----------------------------------------------------------------------------
(* Typing of causal_rollback *)

\* A rollback stands on an event of the log, and can take a step down.
LEMMA UndoType ==
    ASSUME TypeInv, Undo
    PROVE  /\ control.at \in 1 .. Len(history)
           /\ Event \in CausalEvent
           /\ [control EXCEPT !.at = @ - 1] \in Control
           /\ [control EXCEPT !.at = @ - 1].mode = "undo"
           /\ [control EXCEPT !.at = @ - 1].at <= Len(history)
<1>1. control \in [mode : {"undo"}, branch : Branch, at : Nat, start : Nat,
                   resume : Resume]
  BY DEF TypeInv, TypeOK, Control, Undo, Running
<1>2. control.at \in Nat /\ control.start \in Nat /\ Len(history) \in Nat
  BY <1>1, SeqElements DEF TypeInv, TypeOK
<1>3. control.at \in 1 .. Len(history)
  BY <1>2 DEF TypeInv, CursorInLog, Undo
<1>4. Event \in CausalEvent
  BY <1>3, SeqElements DEF Event, TypeInv, TypeOK
<1>5. [control EXCEPT !.at = @ - 1]
        \in [mode : {"undo"}, branch : Branch, at : Nat, start : Nat,
             resume : Resume]
  BY <1>1, <1>3
<1>6. [control EXCEPT !.at = @ - 1].at = control.at - 1
  BY <1>1
<1> QED
  BY <1>2, <1>3, <1>4, <1>5, <1>6 DEF Control

\* The cursor of a rollback moves down within the log.
LEMMA NextEventType ==
    ASSUME TypeInv, Undo, NextEvent
    PROVE  /\ control' \in Control
           /\ control'.mode = "undo"
           /\ control'.at <= Len(history)
  BY UndoType DEF NextEvent

\* The fields of the events a rollback undoes.
LEMMA EventType ==
    ASSUME NEW e \in CausalEvent
    PROVE  /\ e.kind = "send" => e \in SendEvent
           /\ e.kind = "recv" => e \in RecvEvent
           /\ e.kind = "move" => e \in MoveEvent
  BY DEF CausalEvent, SendEvent, RecvEvent, MoveEvent

\* Passing over another branch's event keeps the types.
LEMMA UndoOtherType ==
    ASSUME TypeInv, UndoOther
    PROVE  TypeInv'
<1>1. control' \in Control /\ control'.at <= Len(history)
  BY NextEventType DEF UndoOther
<1> QED
  BY <1>1 DEF UndoOther, TypeInv, TypeOK, CursorInLog, queueVars, blockVars,
              ghostVars

\* An un-receive puts a typed message back.
LEMMA UndoRecvType ==
    ASSUME TypeInv, UndoRecv
    PROVE  TypeInv'
<1>1. control' \in Control /\ control'.at <= Len(history)
  BY NextEventType DEF UndoRecv
<1>2. Event.chan \in Chan /\ Event.message \in Message
  BY UndoType, EventType DEF UndoRecv, RecvEvent
<1>3. <<Event.message>> \o channels[Event.chan] \in Seq(Message)
  BY <1>2, PushFrontProperties DEF TypeInv, TypeOK
<1>4. channels' \in [Chan -> Seq(Message)]
  BY <1>2, <1>3 DEF UndoRecv, TypeInv, TypeOK
<1> QED
  BY <1>1, <1>4
     DEF UndoRecv, TypeInv, TypeOK, CursorInLog, blockVars, ghostVars

\* A rollback that fails.
LEMMA RollbackFailsType ==
    ASSUME TypeInv, NEW e \in Errors, RollbackFails(e)
    PROVE  /\ control' \in Control
           /\ control'.mode # "undo"
           /\ faulted' \in BOOLEAN
           /\ timeline' = timeline
           /\ channels' = channels
           /\ pending' = pending
           /\ unsent' = unsent
  BY RunningType DEF RollbackFails

\* An un-send keeps the queues typed, or the rollback fails.
LEMMA UndoSendType ==
    ASSUME TypeInv, UndoSend
    PROVE  TypeInv'
<1> DEFINE c == Event.chan
           id == Event.id
<1>1. c \in Chan /\ id \in Nat
  BY UndoType, EventType DEF UndoSend, SendEvent
<1>2. Undo /\ Len(history) \in Nat
  BY SeqElements DEF UndoSend, TypeInv, TypeOK
<1>3. CASE RollbackFails("Paradox")
  BY <1>3, RollbackFailsType
     DEF UndoSend, TypeInv, TypeOK, CursorInLog, blockVars, Errors
<1>4. CASE /\ NextEvent
           /\ unsent' = unsent \union {id}
           /\ \E p \in DOMAIN channels[c] :
                channels' = [channels EXCEPT ![c] = RemoveAt(@, p)]
           /\ UNCHANGED <<timeline, pending, faulted>>
  <2>1. channels' \in [Chan -> Seq(Message)]
    BY <1>1, <1>4, RemoveAtProperties, SeqElements DEF TypeInv, TypeOK
  <2>2. control' \in Control /\ control'.at <= Len(history)
    BY <1>2, <1>4, NextEventType
  <2> QED
    BY <1>1, <1>4, <2>1, <2>2
       DEF UndoSend, TypeInv, TypeOK, CursorInLog, blockVars
<1>5. CASE /\ NextEvent
           /\ unsent' = unsent \union {id}
           /\ \E p \in DOMAIN pending[c] :
                pending' = [pending EXCEPT ![c] = RemoveAt(@, p)]
           /\ UNCHANGED <<timeline, channels, faulted>>
  <2>1. pending' \in [Chan -> Seq(Message)]
    BY <1>1, <1>5, RemoveAtProperties, SeqElements DEF TypeInv, TypeOK
  <2>2. control' \in Control /\ control'.at <= Len(history)
    BY <1>2, <1>5, NextEventType
  <2> QED
    BY <1>1, <1>5, <2>1, <2>2
       DEF UndoSend, TypeInv, TypeOK, CursorInLog, blockVars
<1> QED
  BY <1>3, <1>4, <1>5 DEF UndoSend

\* Pulling a moved value back keeps the arenas typed, or the rollback fails.
LEMMA UndoMoveType ==
    ASSUME TypeInv, UndoMove
    PROVE  TypeInv'
<1>1. Undo /\ Event.var \in Var
  BY UndoType, EventType DEF UndoMove, MoveEvent
<1>2. CASE \E e \in {"BranchNotFound", "Paradox"} : RollbackFails(e)
  BY <1>2, RollbackFailsType
     DEF UndoMove, TypeInv, TypeOK, CursorInLog, blockVars, Errors
<1>3. CASE /\ Event.target \in Branch
           /\ timeline' = [timeline EXCEPT
                             ![Event.target].arena[Event.var] = Absent]
           /\ NextEvent
           /\ UNCHANGED <<channels, pending, ghostVars>>
  <2>1. timeline' \in [Branch -> Timeline]
    BY <1>1, <1>3, BindType DEF TypeInv, TypeOK, Binding
  <2>2. control' \in Control /\ control'.at <= Len(history)
    BY <1>1, <1>3, NextEventType
  <2> QED
    BY <1>3, <2>1, <2>2
       DEF UndoMove, TypeInv, TypeOK, CursorInLog, blockVars, ghostVars
<1> QED
  BY <1>2, <1>3 DEF UndoMove

\* What the caller of causal_rollback returns to.
LEMMA UndoneType ==
    ASSUME TypeInv, NEW k, Undone(k)
    PROVE  /\ control.branch \in Branch
           /\ control.start \in Nat
           /\ control.resume \in Resume
           /\ control.resume.kind = k
  BY DEF TypeInv, TypeOK, Control, Undone, Running

\* A branch restored from an anchor is a timeline.
LEMMA RestoredType ==
    ASSUME TypeInv, NEW b \in Branch, NEW point \in AnchorPoint
    PROVE  Restored(b, point) \in Timeline
<1>1. timeline[b] \in Timeline /\ point.arena \in Arena
  BY DEF TypeInv, TypeOK, AnchorPoint
<1> DEFINE old == timeline[b].anchors
           new == [a \in AnchorName |->
                     IF old[a] = NoAnchor THEN NoAnchor
                     ELSE [old[a] EXCEPT !.stale = OneShot]]
<1>2. new \in [AnchorName -> AnchorPoint \union {NoAnchor}]
  <2>1. old \in [AnchorName -> AnchorPoint \union {NoAnchor}]
    BY <1>1 DEF Timeline
  <2>2. \A p \in AnchorPoint : [p EXCEPT !.stale = OneShot] \in AnchorPoint
    BY ConstantsAssumption DEF AnchorPoint
  <2> QED
    BY <2>1, <2>2
<1>3. Restored(b, point)
        = [timeline[b] EXCEPT !.arena = point.arena, !.anchors = new]
  BY <1>1 DEF Restored, Timeline
<1> HIDE DEF new
<1> QED
  BY <1>1, <1>2, <1>3 DEF Timeline

\* A rewind or a reset resumes with the anchor it was given.
LEMMA AnchorResume ==
    ASSUME TypeInv, NEW k \in {"rewind", "reset"}, Undone(k)
    PROVE  control.resume.anchor \in AnchorPoint
<1>1. control.resume \in Resume /\ control.resume.kind = k
  BY UndoneType
<1> QED
  BY <1>1 DEF Resume

\* A completed rewind restores a typed timeline.
LEMMA FinishRewindType ==
    ASSUME TypeInv, FinishRewind
    PROVE  TypeInv'
<1>1. timeline' \in [Branch -> Timeline]
  BY UndoneType, AnchorResume, RestoredType DEF FinishRewind, TypeInv, TypeOK
<1>2. control' \in Control /\ control'.mode # "undo"
  BY RunningType DEF FinishRewind, Undone
<1> QED
  BY <1>1, <1>2
     DEF FinishRewind, TypeInv, TypeOK, CursorInLog, queueVars, blockVars,
         ghostVars

\* A completed reset restores a typed timeline.
LEMMA FinishResetType ==
    ASSUME TypeInv, FinishReset
    PROVE  TypeInv'
<1>1. timeline' \in [Branch -> Timeline]
  <2>1. Restored(control.branch, control.resume.anchor) \in Timeline
    BY UndoneType, AnchorResume, RestoredType DEF FinishReset
  <2>2. [Restored(control.branch, control.resume.anchor)
           EXCEPT !.horizon = FALSE] \in Timeline
    BY <2>1 DEF Timeline
  <2> QED
    BY <2>2, UndoneType DEF FinishReset, TypeInv, TypeOK
<1>2. control' \in Control /\ control'.mode # "undo"
  BY RunningType DEF FinishReset, Undone
<1> QED
  BY <1>1, <1>2
     DEF FinishReset, TypeInv, TypeOK, CursorInLog, queueVars, blockVars,
         ghostVars

\* An aborted speculation truncates the log to a log.
LEMMA FinishAbortType ==
    ASSUME TypeInv, FinishAbort
    PROVE  TypeInv'
<1>1. history' \in Seq(CausalEvent)
  BY UndoneType, TruncateProperties DEF FinishAbort, TypeInv, TypeOK
<1>2. control' \in Control /\ control'.mode # "undo"
  BY RunningType DEF FinishAbort, Undone
<1> QED
  BY <1>1, <1>2
     DEF FinishAbort, TypeInv, TypeOK, CursorInLog, queueVars, blockVars,
         ghostVars

-----------------------------------------------------------------------------
(* Typing of blocks *)

\* The innermost speculation's context with a flag or two replaced.
LEMMA ContextType ==
    ASSUME TypeOK, contexts # <<>>, NEW x \in BOOLEAN, NEW y \in BOOLEAN
    PROVE  [contexts EXCEPT ![Len(contexts)] =
              [@ EXCEPT !.executed = x, !.inCommit = y]] \in Seq(Context)
<1> DEFINE n == Len(contexts)
           c == [contexts[n] EXCEPT !.executed = x, !.inCommit = y]
<1>1. n \in 1 .. Len(contexts) /\ contexts[n] \in Context
  BY LastProperties DEF TypeOK
<1>2. c \in Context
  BY <1>1 DEF Context
<1> HIDE DEF n, c
<1>3. [contexts EXCEPT ![n] = c] \in Seq(Context)
  BY <1>1, <1>2, ExceptSeq DEF TypeOK
<1> QED
  BY <1>3 DEF n, c

\* Opening a commit block keeps the types.
LEMMA CommitBeginType ==
    ASSUME TypeInv, NEW b \in Branch, CommitBegin(b)
    PROVE  TypeInv'
<1>1. blocks' \in Seq(SpeculateBlock \union CommitBlock)
  <2>1. [kind |-> "commit", branch |-> b] \in SpeculateBlock \union CommitBlock
    BY DEF CommitBlock
  <2> QED
    BY <2>1, PushProperties DEF CommitBegin, TypeInv, TypeOK
<1>2. contexts' \in Seq(Context)
  BY ContextType DEF CommitBegin, TypeInv, TypeOK
<1> QED
  BY <1>1, <1>2
     DEF CommitBegin, TypeInv, TypeOK, CursorInLog, queueVars, ghostVars

\* The innermost block.
LEMMA TopType ==
    ASSUME TypeOK, blocks # <<>>
    PROVE  /\ Top \in SpeculateBlock \union CommitBlock
           /\ Top.branch \in Branch
           /\ Front(blocks) \in Seq(SpeculateBlock \union CommitBlock)
           /\ Top.kind = "speculate" => Top \in SpeculateBlock
<1>1. Top \in SpeculateBlock \union CommitBlock
  BY LastProperties DEF TypeOK, Top
<1>2. Front(blocks) \in Seq(SpeculateBlock \union CommitBlock)
  BY FrontProperties DEF TypeOK
<1>3. Top.branch \in Branch /\ (Top.kind = "speculate" => Top \in SpeculateBlock)
  BY <1>1 DEF SpeculateBlock, CommitBlock
<1> QED
  BY <1>1, <1>2, <1>3

\* Closing a commit block keeps the types.
LEMMA CommitEndType ==
    ASSUME TypeInv, CommitEnd
    PROVE  TypeInv'
<1>1. blocks # <<>> /\ TypeOK
  BY DEF CommitEnd, TopBlock, TypeInv
<1>2. blocks' \in Seq(SpeculateBlock \union CommitBlock)
  BY <1>1, TopType DEF CommitEnd
<1>3. contexts' \in Seq(Context)
  <2>1. CASE contexts = <<>>
    BY <1>1, <2>1 DEF CommitEnd, TypeOK
  <2>2. CASE contexts # <<>>
    <3> DEFINE n == Len(contexts)
               c == [contexts[n] EXCEPT !.inCommit = FALSE]
    <3>1. n \in 1 .. Len(contexts) /\ contexts[n] \in Context
      BY <1>1, <2>2, LastProperties DEF TypeOK
    <3>2. c \in Context
      BY <3>1 DEF Context
    <3>3. contexts' = [contexts EXCEPT ![n] = c]
      BY <2>2 DEF CommitEnd
    <3> HIDE DEF n, c
    <3> QED
      BY <1>1, <3>1, <3>2, <3>3, ExceptSeq DEF TypeOK
  <2> QED
    BY <2>1, <2>2
<1>4. timeline' \in [Branch -> Timeline]
  <2> DEFINE old == timeline[Top.branch]
             names == [a \in AnchorName |-> NoAnchor]
             arena == [v \in Var |-> IF old.arena[v] = Consumed THEN Absent
                                     ELSE old.arena[v]]
  <2>1. Top.branch \in Branch /\ old \in Timeline
    BY <1>1, TopType DEF TypeOK
  <2>2. arena \in Arena
    BY <2>1 DEF Timeline, Arena, Binding
  <2>3. names \in [AnchorName -> AnchorPoint \union {NoAnchor}]
    OBVIOUS
  <2>4. timeline' = [timeline EXCEPT ![Top.branch] =
                       [old EXCEPT !.horizon = TRUE, !.anchors = names,
                                   !.arena = arena,
                                   !.commits = old.commits + 1]]
    BY <2>1 DEF CommitEnd, Timeline
  <2> HIDE DEF names, arena, old
  <2>5. [old EXCEPT !.horizon = TRUE, !.anchors = names,
                    !.arena = arena, !.commits = old.commits + 1] \in Timeline
    <3>1. old.commits + 1 \in Nat /\ TRUE \in BOOLEAN
      BY <2>1 DEF Timeline
    <3>2. \A n \in Nat, f \in BOOLEAN :
            [old EXCEPT !.horizon = f, !.anchors = names,
                        !.arena = arena, !.commits = n] \in Timeline
      BY <2>1, <2>2, <2>3 DEF Timeline
    <3> QED
      BY <3>1, <3>2
  <2> QED
    BY <1>1, <2>1, <2>4, <2>5 DEF TypeOK
<1> QED
  BY <1>2, <1>3, <1>4
     DEF CommitEnd, TypeInv, TypeOK, CursorInLog, queueVars, ghostVars

\* A speculation saves typed snapshots.
LEMMA SpeculateBeginType ==
    ASSUME TypeInv, NEW b \in Branch, SpeculateBegin(b)
    PROVE  TypeInv'
<1> DEFINE before == [timeline |-> timeline, channels |-> channels,
                      pending |-> pending]
           block == [kind |-> "speculate", branch |-> b,
                     saved |-> timeline[b], start |-> Len(history),
                     before |-> before]
           context == [vars |-> {}, inCommit |-> FALSE, executed |-> FALSE]
<1>1. before \in Configuration
  BY DEF TypeInv, TypeOK, Configuration
<1>2. block \in SpeculateBlock \union CommitBlock
  <2>1. timeline[b] \in Timeline /\ Len(history) \in Nat
    BY SeqElements DEF TypeInv, TypeOK
  <2> HIDE DEF before
  <2> QED
    BY <1>1, <2>1 DEF SpeculateBlock
<1>3. context \in Context
  BY DEF Context
<1>4. blocks' = Append(blocks, block) /\ contexts' = Append(contexts, context)
  BY DEF SpeculateBegin
<1> HIDE DEF block, context
<1>5. /\ blocks' \in Seq(SpeculateBlock \union CommitBlock)
      /\ contexts' \in Seq(Context)
  BY <1>2, <1>3, <1>4, PushProperties DEF TypeInv, TypeOK
<1> QED
  BY <1>5
     DEF SpeculateBegin, TypeInv, TypeOK, CursorInLog, queueVars, ghostVars

\* Leaving a speculation.
LEMMA PopSpeculationType ==
    ASSUME TypeOK, blocks # <<>>, PopSpeculation
    PROVE  /\ blocks' \in Seq(SpeculateBlock \union CommitBlock)
           /\ contexts' \in Seq(Context)
  BY TopType, FrontProperties DEF PopSpeculation, TypeOK

\* An abort restores the saved timeline and starts a typed rollback.
LEMMA AbortType ==
    ASSUME TypeInv, blocks # <<>>, Top.kind = "speculate", Abort
    PROVE  TypeInv'
<1>1. /\ Top.branch \in Branch /\ Top.saved \in Timeline
      /\ Top.start \in Nat /\ Top.before \in Configuration
  BY TopType DEF SpeculateBlock, TypeInv
<1>2. timeline' \in [Branch -> Timeline]
  BY <1>1 DEF Abort, TypeInv, TypeOK
<1>3. [kind |-> "abort", before |-> Top.before] \in Resume
  BY <1>1 DEF Resume
<1>4. control' \in Control /\ control'.at = Len(history)
  BY <1>1, <1>3, UndoingType DEF Abort
<1>5. Len(history) \in Nat /\ history' = history
  BY SeqElements DEF Abort, TypeInv, TypeOK
<1>6. /\ blocks' \in Seq(SpeculateBlock \union CommitBlock)
      /\ contexts' \in Seq(Context)
  BY PopSpeculationType DEF Abort, TypeInv
<1> QED
  BY <1>2, <1>4, <1>5, <1>6
     DEF Abort, TypeInv, TypeOK, CursorInLog, queueVars, ghostVars

\* The timeline a selective commit builds.
LEMMA ExportedType ==
    ASSUME TypeOK, blocks # <<>>, Top.kind = "speculate", NEW done
    PROVE  Exported(done) \in Timeline
<1>1. /\ Top.saved \in Timeline /\ Top.branch \in Branch
      /\ timeline[Top.branch] \in Timeline
  BY TopType DEF SpeculateBlock, TypeOK
<1> DEFINE arena == [v \in Var |->
                       IF v \notin done THEN Top.saved.arena[v]
                       ELSE IF IsValid(timeline[Top.branch].arena[v])
                            THEN timeline[Top.branch].arena[v]
                            ELSE Consumed]
<1>2. arena \in Arena
  BY <1>1 DEF Timeline, Arena, Binding
<1>3. Exported(done) = [Top.saved EXCEPT
                          !.arena = arena,
                          !.commits = timeline[Top.branch].commits]
  BY <1>1 DEF Exported, Timeline
<1> HIDE DEF arena
<1> QED
  BY <1>1, <1>2, <1>3 DEF Timeline

\* Each way a speculation ends keeps the types.
LEMMA SpeculateEndType ==
    ASSUME TypeInv, SpeculateEnd
    PROVE  TypeInv'
<1>1. /\ TypeOK /\ blocks # <<>> /\ Top.kind = "speculate"
      /\ control = Running
  BY DEF SpeculateEnd, TopBlock, TypeInv, Top
<1>2. CASE Abort
  BY <1>1, <1>2, AbortType
<1>3. CASE ~Abort
  <2>1. /\ PopSpeculation
        /\ UNCHANGED <<queueVars, history, nextId, nextValue, ghostVars>>
    BY <1>3 DEF SpeculateEnd
  <2>2. /\ blocks' \in Seq(SpeculateBlock \union CommitBlock)
        /\ contexts' \in Seq(Context)
    BY <1>1, <2>1, PopSpeculationType
  <2>3. control' \in Control /\ control'.mode # "undo"
    BY <1>1, <1>3, RunningType DEF SpeculateEnd, Errors
  <2>4. /\ Top.branch \in Branch
        /\ \E t \in Timeline : timeline' = [timeline EXCEPT ![Top.branch] = t]
    <3>1. Top.branch \in Branch /\ timeline[Top.branch] \in Timeline
      BY <1>1, TopType DEF TypeOK
    <3>2. CASE timeline' = [timeline EXCEPT ![Top.branch].horizon = TRUE]
      <4>1. [timeline[Top.branch] EXCEPT !.horizon = TRUE] \in Timeline
        BY <3>1 DEF Timeline
      <4> QED
        BY <3>1, <3>2, <4>1
    <3>3. CASE \E done :
                 timeline' = [timeline EXCEPT ![Top.branch] =
                                [Exported(done) EXCEPT !.horizon = TRUE]]
      <4>1. PICK done :
               timeline' = [timeline EXCEPT ![Top.branch] =
                              [Exported(done) EXCEPT !.horizon = TRUE]]
        BY <3>3
      <4>2. Exported(done) \in Timeline
        BY <1>1, ExportedType
      <4>3. [Exported(done) EXCEPT !.horizon = TRUE] \in Timeline
        BY <4>2 DEF Timeline
      <4> QED
        BY <3>1, <4>1, <4>3
    <3>4. CASE \E done :
                 timeline' = [timeline EXCEPT ![Top.branch] = Exported(done)]
      BY <1>1, <3>1, <3>4, ExportedType
    <3> QED
      BY <1>3, <3>2, <3>3, <3>4 DEF SpeculateEnd
  <2>5. timeline' \in [Branch -> Timeline]
    BY <1>1, <2>4 DEF TypeOK
  <2> QED
    BY <1>1, <2>1, <2>2, <2>3, <2>5
       DEF TypeInv, TypeOK, CursorInLog, queueVars, ghostVars
<1> QED
  BY <1>2, <1>3

\* A failing statement raises a known error.
LEMMA FailType ==
    ASSUME TypeInv, Fail
    PROVE  TypeInv'
<1>1. control' \in Control /\ control'.mode # "undo"
  BY RunningType DEF Fail, Errors
<1> QED
  BY <1>1 DEF Fail, TypeInv, TypeOK, CursorInLog, queueVars, blockVars,
              ghostVars

\* A propagating error leaves the blocks typed.
LEMMA UnwindType ==
    ASSUME TypeInv, Unwind
    PROVE  TypeInv'
<1>1. CASE /\ blocks = <<>> /\ control' = Running
           /\ UNCHANGED <<timeline, queueVars, history, nextId, nextValue,
                          blockVars, ghostVars>>
  BY <1>1, RunningType
     DEF TypeInv, TypeOK, CursorInLog, queueVars, blockVars, ghostVars
<1>2. CASE blocks # <<>> /\ Top.kind = "commit"
  <2>1. blocks' \in Seq(SpeculateBlock \union CommitBlock)
    BY <1>2, TopType DEF Unwind, TypeInv
  <2> QED
    BY <1>2, <2>1
       DEF Unwind, TypeInv, TypeOK, CursorInLog, queueVars, ghostVars
<1>3. CASE blocks # <<>> /\ Top.kind = "speculate"
  BY <1>3, AbortType DEF Unwind
<1> QED
  BY <1>1, <1>2, <1>3 DEF Unwind

-----------------------------------------------------------------------------
(* The type invariant *)

\* The type invariant is inductive.
LEMMA TypeInvStep == TypeInv /\ [Next]_vars => TypeInv'
<1> SUFFICES ASSUME TypeInv, [Next]_vars PROVE TypeInv'
  OBVIOUS
<1>1. ASSUME NEW b \in Branch, Statement(b) PROVE TypeInv'
  BY <1>1, AssignType, MoveLocalType, SendType, ChannelOpenType,
     ChannelSendType, ChannelReceiveType, SliceType, TickType, SetAnchorType,
     RewindType, AcausalResetType, CommitBeginType, SpeculateBeginType
     DEF Statement
<1>2. CASE CommitEnd \/ SpeculateEnd \/ Fail \/ Unwind
  BY <1>2, CommitEndType, SpeculateEndType, FailType, UnwindType
<1>3. CASE Rollback
  BY <1>3, UndoOtherType, UndoSendType, UndoRecvType, UndoMoveType,
     FinishRewindType, FinishResetType, FinishAbortType DEF Rollback
<1>4. CASE UNCHANGED vars
  BY <1>4 DEF vars, TypeInv, TypeOK, CursorInLog, queueVars, blockVars,
              ghostVars
<1> QED
  BY <1>1, <1>2, <1>3, <1>4 DEF Next

\* The machine keeps its types, and a rollback never reads past the log.
THEOREM TypeCorrect == Spec => []TypeInv
<1> QED
  BY InitTypeInv, TypeInvStep, PTL DEF Spec

\* Every variable of the machine keeps its type.
THEOREM Typing == Spec => []TypeOK
<1>1. TypeInv => TypeOK
  BY DEF TypeInv
<1> QED
  BY <1>1, TypeCorrect, PTL

-----------------------------------------------------------------------------
(* Outflow locking: in a program without speculation the log only grows, and *)
(* a message that a rollback took back is gone for good.                     *)

\* No block aborts, so nothing truncates the log.
NoSpeculation ==
    /\ \A i \in DOMAIN blocks : blocks[i].kind = "commit"
    /\ control.mode = "undo" => control.resume.kind # "abort"

\* An id is sent once.
SentOnce ==
    \A i \in DOMAIN history : history[i].kind = "send" =>
        /\ history[i].id < nextId
        /\ \A j \in DOMAIN history :
             history[j].kind = "send" /\ history[j].id = history[i].id => i = j

\* A message is received after it was sent, on the channel it was sent on.
ReceivedWasSent ==
    \A j \in DOMAIN history : history[j].kind = "recv" =>
        \E i \in 1 .. j - 1 :
            history[i] = [kind |-> "send",
                          branch |-> history[j].message.sender,
                          chan |-> history[j].chan,
                          id |-> history[j].message.id]

\* A message that nobody received is queued at most once.  (One that was
\* received is pushed back by every rewind past its receive event.)
SoleCopy ==
    \A c \in Chan :
        /\ \A p, q \in DOMAIN channels[c] :
             channels[c][p].id = channels[c][q].id =>
                 p = q \/ Received(channels[c][p].id)
        /\ \A p, q \in DOMAIN pending[c] :
             pending[c][p].id = pending[c][q].id =>
                 p = q \/ Received(pending[c][p].id)
        /\ \A p \in DOMAIN channels[c], q \in DOMAIN pending[c] :
             channels[c][p].id = pending[c][q].id =>
                 Received(channels[c][p].id)

\* A message taken back was sent, and is gone.
UnsentGone == UnsentNeverSurfaces /\ \A id \in unsent : id < nextId

Traced == /\ SentOnce
          /\ ReceivedWasSent
          /\ QueuedWasSent
          /\ SoleCopy
          /\ UnsentGone

\* Nothing has been sent in the initial state.
LEMMA InitOutflow == Init => NoSpeculation /\ Traced
<1> SUFFICES ASSUME Init PROVE NoSpeculation /\ Traced
  OBVIOUS
<1>1. DOMAIN blocks = {} /\ DOMAIN history = {}
  BY DEF Init
<1>2. \A c \in Chan : DOMAIN channels[c] = {} /\ DOMAIN pending[c] = {}
  BY DEF Init
<1>3. control.mode = "run" /\ unsent = {}
  BY RunningType DEF Init
<1> QED
  BY <1>1, <1>2, <1>3
     DEF NoSpeculation, Traced, SentOnce, ReceivedWasSent, QueuedWasSent,
         SoleCopy, UnsentGone, UnsentNeverSurfaces

\* In a program that speculates nowhere the innermost block is a commit.
LEMMA NoSpeculateBlock ==
    ASSUME TypeOK, NoSpeculation, blocks # <<>>
    PROVE  Top.kind = "commit"
  BY LastProperties, SeqElements DEF TypeOK, NoSpeculation, Top

\* A program without speculate statements opens no speculate block and aborts nothing.
LEMMA NoSpeculationStep ==
    ASSUME "speculate" \notin Stmts, TypeInv, NoSpeculation, [Next]_vars
    PROVE  NoSpeculation'
<1>1. DOMAIN blocks = 1 .. Len(blocks) /\ Len(blocks) \in Nat
  BY SeqElements DEF TypeInv, TypeOK
<1>2. \A i \in DOMAIN blocks' : blocks'[i].kind = "commit"
  <2>1. CASE blocks' = blocks
    BY <2>1 DEF NoSpeculation
  <2>2. CASE blocks' = Front(blocks) /\ blocks # <<>>
    <3>1. DOMAIN blocks' = 1 .. Len(blocks) - 1
      BY <1>1, <2>2, FrontProperties, SeqElements DEF TypeInv, TypeOK
    <3> QED
      BY <1>1, <2>2, <3>1, FrontProperties DEF NoSpeculation, TypeInv, TypeOK
  <2>3. CASE \E b \in Branch :
               blocks' = Append(blocks, [kind |-> "commit", branch |-> b])
    <3>1. PICK b \in Branch :
             blocks' = Append(blocks, [kind |-> "commit", branch |-> b])
      BY <2>3
    <3> DEFINE block == [kind |-> "commit", branch |-> b]
    <3>2. block \in SpeculateBlock \union CommitBlock /\ block.kind = "commit"
      BY DEF CommitBlock
    <3> HIDE DEF block
    <3>3. /\ DOMAIN blocks' = 1 .. Len(blocks) + 1
          /\ \A i \in 1 .. Len(blocks) : blocks'[i] = blocks[i]
          /\ blocks'[Len(blocks) + 1] = block
      BY <3>1, <3>2, PushProperties, SeqElements DEF TypeInv, TypeOK, block
    <3> QED
      BY <1>1, <3>2, <3>3 DEF NoSpeculation
  <2>4. ASSUME NEW b \in Branch, Statement(b)
        PROVE  blocks' = blocks
                \/ blocks' = Append(blocks, [kind |-> "commit", branch |-> b])
    BY <2>4 DEF Statement, Executes, Assign, MoveLocal, Send, ChannelOpen,
                ChannelSend, ChannelReceive, Slice, Tick, SetAnchor, Rewind,
                AcausalReset, CommitBegin, SpeculateBegin, blockVars
  <2>5. CASE CommitEnd \/ SpeculateEnd \/ Fail \/ Unwind
    BY <2>1, <2>2, <2>5, NoSpeculateBlock
       DEF CommitEnd, SpeculateEnd, Fail, Unwind, TopBlock, Top, blockVars,
           TypeInv
  <2>6. CASE Rollback
    BY <2>6 DEF Rollback, UndoOther, UndoSend, UndoRecv, UndoMove,
                FinishRewind, FinishReset, FinishAbort, blockVars,
                NoSpeculation
  <2>7. CASE UNCHANGED vars
    BY <2>1, <2>7 DEF vars, blockVars
  <2> QED
    BY <2>1, <2>3, <2>4, <2>5, <2>6, <2>7 DEF Next
<1>3. control'.mode = "undo" => control'.resume.kind # "abort"
  <2>1. CASE control' = control
    BY <2>1 DEF NoSpeculation
  <2>2. CASE control'.mode # "undo"
    BY <2>2
  <2>3. CASE \E b, n, p : \/ control' = Undoing(b, n, [kind |-> "rewind", anchor |-> p])
                          \/ control' = Undoing(b, n, [kind |-> "reset", anchor |-> p])
    BY <2>3 DEF Undoing
  <2>4. CASE Undo /\ NextEvent
    <3>1. control \in [mode : {"undo"}, branch : Branch, at : Nat,
                       start : Nat, resume : Resume]
      BY <2>4 DEF TypeInv, TypeOK, Control, Undo, Running
    <3>2. control'.resume = control.resume
      BY <2>4, <3>1 DEF NextEvent
    <3> QED
      BY <2>4, <3>2 DEF NoSpeculation, Undo
  <2>5. ASSUME NEW b \in Branch, Statement(b)
        PROVE  \/ control' = control
               \/ control'.mode # "undo"
               \/ \E n, p :
                    \/ control' = Undoing(b, n, [kind |-> "rewind", anchor |-> p])
                    \/ control' = Undoing(b, n, [kind |-> "reset", anchor |-> p])
               \/ \E t, n, p :
                    control' = Undoing(t, n, [kind |-> "reset", anchor |-> p])
    <3>1. \A e \in Errors : Raising(e).mode # "undo"
      BY RunningType
    <3> QED
      BY <2>5, <3>1, RunningType
         DEF Statement, Assign, MoveLocal, Send, ChannelOpen, ChannelSend,
             ChannelReceive, Bind, Slice, Tick, SetAnchor, Rewind, AcausalReset,
             CommitBegin, SpeculateBegin, Errors
  <2>6. CASE CommitEnd \/ SpeculateEnd \/ Fail \/ Unwind
    <3>1. ~SpeculateEnd
      BY NoSpeculateBlock DEF SpeculateEnd, TopBlock, Top, TypeInv
    <3>2. blocks # <<>> => Top.kind # "speculate"
      BY NoSpeculateBlock DEF TypeInv
    <3> QED
      BY <2>6, <3>1, <3>2, RunningType
         DEF CommitEnd, Fail, Unwind, Errors, NoSpeculation
  <2>7. CASE Rollback
    <3>1. \A e \in Errors : Raising(e).mode # "undo"
      BY RunningType
    <3>2. (Undo /\ NextEvent) \/ control'.mode # "undo"
      BY <2>7, <3>1, RunningType
         DEF Rollback, UndoOther, UndoSend, UndoRecv, UndoMove, FinishRewind,
             FinishReset, FinishAbort, RollbackFails, Undone, Errors
    <3> QED
      BY <2>4, <3>2
  <2>8. CASE UNCHANGED vars
    BY <2>1, <2>8 DEF vars
  <2> QED
    BY <2>1, <2>2, <2>3, <2>5, <2>6, <2>7, <2>8 DEF Next
<1> QED
  BY <1>2, <1>3 DEF NoSpeculation

\* A step that leaves the messages, the log and the ids alone.
LEMMA TracedFrame ==
    ASSUME Traced,
           UNCHANGED <<channels, pending, history, nextId, unsent>>
    PROVE  Traced'
  BY DEF Traced, SentOnce, ReceivedWasSent, QueuedWasSent, SoleCopy,
         UnsentGone, UnsentNeverSurfaces, Queued, Received, InQueue

\* Positions of the log and of the queues.
LEMMA Positions ==
    ASSUME TypeOK
    PROVE  /\ Len(history) \in Nat
           /\ DOMAIN history = 1 .. Len(history)
           /\ \A i \in DOMAIN history : history[i] \in CausalEvent
           /\ \A c \in Chan :
                /\ Len(channels[c]) \in Nat /\ Len(pending[c]) \in Nat
                /\ DOMAIN channels[c] = 1 .. Len(channels[c])
                /\ DOMAIN pending[c] = 1 .. Len(pending[c])
                /\ \A p \in DOMAIN channels[c] : channels[c][p] \in Message
                /\ \A p \in DOMAIN pending[c] : pending[c][p] \in Message
<1>1. /\ history \in Seq(CausalEvent)
      /\ \A c \in Chan : channels[c] \in Seq(Message)
                          /\ pending[c] \in Seq(Message)
  BY DEF TypeOK
<1> QED
  BY <1>1, SeqElements

\* An event appended to the log leaves the rest of it alone.
LEMMA LogGrows ==
    ASSUME TypeOK, NEW e \in CausalEvent, history' = Append(history, e)
    PROVE  /\ DOMAIN history' = 1 .. Len(history) + 1
           /\ \A i \in DOMAIN history : history'[i] = history[i]
           /\ history'[Len(history) + 1] = e
<1>1. history \in Seq(CausalEvent)
  BY DEF TypeOK
<1>2. history' \in Seq(CausalEvent) /\ Len(history') = Len(history) + 1
  BY <1>1, PushProperties
<1> QED
  BY <1>1, <1>2, PushProperties, SeqElements

\* Message m waits in a queue of channel c; its send is in the log.
Waiting(c, m) == \/ \E p \in DOMAIN channels[c] : channels[c][p] = m
                 \/ \E p \in DOMAIN pending[c] : pending[c][p] = m
Origin(c, m) == \E i \in DOMAIN history :
    history[i] = [kind |-> "send", branch |-> m.sender, chan |-> c,
                  id |-> m.id]

\* A queued message has its send in the log.
LEMMA QueuedOrigin ==
    QueuedWasSent <=> \A c \in Chan : \A m : Waiting(c, m) => Origin(c, m)
  BY DEF QueuedWasSent, Waiting, Origin

\* The same of the next state.
LEMMA QueuedOriginNext ==
    QueuedWasSent' <=> \A c \in Chan : \A m : Waiting(c, m)' => Origin(c, m)'
  BY DEF QueuedWasSent, Waiting, Origin

\* A step that only adds to the log keeps every origin.
LEMMA OriginKept ==
    ASSUME \A i \in DOMAIN history : i \in DOMAIN history'
                                     /\ history'[i] = history[i]
    PROVE  \A c \in Chan : \A m : Origin(c, m) => Origin(c, m)'
  BY DEF Origin

\* A move event says nothing of messages.
LEMMA TracedSend ==
    ASSUME TypeInv, Traced, NEW b \in Branch, NEW v \in Var,
           NEW t \in Branch \union {NoBranch}, Send(b, v, t)
    PROVE  Traced'
<1> DEFINE e == [kind |-> "move", branch |-> b, var |-> v, target |-> t]
<1>1. e \in CausalEvent /\ e.kind = "move"
  BY DEF CausalEvent, MoveEvent
<1>2. history' = Append(history, e)
  BY DEF Send
<1>3. /\ nextId' = nextId + 1
      /\ UNCHANGED <<channels, pending, unsent>>
  BY DEF Send, queueVars, ghostVars
<1> HIDE DEF e
<1>4. /\ DOMAIN history' = 1 .. Len(history) + 1
      /\ \A i \in DOMAIN history : history'[i] = history[i]
      /\ history'[Len(history) + 1].kind = "move"
  BY <1>1, <1>2, LogGrows DEF TypeInv
<1>5. /\ DOMAIN history = 1 .. Len(history) /\ Len(history) \in Nat
      /\ \A i \in DOMAIN history : history[i] \in CausalEvent
      /\ nextId \in Nat
  BY Positions DEF TypeInv, TypeOK
<1>6. SentOnce'
  <2>1. \A i \in DOMAIN history : history[i].kind = "send" =>
          history[i].id \in Nat
    BY <1>5, EventType DEF SendEvent
  <2> QED
    BY <1>3, <1>4, <1>5, <2>1 DEF Traced, SentOnce
<1>7. ReceivedWasSent'
  BY <1>4, <1>5 DEF Traced, ReceivedWasSent
<1>8. QueuedWasSent'
  <2>1. \A c \in Chan : \A m : Waiting(c, m)' => Waiting(c, m)
    BY <1>3 DEF Waiting
  <2>2. \A c \in Chan : \A m : Origin(c, m) => Origin(c, m)'
    BY <1>4, <1>5, OriginKept
  <2> QED
    BY <2>1, <2>2, QueuedOrigin, QueuedOriginNext DEF Traced
<1>9. \A id : Received(id) <=> Received(id)'
  BY <1>4, <1>5 DEF Received
<1>10. SoleCopy'
  BY <1>3, <1>9 DEF Traced, SoleCopy
<1>11. UnsentGone'
  <2>1. \A id \in unsent' : id < nextId'
    BY <1>3, <1>5 DEF Traced, UnsentGone, TypeInv, TypeOK
  <2>2. UnsentNeverSurfaces'
    BY <1>3, <1>9
       DEF Traced, UnsentGone, UnsentNeverSurfaces, Queued, InQueue
  <2> QED
    BY <2>1, <2>2 DEF UnsentGone
<1> QED
  BY <1>6, <1>7, <1>8, <1>10, <1>11 DEF Traced

\* Opening a channel only removes messages.
LEMMA TracedOpen ==
    ASSUME TypeInv, Traced, NEW b \in Branch, NEW c \in Chan, ChannelOpen(b, c)
    PROVE  Traced'
<1>1. /\ channels' = [channels EXCEPT ![c] = <<>>]
      /\ pending' = [pending EXCEPT ![c] = <<>>]
      /\ UNCHANGED <<history, nextId, unsent>>
  BY DEF ChannelOpen, ghostVars
<1>2. \A d \in Chan :
        \/ channels'[d] = channels[d] /\ pending'[d] = pending[d]
        \/ DOMAIN channels'[d] = {} /\ DOMAIN pending'[d] = {}
  BY <1>1 DEF TypeInv, TypeOK
<1>3. \A id : Received(id)' <=> Received(id)
  BY <1>1 DEF Received
<1>4. SentOnce' /\ ReceivedWasSent'
  BY <1>1 DEF Traced, SentOnce, ReceivedWasSent
<1>5. QueuedWasSent'
  BY <1>1, <1>2 DEF Traced, QueuedWasSent
<1>6. SoleCopy'
  BY <1>2, <1>3 DEF Traced, SoleCopy
<1>7. UnsentGone'
  BY <1>1, <1>2, <1>3
     DEF Traced, UnsentGone, UnsentNeverSurfaces, Queued, InQueue
<1> QED
  BY <1>4, <1>5, <1>6, <1>7 DEF Traced

\* next_payload_id is above every id in use.
LEMMA FreshId ==
    ASSUME SentOnce, QueuedWasSent
    PROVE  \A c \in Chan : \A m : Waiting(c, m) => m.id < nextId
<1> SUFFICES ASSUME NEW c \in Chan, NEW m, Waiting(c, m) PROVE m.id < nextId
  OBVIOUS
<1>1. PICK i \in DOMAIN history :
         history[i] = [kind |-> "send", branch |-> m.sender, chan |-> c,
                       id |-> m.id]
  BY QueuedOrigin DEF Origin
<1> QED
  BY <1>1 DEF SentOnce

\* A queued id belongs to a waiting message.
LEMMA QueuedWaiting ==
    /\ \A c \in Chan : \A id : Queued(c, id) <=> \E m : Waiting(c, m) /\ m.id = id
    /\ \A c \in Chan : \A id :
         Queued(c, id)' <=> \E m : Waiting(c, m)' /\ m.id = id
  BY DEF Queued, InQueue, Waiting

\* A sent message has a new id and its event is at the end of the log.
LEMMA TracedChannelSend ==
    ASSUME TypeInv, Traced, NEW b \in Branch, NEW v \in Var, NEW c \in Chan,
           ChannelSend(b, v, c)
    PROVE  Traced'
<1> DEFINE L == Len(history)
<1>1. PICK e \in CausalEvent :
        /\ history' = Append(history, e)
        /\ e = [kind |-> "send", branch |-> b, chan |-> c, id |-> nextId]
  <2>1. [kind |-> "send", branch |-> b, chan |-> c, id |-> nextId]
          \in CausalEvent
    BY DEF CausalEvent, SendEvent, TypeInv, TypeOK
  <2> QED
    BY <2>1 DEF ChannelSend
<1>2. PICK m \in Message :
        m = [id |-> nextId, sender |-> b, payload |-> timeline[b].arena[v]]
  BY ValidIsValue DEF ChannelSend, TypeInv, TypeOK, Message
<1>3. nextId' = nextId + 1 /\ unsent' = unsent
  BY DEF ChannelSend, ghostVars
<1>4. \/ UNCHANGED <<channels, pending>>
      \/ channels' = [channels EXCEPT ![c] = Append(@, m)] /\ pending' = pending
      \/ pending' = [pending EXCEPT ![c] = Append(@, m)] /\ channels' = channels
  BY <1>2 DEF ChannelSend
<1>5. /\ DOMAIN history' = 1 .. L + 1
      /\ \A i \in DOMAIN history : history'[i] = history[i]
      /\ history'[L + 1] = e
  BY <1>1, LogGrows DEF TypeInv
<1>6. /\ DOMAIN history = 1 .. L /\ L \in Nat /\ nextId \in Nat
      /\ \A i \in DOMAIN history : history[i] \in CausalEvent
  BY Positions DEF TypeInv, TypeOK
<1> HIDE DEF L
<1>7. \A i \in DOMAIN history : history[i].kind = "send" =>
        history[i].id \in Nat /\ history[i].id < nextId
  BY <1>6, EventType DEF SendEvent, Traced, SentOnce
<1>8. SentOnce'
  BY <1>1, <1>3, <1>5, <1>6, <1>7 DEF Traced, SentOnce
<1>9. ReceivedWasSent'
  BY <1>1, <1>5, <1>6 DEF Traced, ReceivedWasSent
<1>10. \A id : Received(id)' <=> Received(id)
  BY <1>1, <1>5, <1>6 DEF Received
<1>11. /\ \A d \in Chan \ {c} :
            channels'[d] = channels[d] /\ pending'[d] = pending[d]
       /\ \/ channels'[c] = channels[c] /\ pending'[c] = pending[c]
          \/ channels'[c] = Append(channels[c], m) /\ pending'[c] = pending[c]
          \/ channels'[c] = channels[c] /\ pending'[c] = Append(pending[c], m)
  BY <1>4 DEF TypeInv, TypeOK
<1> DEFINE C == channels[c]
           P == pending[c]
<1>12. /\ C \in Seq(Message) /\ DOMAIN C = 1 .. Len(C) /\ Len(C) \in Nat
       /\ P \in Seq(Message) /\ DOMAIN P = 1 .. Len(P) /\ Len(P) \in Nat
  BY Positions DEF TypeInv, TypeOK
<1>13. /\ DOMAIN Append(C, m) = 1 .. Len(C) + 1
       /\ \A i \in 1 .. Len(C) : Append(C, m)[i] = C[i]
       /\ Append(C, m)[Len(C) + 1] = m
       /\ DOMAIN Append(P, m) = 1 .. Len(P) + 1
       /\ \A i \in 1 .. Len(P) : Append(P, m)[i] = P[i]
       /\ Append(P, m)[Len(P) + 1] = m
  BY <1>12, PushProperties, SeqElements
<1>14. \A d \in Chan : \A n : Waiting(d, n)' => Waiting(d, n) \/ (d = c /\ n = m)
  <2> SUFFICES ASSUME NEW d \in Chan, NEW n, Waiting(d, n)'
               PROVE  Waiting(d, n) \/ (d = c /\ n = m)
    OBVIOUS
  <2>1. CASE d # c
    BY <1>11, <2>1 DEF Waiting
  <2>2. CASE d = c /\ channels'[c] = C /\ pending'[c] = P
    BY <2>2 DEF Waiting
  <2>3. CASE d = c /\ channels'[c] = Append(C, m) /\ pending'[c] = P
    BY <1>12, <1>13, <2>3 DEF Waiting
  <2>4. CASE d = c /\ channels'[c] = C /\ pending'[c] = Append(P, m)
    BY <1>12, <1>13, <2>4 DEF Waiting
  <2> QED
    BY <1>11, <2>1, <2>2, <2>3, <2>4
<1>15. QueuedWasSent'
  <2>1. \A d \in Chan : \A n : Origin(d, n) => Origin(d, n)'
    BY <1>5, <1>6, OriginKept
  <2>2. Origin(c, m)'
    BY <1>1, <1>2, <1>5, <1>6 DEF Origin
  <2> QED
    BY <1>14, <2>1, <2>2, QueuedOrigin, QueuedOriginNext DEF Traced
<1>16. \A n : Waiting(c, n) => n.id # nextId
  BY <1>6, FreshId DEF Traced
<1>17. SoleCopy'
  <2>1. \A d \in Chan \ {c} :
          /\ DOMAIN channels'[d] = DOMAIN channels[d]
          /\ DOMAIN pending'[d] = DOMAIN pending[d]
    BY <1>11
  <2>2. /\ \A p \in DOMAIN channels[c] : channels[c][p].id # nextId
        /\ \A p \in DOMAIN pending[c] : pending[c][p].id # nextId
    BY <1>16 DEF Waiting
  <2>3. /\ \A p, q \in DOMAIN channels'[c] :
             channels'[c][p].id = channels'[c][q].id =>
                 p = q \/ Received(channels'[c][p].id)
        /\ \A p, q \in DOMAIN pending'[c] :
             pending'[c][p].id = pending'[c][q].id =>
                 p = q \/ Received(pending'[c][p].id)
        /\ \A p \in DOMAIN channels'[c], q \in DOMAIN pending'[c] :
             channels'[c][p].id = pending'[c][q].id =>
                 Received(channels'[c][p].id)
    <3>1. /\ \A p, q \in DOMAIN C : C[p].id = C[q].id =>
                  p = q \/ Received(C[p].id)
          /\ \A p, q \in DOMAIN P : P[p].id = P[q].id =>
                  p = q \/ Received(P[p].id)
          /\ \A p \in DOMAIN C, q \in DOMAIN P : C[p].id = P[q].id =>
                  Received(C[p].id)
          /\ \A p \in DOMAIN C : C[p].id # m.id
          /\ \A p \in DOMAIN P : P[p].id # m.id
      BY <1>2, <2>2 DEF Traced, SoleCopy
    <3> HIDE DEF C, P
    <3>2. CASE channels'[c] = C /\ pending'[c] = P
      BY <3>1, <3>2
    <3>3. CASE channels'[c] = Append(C, m) /\ pending'[c] = P
      BY <1>12, <1>13, <3>1, <3>3
    <3>4. CASE channels'[c] = C /\ pending'[c] = Append(P, m)
      BY <1>12, <1>13, <3>1, <3>4
    <3> QED
      BY <1>11, <3>2, <3>3, <3>4 DEF C, P
  <2> QED
    BY <1>10, <1>11, <2>3 DEF Traced, SoleCopy
<1>18. UnsentGone'
  <2>1. \A id \in unsent' : id \in Nat /\ id < nextId /\ id < nextId'
    BY <1>3, <1>6 DEF Traced, UnsentGone, TypeInv, TypeOK
  <2>2. \A id \in unsent' : \A d \in Chan : ~Queued(d, id)'
    <3> SUFFICES ASSUME NEW id \in unsent', NEW d \in Chan, NEW n,
                        Waiting(d, n)', n.id = id
                 PROVE  FALSE
      BY QueuedWaiting
    <3>1. Waiting(d, n)
      BY <1>2, <1>6, <1>14, <2>1
    <3> QED
      BY <1>3, <3>1, QueuedWaiting DEF Traced, UnsentGone, UnsentNeverSurfaces
  <2> QED
    BY <1>3, <1>10, <2>1, <2>2 DEF Traced, UnsentGone, UnsentNeverSurfaces
<1> QED
  BY <1>8, <1>9, <1>15, <1>17, <1>18 DEF Traced

\* The message received is the one at the head of the queue.
LEMMA TracedReceive ==
    ASSUME TypeInv, Traced, NEW b \in Branch, NEW v \in Var, NEW c \in Chan,
           ChannelReceive(b, v, c)
    PROVE  Traced'
<1> DEFINE L == Len(history)
           C == channels[c]
<1>1. PICK m \in Message :
        /\ m = Head(C)
        /\ m = C[1]
        /\ C \in Seq(Message) /\ Len(C) \in Nat \ {0}
        /\ DOMAIN C = 1 .. Len(C)
        /\ DOMAIN Tail(C) = 1 .. Len(C) - 1
        /\ \A p \in 1 .. Len(C) - 1 : Tail(C)[p] = C[p + 1]
  <2>1. C \in Seq(Message) /\ C # <<>>
    BY DEF ChannelReceive, TypeInv, TypeOK
  <2> HIDE DEF C
  <2>2. Len(C) \in Nat \ {0} /\ DOMAIN C = 1 .. Len(C)
    BY <2>1, EmptySeq, SeqElements
  <2>3. /\ Head(C) \in Message
        /\ Tail(C) \in Seq(Message) /\ Len(Tail(C)) = Len(C) - 1
        /\ \A p \in 1 .. Len(Tail(C)) : Tail(C)[p] = C[p + 1]
    BY <2>1, HeadTailProperties
  <2>4. Head(C) = C[1]
    BY <2>1
  <2> QED
    BY <2>1, <2>2, <2>3, <2>4, SeqElements
<1>2. PICK e \in CausalEvent :
        /\ history' = Append(history, e)
        /\ e = [kind |-> "recv", branch |-> b, chan |-> c, message |-> m]
  <2>1. [kind |-> "recv", branch |-> b, chan |-> c, message |-> m]
          \in CausalEvent
    BY DEF CausalEvent, RecvEvent
  <2> QED
    BY <1>1, <2>1 DEF ChannelReceive
<1>3. /\ channels' = [channels EXCEPT ![c] = Tail(C)]
      /\ UNCHANGED <<pending, nextId, unsent>>
  BY DEF ChannelReceive, ghostVars
<1>4. /\ channels'[c] = Tail(C)
      /\ \A d \in Chan \ {c} : channels'[d] = channels[d]
  BY <1>3 DEF TypeInv, TypeOK
<1>5. /\ DOMAIN history' = 1 .. L + 1
      /\ \A i \in DOMAIN history : history'[i] = history[i]
      /\ history'[L + 1] = e
  BY <1>2, LogGrows DEF TypeInv
<1>6. /\ DOMAIN history = 1 .. L /\ L \in Nat
      /\ \A i \in DOMAIN history : history[i] \in CausalEvent
  BY Positions DEF TypeInv
<1>7. \A id : Received(id)' <=> Received(id) \/ id = m.id
  <2>1. \A i \in DOMAIN history' : i \in DOMAIN history \/ i = L + 1
    BY <1>5, <1>6
  <2>2. DOMAIN history \subseteq DOMAIN history' /\ L + 1 \in DOMAIN history'
    BY <1>5, <1>6
  <2> HIDE DEF L
  <2> QED
    BY <1>2, <1>5, <2>1, <2>2 DEF Received
<1> HIDE DEF L, C
<1>8. Waiting(c, m)
  BY <1>1 DEF Waiting, C
<1>9. Origin(c, m)
  BY <1>8, QueuedOrigin DEF Traced
<1>10. \A d \in Chan : \A n : Waiting(d, n)' => Waiting(d, n)
  <2> SUFFICES ASSUME NEW d \in Chan, NEW n, Waiting(d, n)'
               PROVE  Waiting(d, n)
    OBVIOUS
  <2>1. CASE d # c
    BY <1>3, <1>4, <2>1 DEF Waiting
  <2>2. CASE d = c /\ \E p \in DOMAIN pending[c] : pending[c][p] = n
    BY <2>2 DEF Waiting
  <2>3. CASE d = c /\ \E p \in DOMAIN Tail(C) : Tail(C)[p] = n
    <3>1. \A p \in DOMAIN Tail(C) : p + 1 \in DOMAIN C /\ Tail(C)[p] = C[p + 1]
      BY <1>1
    <3> QED
      BY <2>3, <3>1 DEF Waiting, C
  <2> QED
    BY <1>3, <1>4, <2>1, <2>2, <2>3 DEF Waiting
<1>11. SentOnce'
  <2>1. \A i \in DOMAIN history' : history'[i].kind = "send" =>
          i \in DOMAIN history /\ history'[i] = history[i]
    BY <1>2, <1>5, <1>6
  <2> QED
    BY <1>3, <2>1 DEF Traced, SentOnce
<1>12. ReceivedWasSent'
  <2> SUFFICES ASSUME NEW j \in DOMAIN history', history'[j].kind = "recv"
               PROVE  \E i \in 1 .. j - 1 :
                        history'[i] = [kind |-> "send",
                                       branch |-> history'[j].message.sender,
                                       chan |-> history'[j].chan,
                                       id |-> history'[j].message.id]
    BY DEF ReceivedWasSent
  <2>1. CASE j \in DOMAIN history
    BY <1>5, <1>6, <2>1 DEF Traced, ReceivedWasSent
  <2>2. CASE j = L + 1
    <3>1. PICK i \in DOMAIN history :
             history[i] = [kind |-> "send", branch |-> m.sender, chan |-> c,
                           id |-> m.id]
      BY <1>9 DEF Origin
    <3>2. i \in 1 .. j - 1 /\ history'[i] = history[i]
      BY <1>5, <1>6, <2>2
    <3>3. history'[j].message = m /\ history'[j].chan = c
      BY <1>2, <1>5, <2>2
    <3> QED
      BY <3>1, <3>2, <3>3
  <2> QED
    BY <1>5, <1>6, <2>1, <2>2
<1>13. QueuedWasSent'
  <2>1. \A d \in Chan : \A n : Origin(d, n) => Origin(d, n)'
    BY <1>5, <1>6, OriginKept
  <2> QED
    BY <1>10, <2>1, QueuedOrigin, QueuedOriginNext DEF Traced
<1>14. SoleCopy'
  <2>1. /\ \A p, q \in DOMAIN Tail(C) : Tail(C)[p].id = Tail(C)[q].id =>
              p = q \/ Received(Tail(C)[p].id)
        /\ \A p \in DOMAIN Tail(C), q \in DOMAIN pending[c] :
             Tail(C)[p].id = pending[c][q].id => Received(Tail(C)[p].id)
    <3>1. \A p \in DOMAIN Tail(C) : p + 1 \in DOMAIN C /\ Tail(C)[p] = C[p + 1]
      BY <1>1
    <3>2. \A p, q \in DOMAIN Tail(C) : p + 1 = q + 1 => p = q
      BY <1>1
    <3>3. /\ \A p, q \in DOMAIN C : C[p].id = C[q].id =>
                p = q \/ Received(C[p].id)
          /\ \A p \in DOMAIN C, q \in DOMAIN pending[c] :
               C[p].id = pending[c][q].id => Received(C[p].id)
      BY DEF Traced, SoleCopy, C
    <3> QED
      BY <3>1, <3>2, <3>3
  <2> QED
    BY <1>3, <1>4, <1>7, <2>1 DEF Traced, SoleCopy
<1>15. UnsentGone'
  <2>1. m.id \notin unsent
    BY <1>8, QueuedWaiting DEF Traced, UnsentGone, UnsentNeverSurfaces
  <2>2. \A id \in unsent' : \A d \in Chan : ~Queued(d, id)'
    BY <1>3, <1>10, QueuedWaiting
       DEF Traced, UnsentGone, UnsentNeverSurfaces
  <2> QED
    BY <1>3, <1>7, <2>1, <2>2 DEF Traced, UnsentGone, UnsentNeverSurfaces
<1> QED
  BY <1>11, <1>12, <1>13, <1>14, <1>15 DEF Traced

\* A tick moves the pending messages behind the published ones.
LEMMA TracedTick ==
    ASSUME TypeInv, Traced, NEW b \in Branch, Tick(b)
    PROVE  Traced'
<1>1. /\ \A c \in Chan : /\ channels'[c] = channels[c] \o pending[c]
                         /\ pending'[c] = <<>>
      /\ UNCHANGED <<history, nextId, unsent>>
  BY DEF Tick, ghostVars
<1>2. ASSUME NEW c \in Chan, NEW p \in DOMAIN channels'[c]
      PROVE  /\ p \in Nat /\ Len(channels[c]) \in Nat
             /\ p <= Len(channels[c]) =>
                  p \in DOMAIN channels[c] /\ channels'[c][p] = channels[c][p]
             /\ p > Len(channels[c]) =>
                  /\ p - Len(channels[c]) \in DOMAIN pending[c]
                  /\ channels'[c][p] = pending[c][p - Len(channels[c])]
  <2> DEFINE C == channels[c]
             P == pending[c]
  <2>1. C \in Seq(Message) /\ P \in Seq(Message)
    BY DEF TypeInv, TypeOK
  <2>2. channels'[c] = C \o P /\ p \in DOMAIN (C \o P)
    BY <1>1
  <2> HIDE DEF C, P
  <2>3. /\ p \in Nat /\ Len(C) \in Nat
        /\ p <= Len(C) => p \in DOMAIN C /\ (C \o P)[p] = C[p]
        /\ p > Len(C) => p - Len(C) \in DOMAIN P
                          /\ (C \o P)[p] = P[p - Len(C)]
    BY <2>1, <2>2, AppendAllProperties
  <2> QED
    BY <2>2, <2>3 DEF C, P
<1>3. \A c \in Chan : \A m : Waiting(c, m)' => Waiting(c, m)
  <2> SUFFICES ASSUME NEW c \in Chan, NEW m, Waiting(c, m)'
               PROVE  Waiting(c, m)
    OBVIOUS
  <2>1. DOMAIN pending'[c] = {}
    BY <1>1, EmptyDomain
  <2>2. PICK p \in DOMAIN channels'[c] : channels'[c][p] = m
    BY <2>1 DEF Waiting
  <2> QED
    BY <1>2, <2>2 DEF Waiting
<1>4. SentOnce' /\ ReceivedWasSent'
  BY <1>1 DEF Traced, SentOnce, ReceivedWasSent
<1>5. QueuedWasSent'
  <2>1. \A c \in Chan : \A m : Origin(c, m)' <=> Origin(c, m)
    BY <1>1 DEF Origin
  <2> QED
    BY <1>3, <2>1, QueuedOrigin, QueuedOriginNext DEF Traced
<1>6. \A id : Received(id)' <=> Received(id)
  BY <1>1 DEF Received
<1>7. SoleCopy'
  <2> SUFFICES ASSUME NEW c \in Chan, NEW p \in DOMAIN channels'[c],
                      NEW q \in DOMAIN channels'[c],
                      channels'[c][p].id = channels'[c][q].id, p # q
               PROVE  Received(channels'[c][p].id)
    <3>1. \A d \in Chan : DOMAIN pending'[d] = {}
      BY <1>1, EmptyDomain
    <3> QED
      BY <1>6, <3>1 DEF SoleCopy
  <2>1. PICK k \in Nat : k = Len(channels[c])
    BY <1>2
  <2>2. /\ p \in Nat /\ q \in Nat
        /\ p <= k => p \in DOMAIN channels[c]
                      /\ channels'[c][p] = channels[c][p]
        /\ q <= k => q \in DOMAIN channels[c]
                      /\ channels'[c][q] = channels[c][q]
        /\ p > k => p - k \in DOMAIN pending[c]
                     /\ channels'[c][p] = pending[c][p - k]
        /\ q > k => q - k \in DOMAIN pending[c]
                     /\ channels'[c][q] = pending[c][q - k]
    BY <1>2, <2>1
  <2>3. /\ \A i, j \in DOMAIN channels[c] :
             channels[c][i].id = channels[c][j].id =>
                 i = j \/ Received(channels[c][i].id)
        /\ \A i, j \in DOMAIN pending[c] :
             pending[c][i].id = pending[c][j].id =>
                 i = j \/ Received(pending[c][i].id)
        /\ \A i \in DOMAIN channels[c], j \in DOMAIN pending[c] :
             channels[c][i].id = pending[c][j].id =>
                 Received(channels[c][i].id)
    BY DEF Traced, SoleCopy
  <2>4. CASE p <= k /\ q <= k
    BY <2>2, <2>3, <2>4
  <2>5. CASE p <= k /\ q > k
    BY <2>2, <2>3, <2>5
  <2>6. CASE p > k /\ q <= k
    BY <2>2, <2>3, <2>6
  <2>7. CASE p > k /\ q > k
    <3>1. p - k # q - k
      BY <2>2
    <3> QED
      BY <2>2, <2>3, <2>7, <3>1
  <2> QED
    BY <2>2, <2>4, <2>5, <2>6, <2>7
<1>8. UnsentGone'
  BY <1>1, <1>3, <1>6, QueuedWaiting
     DEF Traced, UnsentGone, UnsentNeverSurfaces
<1> QED
  BY <1>4, <1>5, <1>7, <1>8 DEF Traced

\* An undone receive gives back a message that is known to be received, so
\* that its copies do not count, and that cannot have been taken back.
LEMMA TracedUndoRecv ==
    ASSUME TypeInv, Traced, UndoRecv
    PROVE  Traced'
<1>1. PICK c \in Chan, m \in Message :
        /\ c = Event.chan /\ m = Event.message
        /\ control.at \in DOMAIN history
        /\ history[control.at].kind = "recv"
        /\ history[control.at].chan = c
        /\ history[control.at].message = m
  <2>1. Undo /\ Event.kind = "recv"
    BY DEF UndoRecv
  <2>2. Event.chan \in Chan /\ Event.message \in Message
    BY <2>1, UndoType, EventType DEF RecvEvent
  <2> QED
    BY <2>1, <2>2, UndoType, Positions DEF Event, TypeInv
<1>2. /\ channels' = [channels EXCEPT ![c] = <<m>> \o channels[c]]
      /\ UNCHANGED <<pending, history, nextId, unsent>>
  BY <1>1 DEF UndoRecv, ghostVars
<1>3. /\ channels'[c] = <<m>> \o channels[c]
      /\ \A d \in Chan \ {c} : channels'[d] = channels[d]
  BY <1>2 DEF TypeInv, TypeOK
<1> DEFINE C == channels[c]
           D == <<m>> \o C
<1>4. /\ C \in Seq(Message) /\ Len(C) \in Nat /\ DOMAIN C = 1 .. Len(C)
      /\ DOMAIN D = 1 .. Len(C) + 1
      /\ \A p \in DOMAIN D : D[p] = IF p = 1 THEN m ELSE C[p - 1]
  <2>1. C \in Seq(Message)
    BY DEF TypeInv, TypeOK
  <2> HIDE DEF C
  <2>2. /\ D \in Seq(Message) /\ Len(D) = Len(C) + 1
        /\ \A p \in 1 .. Len(C) + 1 : D[p] = IF p = 1 THEN m ELSE C[p - 1]
    BY <2>1, PushFrontProperties
  <2> QED
    BY <2>1, <2>2, SeqElements
<1>5. Received(m.id)
  BY <1>1 DEF Received
<1>6. Origin(c, m)
  <2>1. PICK i \in 1 .. control.at - 1 :
           history[i] = [kind |-> "send", branch |-> m.sender, chan |-> c,
                         id |-> m.id]
    BY <1>1 DEF Traced, ReceivedWasSent
  <2>2. i \in DOMAIN history
    BY <1>1, Positions DEF TypeInv
  <2> QED
    BY <2>1, <2>2 DEF Origin
<1>7. \A id : Received(id)' <=> Received(id)
  BY <1>2 DEF Received
<1> HIDE DEF C, D
<1>8. \A p \in DOMAIN D : D[p] = m \/ (p - 1 \in DOMAIN C /\ D[p] = C[p - 1])
  BY <1>4
<1>9. channels'[c] = D
  BY <1>3 DEF C, D
<1>10. \A d \in Chan : \A n : Waiting(d, n)' => Waiting(d, n) \/ (d = c /\ n = m)
  <2> SUFFICES ASSUME NEW d \in Chan, NEW n, Waiting(d, n)'
               PROVE  Waiting(d, n) \/ (d = c /\ n = m)
    OBVIOUS
  <2>1. CASE d # c
    BY <1>2, <1>3, <2>1 DEF Waiting
  <2>2. CASE d = c
    BY <1>2, <1>8, <1>9, <2>2 DEF Waiting, C
  <2> QED
    BY <2>1, <2>2
<1>11. SentOnce' /\ ReceivedWasSent'
  BY <1>2 DEF Traced, SentOnce, ReceivedWasSent
<1>12. QueuedWasSent'
  <2>1. \A d \in Chan : \A n : Origin(d, n) => Origin(d, n)'
    BY <1>2 DEF Origin
  <2> QED
    BY <1>6, <1>10, <2>1, QueuedOrigin, QueuedOriginNext DEF Traced
<1>13. SoleCopy'
  <2>1. /\ \A p, q \in DOMAIN C : C[p].id = C[q].id =>
              p = q \/ Received(C[p].id)
        /\ \A p \in DOMAIN C, q \in DOMAIN pending[c] :
             C[p].id = pending[c][q].id => Received(C[p].id)
    BY DEF Traced, SoleCopy, C
  <2>2. \A p, q \in DOMAIN D : D[p].id = D[q].id =>
          p = q \/ Received(D[p].id)
    <3>1. \A p, q \in DOMAIN D : p - 1 = q - 1 => p = q
      BY <1>4
    <3> QED
      BY <1>5, <1>8, <2>1, <3>1
  <2>3. \A p \in DOMAIN D, q \in DOMAIN pending[c] :
          D[p].id = pending[c][q].id => Received(D[p].id)
    BY <1>5, <1>8, <2>1
  <2> QED
    <3> SUFFICES ASSUME NEW d \in Chan
                 PROVE  /\ \A p, q \in DOMAIN channels'[d] :
                             channels'[d][p].id = channels'[d][q].id =>
                                 p = q \/ Received(channels'[d][p].id)
                        /\ \A p, q \in DOMAIN pending[d] :
                             pending[d][p].id = pending[d][q].id =>
                                 p = q \/ Received(pending[d][p].id)
                        /\ \A p \in DOMAIN channels'[d], q \in DOMAIN pending[d] :
                             channels'[d][p].id = pending[d][q].id =>
                                 Received(channels'[d][p].id)
      BY <1>2, <1>7 DEF SoleCopy
    <3>1. CASE d = c
      BY <1>9, <2>2, <2>3, <3>1 DEF Traced, SoleCopy
    <3>2. CASE d # c
      BY <1>3, <3>2 DEF Traced, SoleCopy
    <3> QED
      BY <3>1, <3>2
<1>14. UnsentGone'
  <2>1. m.id \notin unsent
    BY <1>5 DEF Traced, UnsentGone, UnsentNeverSurfaces
  <2>2. \A id \in unsent' : \A d \in Chan : ~Queued(d, id)'
    BY <1>2, <1>10, <2>1, QueuedWaiting
       DEF Traced, UnsentGone, UnsentNeverSurfaces
  <2> QED
    BY <1>2, <1>7, <2>2 DEF Traced, UnsentGone, UnsentNeverSurfaces
<1> QED
  BY <1>11, <1>12, <1>13, <1>14 DEF Traced

\* A message with nobody's receive after its send was received by nobody.
LEMMA NeverReceived ==
    ASSUME TypeInv, Traced, NEW i \in DOMAIN history,
           history[i].kind = "send",
           ~ReceivedAfter(i, history[i].chan, history[i].id)
    PROVE  ~Received(history[i].id)
<1> SUFFICES ASSUME NEW j \in DOMAIN history, history[j].kind = "recv",
                    history[j].message.id = history[i].id
             PROVE  FALSE
  BY DEF Received
<1>1. DOMAIN history = 1 .. Len(history) /\ Len(history) \in Nat
  BY Positions DEF TypeInv
<1>2. PICK k \in 1 .. j - 1 :
         history[k] = [kind |-> "send", branch |-> history[j].message.sender,
                       chan |-> history[j].chan, id |-> history[j].message.id]
  BY DEF Traced, ReceivedWasSent
<1>3. k \in DOMAIN history
  BY <1>1
<1>4. k = i
  BY <1>2, <1>3 DEF Traced, SentOnce
<1>5. j \in i + 1 .. Len(history) /\ history[j].chan = history[i].chan
  BY <1>1, <1>2, <1>4
<1> QED
  BY <1>5 DEF ReceivedAfter

\* One queue, t beside s, loses its copy of a message that is nowhere else.
LEMMA RemoveSoleCopy ==
    ASSUME NEW s \in Seq(Message), NEW t \in Seq(Message), NEW p \in DOMAIN s,
           NEW R,
           \A i, j \in DOMAIN s : s[i].id = s[j].id => i = j \/ s[i].id \in R,
           \A i \in DOMAIN s, j \in DOMAIN t :
              s[i].id = t[j].id => s[i].id \in R,
           s[p].id \notin R
    PROVE  LET r == RemoveAt(s, p)
           IN  /\ \A i \in DOMAIN r : \E k \in DOMAIN s : r[i] = s[k]
               /\ \A i \in DOMAIN r : r[i].id # s[p].id
               /\ \A j \in DOMAIN t : t[j].id # s[p].id
               /\ \A i, j \in DOMAIN r :
                    r[i].id = r[j].id => i = j \/ r[i].id \in R
<1> DEFINE r == RemoveAt(s, p)
           old(i) == IF i < p THEN i ELSE i + 1
<1>1. DOMAIN s = 1 .. Len(s) /\ Len(s) \in Nat /\ p \in 1 .. Len(s)
  BY SeqElements
<1>2. /\ DOMAIN r = 1 .. Len(s) - 1
      /\ \A i \in 1 .. Len(s) - 1 : r[i] = IF i < p THEN s[i] ELSE s[i + 1]
  <2>1. /\ r \in Seq(Message) /\ Len(r) = Len(s) - 1
        /\ \A i \in 1 .. Len(s) - 1 : r[i] = IF i < p THEN s[i] ELSE s[i + 1]
    BY <1>1, RemoveAtProperties
  <2> HIDE DEF r
  <2> QED
    BY <2>1, SeqElements
<1> HIDE DEF r
<1>3. \A i \in DOMAIN r : old(i) \in DOMAIN s /\ old(i) # p /\ r[i] = s[old(i)]
  BY <1>1, <1>2
<1>4. \A i, j \in DOMAIN r : old(i) = old(j) => i = j
  BY <1>1, <1>2
<1> HIDE DEF old
<1>5. \A i \in DOMAIN r : r[i].id # s[p].id
  BY <1>3
<1>6. \A i, j \in DOMAIN r : r[i].id = r[j].id => i = j \/ r[i].id \in R
  BY <1>3, <1>4
<1> QED
  BY <1>3, <1>5, <1>6 DEF r

\* The ids of the messages that were received.
ReceivedIds == {history[j].message.id :
                  j \in {k \in DOMAIN history : history[k].kind = "recv"}}

\* ReceivedIds collects the ids of the received messages.
LEMMA ReceivedIdsMembers == \A id : Received(id) <=> id \in ReceivedIds
  BY DEF Received, ReceivedIds

\* An undone send takes away the only copy of its message.
LEMMA TracedUndoSend ==
    ASSUME TypeInv, Traced, UndoSend
    PROVE  Traced'
<1>1. PICK c \in Chan, id \in Nat, b \in Branch :
        /\ c = Event.chan /\ id = Event.id
        /\ control.at \in DOMAIN history
        /\ history[control.at]
             = [kind |-> "send", branch |-> b, chan |-> c, id |-> id]
  <2>1. Undo /\ Event.kind = "send"
    BY DEF UndoSend
  <2>2. Event \in SendEvent
    BY <2>1, UndoType, EventType
  <2>3. control.at \in DOMAIN history
    BY <2>1, UndoType, Positions DEF TypeInv
  <2>4. Event = [kind |-> "send", branch |-> Event.branch,
                 chan |-> Event.chan, id |-> Event.id]
        /\ Event.branch \in Branch /\ Event.chan \in Chan /\ Event.id \in Nat
    BY <2>2 DEF SendEvent
  <2> QED
    BY <2>3, <2>4 DEF Event
<1>2. UNCHANGED <<history, nextId>>
  BY DEF UndoSend
<1>3. CASE UNCHANGED <<channels, pending, unsent>>
  BY <1>2, <1>3, TracedFrame
<1> DEFINE C == channels[c]
           P == pending[c]
<1>4. CASE /\ ~ReceivedAfter(control.at, c, id)
           /\ unsent' = unsent \union {id}
           /\ \/ /\ pending' = pending
                 /\ \E p \in DOMAIN C :
                      /\ C[p].id = id
                      /\ channels' = [channels EXCEPT ![c] = RemoveAt(C, p)]
              \/ /\ channels' = channels
                 /\ \E p \in DOMAIN P :
                      /\ P[p].id = id
                      /\ pending' = [pending EXCEPT ![c] = RemoveAt(P, p)]
  <2>1. ~Received(id)
    <3>1. history[control.at].kind = "send" /\ history[control.at].chan = c
          /\ history[control.at].id = id
      BY <1>1
    <3> QED
      BY <1>1, <1>4, <3>1, NeverReceived
  <2>2. C \in Seq(Message) /\ P \in Seq(Message)
    BY DEF TypeInv, TypeOK
  <2>3. /\ \A p, q \in DOMAIN C : C[p].id = C[q].id =>
             p = q \/ C[p].id \in ReceivedIds
        /\ \A p, q \in DOMAIN P : P[p].id = P[q].id =>
             p = q \/ P[p].id \in ReceivedIds
        /\ \A p \in DOMAIN C, q \in DOMAIN P : C[p].id = P[q].id =>
             C[p].id \in ReceivedIds
    BY ReceivedIdsMembers DEF Traced, SoleCopy
  <2>4. id \notin ReceivedIds
    BY <2>1, ReceivedIdsMembers
  <2> DEFINE CN == channels'[c]
             PN == pending'[c]
  <2>5. /\ \A p \in DOMAIN CN : \E k \in DOMAIN C : CN[p] = C[k]
        /\ \A p \in DOMAIN PN : \E k \in DOMAIN P : PN[p] = P[k]
        /\ \A p \in DOMAIN CN : CN[p].id # id
        /\ \A p \in DOMAIN PN : PN[p].id # id
        /\ \A p, q \in DOMAIN CN : CN[p].id = CN[q].id =>
             p = q \/ CN[p].id \in ReceivedIds
        /\ \A p, q \in DOMAIN PN : PN[p].id = PN[q].id =>
             p = q \/ PN[p].id \in ReceivedIds
        /\ \A d \in Chan \ {c} : channels'[d] = channels[d]
                                 /\ pending'[d] = pending[d]
    <3>1. CASE /\ pending' = pending
               /\ \E p \in DOMAIN C :
                    /\ C[p].id = id
                    /\ channels' = [channels EXCEPT ![c] = RemoveAt(C, p)]
      <4>1. PICK p \in DOMAIN C :
               /\ C[p].id = id
               /\ channels' = [channels EXCEPT ![c] = RemoveAt(C, p)]
        BY <3>1
      <4>2. /\ CN = RemoveAt(C, p) /\ PN = P
            /\ \A d \in Chan \ {c} : channels'[d] = channels[d]
                                     /\ pending'[d] = pending[d]
        BY <3>1, <4>1 DEF TypeInv, TypeOK
      <4> HIDE DEF C, P, CN, PN
      <4>3. /\ \A i \in DOMAIN CN : \E k \in DOMAIN C : CN[i] = C[k]
            /\ \A i \in DOMAIN CN : CN[i].id # C[p].id
            /\ \A j \in DOMAIN P : P[j].id # C[p].id
            /\ \A i, j \in DOMAIN CN : CN[i].id = CN[j].id =>
                 i = j \/ CN[i].id \in ReceivedIds
        BY <2>2, <2>3, <2>4, <4>1, <4>2, RemoveSoleCopy
      <4> QED
        BY <2>3, <4>1, <4>2, <4>3
    <3>2. CASE /\ channels' = channels
               /\ \E p \in DOMAIN P :
                    /\ P[p].id = id
                    /\ pending' = [pending EXCEPT ![c] = RemoveAt(P, p)]
      <4>1. PICK p \in DOMAIN P :
               /\ P[p].id = id
               /\ pending' = [pending EXCEPT ![c] = RemoveAt(P, p)]
        BY <3>2
      <4>2. /\ PN = RemoveAt(P, p) /\ CN = C
            /\ \A d \in Chan \ {c} : channels'[d] = channels[d]
                                     /\ pending'[d] = pending[d]
        BY <3>2, <4>1 DEF TypeInv, TypeOK
      <4> HIDE DEF C, P, CN, PN
      <4>3. \A i \in DOMAIN P, j \in DOMAIN C :
              P[i].id = C[j].id => P[i].id \in ReceivedIds
        BY <2>3
      <4>4. /\ \A i \in DOMAIN PN : \E k \in DOMAIN P : PN[i] = P[k]
            /\ \A i \in DOMAIN PN : PN[i].id # P[p].id
            /\ \A j \in DOMAIN C : C[j].id # P[p].id
            /\ \A i, j \in DOMAIN PN : PN[i].id = PN[j].id =>
                 i = j \/ PN[i].id \in ReceivedIds
        BY <2>2, <2>3, <2>4, <4>1, <4>2, <4>3, RemoveSoleCopy
      <4> QED
        BY <2>3, <4>1, <4>2, <4>4
    <3> QED
      BY <1>4, <3>1, <3>2
  <2>6. \A d \in Chan : \A n : Waiting(d, n)' => Waiting(d, n)
    BY <2>5 DEF Waiting
  <2>7. \A x : Received(x)' <=> Received(x)
    BY <1>2 DEF Received
  <2>8. SentOnce' /\ ReceivedWasSent'
    BY <1>2 DEF Traced, SentOnce, ReceivedWasSent
  <2>9. QueuedWasSent'
    <3>1. \A d \in Chan : \A n : Origin(d, n)' <=> Origin(d, n)
      BY <1>2 DEF Origin
    <3> QED
      BY <2>6, <3>1, QueuedOrigin, QueuedOriginNext DEF Traced
  <2>10. SoleCopy'
    <3>1. \A p \in DOMAIN CN, q \in DOMAIN PN : CN[p].id = PN[q].id =>
            CN[p].id \in ReceivedIds
      <4> HIDE DEF C, P, CN, PN
      <4> QED
        BY <2>3, <2>5
    <3> SUFFICES ASSUME NEW d \in Chan
                 PROVE  /\ \A p, q \in DOMAIN channels'[d] :
                             channels'[d][p].id = channels'[d][q].id =>
                                 p = q \/ Received(channels'[d][p].id)
                        /\ \A p, q \in DOMAIN pending'[d] :
                             pending'[d][p].id = pending'[d][q].id =>
                                 p = q \/ Received(pending'[d][p].id)
                        /\ \A p \in DOMAIN channels'[d], q \in DOMAIN pending'[d] :
                             channels'[d][p].id = pending'[d][q].id =>
                                 Received(channels'[d][p].id)
      BY <2>7 DEF SoleCopy
    <3>2. CASE d = c
      BY <2>5, <3>1, <3>2, ReceivedIdsMembers
    <3>3. CASE d # c
      BY <2>5, <3>3 DEF Traced, SoleCopy
    <3> QED
      BY <3>2, <3>3
  <2>11. UnsentGone'
    <3>1. id < nextId
      BY <1>1 DEF Traced, SentOnce
    <3>2. \A d \in Chan : \A n : Waiting(d, n)' => n.id # id
      <4> SUFFICES ASSUME NEW d \in Chan, NEW n, Waiting(d, n)', n.id = id
                   PROVE  FALSE
        OBVIOUS
      <4>1. Waiting(d, n)
        BY <2>6
      <4>2. Origin(d, n)
        BY <4>1, QueuedOrigin DEF Traced
      <4>3. PICK i \in DOMAIN history :
               history[i] = [kind |-> "send", branch |-> n.sender,
                             chan |-> d, id |-> n.id]
        BY <4>2 DEF Origin
      <4>4. d = c
        BY <1>1, <4>3 DEF Traced, SentOnce
      <4> QED
        BY <2>5, <4>4 DEF Waiting
    <3>3. \A x \in unsent' : \A d \in Chan : ~Queued(d, x)'
      BY <1>4, <2>6, <3>2, QueuedWaiting
         DEF Traced, UnsentGone, UnsentNeverSurfaces
    <3>4. \A x \in unsent' : x < nextId' /\ ~Received(x)'
      BY <1>2, <1>4, <2>1, <2>7, <3>1
         DEF Traced, UnsentGone, UnsentNeverSurfaces
    <3> QED
      BY <3>3, <3>4 DEF UnsentGone, UnsentNeverSurfaces
  <2> QED
    BY <2>8, <2>9, <2>10, <2>11 DEF Traced
<1> QED
  <2>1. CASE RollbackFails("Paradox")
    BY <1>3, <2>1 DEF RollbackFails
  <2>2. CASE ~RollbackFails("Paradox")
    BY <1>1, <1>4, <2>2 DEF UndoSend, FirstAt
  <2> QED
    BY <2>1, <2>2

\* The traceability invariant is inductive.
LEMMA TracedStep ==
    ASSUME "speculate" \notin Stmts, TypeInv, NoSpeculation, Traced,
           [Next]_vars
    PROVE  Traced'
<1>1. ASSUME NEW b \in Branch, Statement(b) PROVE Traced'
  <2>1. CASE UNCHANGED <<channels, pending, history, nextId, unsent>>
    BY <2>1, TracedFrame
  <2>2. CASE \E v \in Var : \E t \in Branch \union {NoBranch} : Send(b, v, t)
    BY <2>2, TracedSend
  <2>3. CASE \E v \in Var, c \in Chan : ChannelSend(b, v, c)
    BY <2>3, TracedChannelSend
  <2>4. CASE \E v \in Var, c \in Chan : ChannelReceive(b, v, c)
    BY <2>4, TracedReceive
  <2>5. CASE \E c \in Chan : ChannelOpen(b, c)
    BY <2>5, TracedOpen
  <2>6. CASE Tick(b)
    BY <2>6, TracedTick
  <2> QED
    BY <1>1, <2>1, <2>2, <2>3, <2>4, <2>5, <2>6
       DEF Statement, Assign, MoveLocal, Slice, SetAnchor, Rewind,
           AcausalReset, CommitBegin, SpeculateBegin, queueVars, ghostVars
<1>2. CASE CommitEnd \/ Fail
  BY <1>2, TracedFrame DEF CommitEnd, Fail, queueVars, ghostVars
<1>3. CASE SpeculateEnd
  BY <1>3, NoSpeculateBlock DEF SpeculateEnd, TopBlock, Top, TypeInv
<1>4. CASE Unwind
  <2>1. blocks # <<>> => Top.kind # "speculate"
    BY NoSpeculateBlock DEF TypeInv
  <2> QED
    BY <1>4, <2>1, TracedFrame DEF Unwind, queueVars, ghostVars
<1>5. CASE Rollback
  <2>1. CASE UndoOther \/ UndoMove \/ FinishRewind \/ FinishReset
    BY <2>1, TracedFrame
       DEF UndoOther, UndoMove, RollbackFails, FinishRewind, FinishReset,
           queueVars, ghostVars
  <2>2. CASE UndoSend
    BY <2>2, TracedUndoSend
  <2>3. CASE UndoRecv
    BY <2>3, TracedUndoRecv
  <2>4. CASE FinishAbort
    BY <2>4 DEF FinishAbort, Undone, NoSpeculation
  <2> QED
    BY <1>5, <2>1, <2>2, <2>3, <2>4 DEF Rollback
<1>6. CASE UNCHANGED vars
  BY <1>6, TracedFrame DEF vars, queueVars, ghostVars
<1> QED
  BY <1>1, <1>2, <1>3, <1>4, <1>5, <1>6 DEF Next

\* In a program that does not speculate every queued and every received
\* message can be traced to its send, and an id is sent once.
THEOREM Traceability ==
    ASSUME "speculate" \notin Stmts
    PROVE  Spec => [](TypeInv /\ NoSpeculation /\ Traced)
<1>1. Init => TypeInv /\ NoSpeculation /\ Traced
  BY InitTypeInv, InitOutflow
<1>2. TypeInv /\ NoSpeculation /\ Traced /\ [Next]_vars
        => (TypeInv /\ NoSpeculation /\ Traced)'
  BY TypeInvStep, NoSpeculationStep, TracedStep
<1> QED
  BY <1>1, <1>2, PTL DEF Spec

\* Causal outflow locking, of every program that does not speculate: what a
\* rewind or a reset takes back never reaches a receiver.
THEOREM OutflowLocking ==
    ASSUME "speculate" \notin Stmts
    PROVE  Spec => []UnsentNeverSurfaces
<1>1. Traced => UnsentNeverSurfaces
  BY DEF Traced, UnsentGone
<1> QED
  BY <1>1, Traceability, PTL

\* A rollback of the sender finds the send of every queued message, in every
\* program that does not speculate.
THEOREM Tracing ==
    ASSUME "speculate" \notin Stmts
    PROVE  Spec => []QueuedWasSent
<1>1. Traced => QueuedWasSent
  BY DEF Traced
<1> QED
  BY <1>1, Traceability, PTL

-----------------------------------------------------------------------------
(* The causal core without speculation implements its channels: each of its *)
(* steps is a step of CausalChannels.                                       *)

\* The deliveries are those of the receive events.
LEMMA DeliveryEvents ==
    \A d : d \in Deliveries <=>
        \E i \in DOMAIN history : /\ history[i].kind = "recv"
                                  /\ d = <<history[i].chan, history[i].message>>
  BY DEF Deliveries

\* An event appended to the log is a delivery only if it is a receive.
LEMMA DeliveriesAppend ==
    ASSUME TypeInv, NEW e \in CausalEvent, history' = Append(history, e)
    PROVE  /\ e.kind # "recv" => Deliveries' = Deliveries
           /\ e.kind = "recv" =>
                Deliveries' = Deliveries \union {<<e.chan, e.message>>}
<1>1. /\ DOMAIN history = 1 .. Len(history) /\ Len(history) \in Nat
      /\ DOMAIN history' = 1 .. Len(history) + 1
      /\ \A i \in 1 .. Len(history) : history'[i] = history[i]
      /\ history'[Len(history) + 1] = e
  BY PushProperties, SeqElements DEF TypeInv, TypeOK
<1>2. \A d : d \in Deliveries' <=>
        \E i \in DOMAIN history' :
            /\ history'[i].kind = "recv"
            /\ d = <<history'[i].chan, history'[i].message>>
  BY DEF Deliveries
<1>3. \A d : d \in Deliveries' <=>
        d \in Deliveries \/ (e.kind = "recv" /\ d = <<e.chan, e.message>>)
  BY <1>1, <1>2, DeliveryEvents
<1> QED
  BY <1>3

\* The log, and with it the deliveries, stay.
LEMMA DeliveriesKept ==
    ASSUME history' = history
    PROVE  Deliveries' = Deliveries
  BY DEF Deliveries

\* A message appended to a queue is in it.
LEMMA AppendedIn ==
    ASSUME NEW s \in Seq(Message), NEW m \in Message
    PROVE  m \in ToSet(Append(s, m))
<1>1. /\ DOMAIN Append(s, m) = 1 .. Len(s) + 1 /\ Len(s) \in Nat
      /\ Append(s, m)[Len(s) + 1] = m
  BY PushProperties, SeqElements
<1> QED
  BY <1>1 DEF ToSet

\* Nothing is open, queued or sent in the initial state.
LEMMA ChannelsInit == Init => Channels!Init
<1> SUFFICES ASSUME Init PROVE Channels!Init
  OBVIOUS
<1>1. DOMAIN history = {}
  BY DEF Init
<1>2. Deliveries = {}
  BY <1>1, DeliveryEvents
<1> QED
  BY <1>2 DEF Init, Channels!Init

\* A statement that reaches no queue, log or number is no step of a channel.
LEMMA ChannelsStutter ==
    ASSUME UNCHANGED <<opened, channels, pending, history, nextId, unsent>>
    PROVE  UNCHANGED Channels!vars
  BY DeliveriesKept DEF Channels!vars

\* A direct send takes a number.
LEMMA SendLoses ==
    ASSUME TypeInv, NEW b \in Branch, NEW v \in Var,
           NEW t \in Branch \union {NoBranch}, Send(b, v, t)
    PROVE  Channels!Lose
<1> DEFINE e == [kind |-> "move", branch |-> b, var |-> v, target |-> t]
<1>1. e \in CausalEvent /\ e.kind # "recv"
  BY DEF CausalEvent, MoveEvent
<1>2. history' = Append(history, e)
  BY DEF Send
<1> HIDE DEF e
<1>3. Deliveries' = Deliveries
  BY <1>1, <1>2, DeliveriesAppend
<1> QED
  BY <1>3 DEF Send, Channels!Lose, Channels!Numbered, queueVars, ghostVars

\* A send to a channel offers its message, defers it under a slice, or loses
\* it when the channel does not exist.
LEMMA ChannelSendOffers ==
    ASSUME TypeInv, NEW b \in Branch, NEW v \in Var, NEW c \in Chan,
           ChannelSend(b, v, c)
    PROVE  Channels!Offer(c) \/ Channels!Defer(c) \/ Channels!Lose
<1> DEFINE e == [kind |-> "send", branch |-> b, chan |-> c, id |-> nextId]
           m == [id |-> nextId, sender |-> b, payload |-> timeline[b].arena[v]]
<1>1. e \in CausalEvent /\ e.kind # "recv"
  BY DEF CausalEvent, SendEvent, TypeInv, TypeOK
<1>2. history' = Append(history, e)
  BY DEF ChannelSend
<1>3. m \in Message /\ m.id = nextId
  <2>1. timeline[b].arena[v] \in Value
    BY ValidIsValue DEF ChannelSend, TypeInv
  <2> QED
    BY <2>1 DEF Message, TypeInv, TypeOK
<1> HIDE DEF e
<1>4. Deliveries' = Deliveries
  BY <1>1, <1>2, DeliveriesAppend
<1>5. Channels!Numbered
  BY <1>4 DEF ChannelSend, Channels!Numbered, ghostVars
<1>6. CASE c \notin opened
  BY <1>5, <1>6 DEF ChannelSend, Channels!Lose
<1>7. CASE c \in opened /\ timeline[b].sliced
  <2>1. /\ pending' = [pending EXCEPT ![c] = Append(pending[c], m)]
        /\ channels' = channels
    BY <1>7 DEF ChannelSend
  <2>2. pending \in [Chan -> Seq(Message)]
    BY DEF TypeInv, TypeOK
  <2> HIDE DEF m
  <2>3. pending'[c] = Append(pending[c], m) /\ pending[c] \in Seq(Message)
    BY <2>1, <2>2
  <2>4. m \in ToSet(pending'[c])
    BY <1>3, <2>3, AppendedIn
  <2> QED
    BY <1>3, <1>5, <1>7, <2>1, <2>4 DEF Channels!Defer, ToSet, Channels!ToSet
<1>8. CASE c \in opened /\ ~timeline[b].sliced
  <2>1. /\ channels' = [channels EXCEPT ![c] = Append(channels[c], m)]
        /\ pending' = pending
    BY <1>8 DEF ChannelSend
  <2>2. channels \in [Chan -> Seq(Message)]
    BY DEF TypeInv, TypeOK
  <2> HIDE DEF m
  <2>3. channels'[c] = Append(channels[c], m) /\ channels[c] \in Seq(Message)
    BY <2>1, <2>2
  <2>4. m \in ToSet(channels'[c])
    BY <1>3, <2>3, AppendedIn
  <2> QED
    BY <1>3, <1>5, <1>8, <2>1, <2>4 DEF Channels!Offer, ToSet, Channels!ToSet
<1> QED
  BY <1>6, <1>7, <1>8

\* A receive takes the first message on offer.
LEMMA ReceiveTakes ==
    ASSUME TypeInv, NEW b \in Branch, NEW v \in Var, NEW c \in Chan,
           ChannelReceive(b, v, c)
    PROVE  Channels!Take(c)
<1> DEFINE e == [kind |-> "recv", branch |-> b, chan |-> c,
                 message |-> Head(channels[c])]
<1>1. Head(channels[c]) \in Message
  BY HeadTailProperties DEF ChannelReceive, TypeInv, TypeOK
<1>2. e \in CausalEvent /\ e.kind = "recv"
      /\ e.chan = c /\ e.message = Head(channels[c])
  BY <1>1 DEF CausalEvent, RecvEvent
<1>3. history' = Append(history, e)
  BY DEF ChannelReceive
<1> HIDE DEF e
<1>4. Deliveries' = Deliveries \union {<<c, Head(channels[c])>>}
  BY <1>2, <1>3, DeliveriesAppend
<1> QED
  BY <1>4 DEF ChannelReceive, Channels!Take, ghostVars

\* An undone receive gives back a message that was taken.
LEMMA UndoRecvGivesBack ==
    ASSUME TypeInv, UndoRecv
    PROVE  \E delivery \in Deliveries : Channels!GiveBack(delivery)
<1>1. control.at \in DOMAIN history /\ Event.kind = "recv"
  BY UndoType, SeqElements DEF UndoRecv, TypeInv, TypeOK
<1> DEFINE d == <<Event.chan, Event.message>>
<1>2. d \in Deliveries
  BY <1>1, DeliveryEvents DEF Event
<1>3. d[1] = Event.chan /\ d[2] = Event.message
  OBVIOUS
<1>4. Deliveries' = Deliveries
  BY DeliveriesKept DEF UndoRecv
<1> HIDE DEF d
<1>5. Channels!GiveBack(d)
  BY <1>3, <1>4 DEF UndoRecv, Channels!GiveBack, ghostVars
<1> QED
  BY <1>2, <1>5

\* An undone send withdraws a message that was never taken, or fails.
LEMMA UndoSendWithdraws ==
    ASSUME TypeInv, Traced, UndoSend
    PROVE  \/ UNCHANGED Channels!vars
           \/ \E c \in Chan : \/ Channels!WithdrawOffered(c)
                              \/ Channels!WithdrawWaiting(c)
<1> DEFINE c == Event.chan
           id == Event.id
<1>1. /\ control.at \in DOMAIN history /\ Event.kind = "send"
      /\ c \in Chan
  <2>1. Event \in SendEvent
    BY UndoType, EventType DEF UndoSend
  <2> QED
    BY <2>1, UndoType, SeqElements DEF UndoSend, SendEvent, TypeInv, TypeOK
<1>2. Deliveries' = Deliveries
  BY DeliveriesKept DEF UndoSend
<1>3. CASE RollbackFails("Paradox")
  BY <1>3, ChannelsStutter DEF UndoSend, RollbackFails
<1>4. ASSUME ~ReceivedAfter(control.at, c, id)
      PROVE  \A delivery \in Deliveries : delivery[2].id # id
  <2>1. ~Received(id)
    BY <1>1, <1>4, NeverReceived DEF Event
  <2>2. SUFFICES ASSUME NEW d \in Deliveries, d[2].id = id
                 PROVE  FALSE
    OBVIOUS
  <2>3. PICK i \in DOMAIN history :
           history[i].kind = "recv" /\ d = <<history[i].chan, history[i].message>>
    BY DeliveryEvents
  <2> QED
    BY <2>1, <2>2, <2>3 DEF Received
<1>5. ASSUME ~ReceivedAfter(control.at, c, id), NEW p \in DOMAIN channels[c],
             FirstAt(channels[c], id, p),
             channels' = [channels EXCEPT ![c] = RemoveAt(channels[c], p)],
             unsent' = unsent \union {id}, pending' = pending
      PROVE  Channels!WithdrawOffered(c)
  <2>1. channels[c][p].id = id
    BY <1>5 DEF FirstAt
  <2>2. Channels!Withdraw(channels[c][p])
    BY <1>2, <1>4, <1>5, <2>1 DEF UndoSend, Channels!Withdraw
  <2> QED
    BY <1>5, <2>2
       DEF Channels!WithdrawOffered, RemoveAt, Channels!RemoveAt
<1>6. ASSUME ~ReceivedAfter(control.at, c, id), NEW p \in DOMAIN pending[c],
             FirstAt(pending[c], id, p),
             pending' = [pending EXCEPT ![c] = RemoveAt(pending[c], p)],
             unsent' = unsent \union {id}, channels' = channels
      PROVE  Channels!WithdrawWaiting(c)
  <2>1. pending[c][p].id = id
    BY <1>6 DEF FirstAt
  <2>2. Channels!Withdraw(pending[c][p])
    BY <1>2, <1>4, <1>6, <2>1 DEF UndoSend, Channels!Withdraw
  <2> QED
    BY <1>6, <2>2
       DEF Channels!WithdrawWaiting, RemoveAt, Channels!RemoveAt
<1> QED
  BY <1>1, <1>3, <1>5, <1>6 DEF UndoSend

\* Each step of a program that does not speculate is a step of its channels.
LEMMA ChannelsStep ==
    ASSUME "speculate" \notin Stmts, TypeInv, NoSpeculation, Traced,
           [Next]_vars
    PROVE  [Channels!Next]_(Channels!vars)
<1>1. ASSUME NEW b \in Branch, Statement(b)
      PROVE  [Channels!Next]_(Channels!vars)
  <2>1. CASE UNCHANGED <<opened, channels, pending, history, nextId, unsent>>
    BY <2>1, ChannelsStutter
  <2>2. CASE \E v \in Var : \E t \in Branch \union {NoBranch} : Send(b, v, t)
    BY <2>2, SendLoses DEF Channels!Next
  <2>3. CASE \E v \in Var, c \in Chan : ChannelSend(b, v, c)
    BY <2>3, ChannelSendOffers DEF Channels!Next
  <2>4. CASE \E v \in Var, c \in Chan : ChannelReceive(b, v, c)
    BY <2>4, ReceiveTakes DEF Channels!Next
  <2>5. CASE \E c \in Chan : ChannelOpen(b, c)
    BY <2>5, DeliveriesKept
       DEF ChannelOpen, Channels!Next, Channels!Open, ghostVars
  <2>6. CASE Tick(b)
    BY <2>6, DeliveriesKept DEF Tick, Channels!Next, Channels!Publish, ghostVars
  <2> QED
    BY <1>1, <2>1, <2>2, <2>3, <2>4, <2>5, <2>6
       DEF Statement, Assign, MoveLocal, Slice, SetAnchor, Rewind,
           AcausalReset, CommitBegin, SpeculateBegin, queueVars, ghostVars
<1>2. CASE CommitEnd \/ Fail
  BY <1>2, ChannelsStutter DEF CommitEnd, Fail, queueVars, ghostVars
<1>3. CASE SpeculateEnd
  BY <1>3, NoSpeculateBlock DEF SpeculateEnd, TopBlock, Top, TypeInv
<1>4. CASE Unwind
  <2>1. blocks # <<>> => Top.kind # "speculate"
    BY NoSpeculateBlock DEF TypeInv
  <2> QED
    BY <1>4, <2>1, ChannelsStutter DEF Unwind, queueVars, ghostVars
<1>5. CASE Rollback
  <2>1. CASE UndoOther \/ UndoMove \/ FinishRewind \/ FinishReset
    BY <2>1, ChannelsStutter
       DEF UndoOther, UndoMove, RollbackFails, FinishRewind, FinishReset,
           queueVars, ghostVars
  <2>2. CASE UndoSend
    BY <2>2, UndoSendWithdraws DEF Channels!Next
  <2>3. CASE UndoRecv
    BY <2>3, UndoRecvGivesBack DEF Channels!Next
  <2>4. CASE FinishAbort
    BY <2>4 DEF FinishAbort, Undone, NoSpeculation
  <2> QED
    BY <1>5, <2>1, <2>2, <2>3, <2>4 DEF Rollback
<1>6. CASE UNCHANGED vars
  BY <1>6, ChannelsStutter DEF vars, queueVars, ghostVars
<1> QED
  BY <1>1, <1>2, <1>3, <1>4, <1>5, <1>6 DEF Next

\* The causal core of a program that does not speculate implements its
\* channels: every interleaving of sends, ticks, receives and rollbacks is one
\* of messages offered, taken, given back after they were taken and withdrawn
\* before anybody took them (causal_rollback, commit_tick_buffers).
THEOREM ChannelsImplemented ==
    ASSUME "speculate" \notin Stmts
    PROVE  Spec => ImplementsChannels
<1>1. Init => Channels!Init
  BY ChannelsInit
<1>2. TypeInv /\ NoSpeculation /\ Traced /\ [Next]_vars
        => [Channels!Next]_(Channels!vars)
  BY ChannelsStep
<1> QED
  BY <1>1, <1>2, Traceability, PTL DEF Spec, ImplementsChannels, Channels!Spec

-----------------------------------------------------------------------------
(* A rewind or a reset that completes has undone everything its branch did  *)
(* since the anchor.                                                        *)

\* What an event did to the rest of the machine is gone.
IsUndone(e) ==
    /\ e.kind = "recv" => InQueue(channels[e.chan], e.message.id)
    /\ e.kind = "send" => ~Queued(e.chan, e.id)
    /\ e.kind = "move" => /\ e.target \in Branch
                          /\ ~IsValid(timeline[e.target].arena[e.var])

\* The walk goes back to the anchor, and the events of the branch that it has
\* passed are undone for as long as it lasts.
UndoneSoFar ==
    control.mode = "undo" =>
        /\ control.resume.kind # "abort" =>
             control.resume.anchor.index = control.start
        /\ \A i \in control.at + 1 .. Len(history) :
             history[i].branch = control.branch => IsUndone(history[i])

\* Where the walk of a rollback is after one step.
LEMMA WalkStep ==
    ASSUME TypeInv, Undo, NextEvent
    PROVE  /\ control'.at = control.at - 1
           /\ control.at \in 1 .. Len(history)
           /\ Len(history) \in Nat
           /\ control'.start = control.start
           /\ control'.branch = control.branch
           /\ control'.resume = control.resume
           /\ control'.mode = "undo"
<1>1. control \in [mode : {"undo"}, branch : Branch, at : Nat, start : Nat,
                   resume : Resume]
  BY DEF TypeInv, TypeOK, Control, Undo, Running
<1>2. control.at \in 1 .. Len(history) /\ Len(history) \in Nat
  BY UndoType, Positions DEF TypeInv
<1> QED
  BY <1>1, <1>2 DEF NextEvent

\* A step of the walk that undoes the event under it and spoils none of those
\* it has undone before.
LEMMA WalkKeeps ==
    ASSUME TypeInv, UndoneSoFar, Undo, NextEvent, history' = history,
           \A i \in control.at .. Len(history) :
              history[i].branch = control.branch
                /\ (i = control.at \/ IsUndone(history[i]))
                => IsUndone(history[i])'
    PROVE  UndoneSoFar'
<1>1. /\ control'.at = control.at - 1
      /\ control.at \in 1 .. Len(history)
      /\ Len(history) \in Nat
      /\ control'.start = control.start
      /\ control'.branch = control.branch
      /\ control'.resume = control.resume
      /\ control'.mode = "undo" /\ control.mode = "undo"
  BY WalkStep DEF Undo
<1>2. ASSUME NEW i \in control.at .. Len(history),
             history[i].branch = control.branch
      PROVE  IsUndone(history[i])'
  <2>1. CASE i = control.at
    BY <1>2, <2>1
  <2>2. CASE i # control.at
    <3>1. i \in control.at + 1 .. Len(history)
      BY <1>1, <2>2
    <3>2. IsUndone(history[i])
      BY <1>1, <1>2, <3>1 DEF UndoneSoFar
    <3> QED
      BY <1>2, <3>2
  <2> QED
    BY <2>1, <2>2
<1>3. control'.at + 1 = control.at
  BY <1>1
<1>4. control'.resume.kind # "abort" =>
         control'.resume.anchor.index = control'.start
  BY <1>1 DEF UndoneSoFar
<1> QED
  BY <1>1, <1>2, <1>3, <1>4 DEF UndoneSoFar

\* An undone receive: its message is queued again, and no send that came after
\* it was of that message.
LEMMA UndoRecvUndoes ==
    ASSUME TypeInv, Traced, UndoneSoFar, UndoRecv
    PROVE  UndoneSoFar'
<1> DEFINE c == Event.chan
           m == Event.message
           C == channels[c]
<1>1. /\ Undo /\ Event \in CausalEvent /\ Event \in RecvEvent
      /\ control.at \in 1 .. Len(history)
      /\ c \in Chan /\ m \in Message
  BY UndoType, EventType DEF UndoRecv, RecvEvent
<1>2. /\ channels' = [channels EXCEPT ![c] = <<m>> \o C]
      /\ UNCHANGED <<timeline, pending, history>>
  BY DEF UndoRecv
<1>3. /\ channels'[c] = <<m>> \o C
      /\ \A d \in Chan \ {c} : channels'[d] = channels[d]
  BY <1>1, <1>2 DEF TypeInv, TypeOK
<1>4. \A d \in Chan : \A id :
        InQueue(channels'[d], id)
          <=> InQueue(channels[d], id) \/ (d = c /\ id = m.id)
  <2>1. C \in Seq(Message)
    BY <1>1 DEF TypeInv, TypeOK
  <2> HIDE DEF C
  <2>2. \A id : InQueue(<<m>> \o C, id) <=> InQueue(C, id) \/ id = m.id
    <3>1. /\ DOMAIN (<<m>> \o C) = 1 .. Len(C) + 1
          /\ \A p \in 1 .. Len(C) + 1 :
               (<<m>> \o C)[p] = IF p = 1 THEN m ELSE C[p - 1]
          /\ Len(C) \in Nat /\ DOMAIN C = 1 .. Len(C)
      BY <1>1, <2>1, PushFrontProperties, SeqElements
    <3>2. ASSUME NEW id, NEW p \in DOMAIN C, C[p].id = id
          PROVE  InQueue(<<m>> \o C, id)
      <4>1. p + 1 \in DOMAIN (<<m>> \o C) /\ (<<m>> \o C)[p + 1] = C[p]
        BY <3>1
      <4> QED
        BY <3>2, <4>1 DEF InQueue
    <3>3. InQueue(<<m>> \o C, m.id)
      <4>1. 1 \in DOMAIN (<<m>> \o C) /\ (<<m>> \o C)[1] = m
        BY <3>1
      <4> QED
        BY <4>1 DEF InQueue
    <3>4. ASSUME NEW p \in DOMAIN (<<m>> \o C)
          PROVE  \/ (<<m>> \o C)[p] = m
                 \/ p - 1 \in DOMAIN C /\ (<<m>> \o C)[p] = C[p - 1]
      BY <3>1
    <3> QED
      BY <3>2, <3>3, <3>4 DEF InQueue
  <2> QED
    BY <1>3, <2>2 DEF C
<1>5. ASSUME NEW i \in control.at .. Len(history),
             i = control.at \/ IsUndone(history[i])
      PROVE  IsUndone(history[i])'
  <2> DEFINE e == history[i]
  <2>1. i \in DOMAIN history /\ e \in CausalEvent /\ i \in Nat
        /\ (i = control.at => e = Event)
    BY <1>1, Positions DEF TypeInv, Event
  <2>2. e.kind = "recv" => InQueue(channels'[e.chan], e.message.id)
    BY <1>1, <1>4, <1>5, <2>1, EventType DEF IsUndone, RecvEvent
  <2>3. e.kind = "send" => ~InQueue(channels'[e.chan], e.id)
                           /\ ~InQueue(pending[e.chan], e.id)
    <3> SUFFICES ASSUME e.kind = "send"
                 PROVE  ~InQueue(channels'[e.chan], e.id)
                        /\ ~InQueue(pending[e.chan], e.id)
      OBVIOUS
    <3>1. i # control.at
      BY <2>1 DEF UndoRecv
    <3>2. e.chan \in Chan /\ ~Queued(e.chan, e.id)
      BY <1>5, <2>1, <3>1, EventType DEF IsUndone, SendEvent
    <3>3. ~(e.chan = c /\ e.id = m.id)
      <4> SUFFICES ASSUME e.id = m.id PROVE FALSE
        OBVIOUS
      <4>1. control.at \in DOMAIN history /\ history[control.at].kind = "recv"
            /\ history[control.at].message = m
        BY <1>1, Positions DEF TypeInv, Event, UndoRecv
      <4>2. PICK k \in 1 .. control.at - 1 :
               history[k]
                 = [kind |-> "send",
                    branch |-> history[control.at].message.sender,
                    chan |-> history[control.at].chan,
                    id |-> history[control.at].message.id]
        BY <4>1 DEF Traced, ReceivedWasSent
      <4>3. k \in DOMAIN history /\ k # i
        BY <1>1, <2>1, Positions DEF TypeInv
      <4> QED
        BY <2>1, <4>1, <4>2, <4>3 DEF Traced, SentOnce
    <3> QED
      BY <1>4, <3>2, <3>3 DEF Queued
  <2>4. e.kind = "move" => e.target \in Branch
                           /\ ~IsValid(timeline[e.target].arena[e.var])
    BY <1>5, <2>1 DEF IsUndone, UndoRecv
  <2> HIDE DEF e
  <2>5. history'[i] = e
    BY <1>2 DEF e
  <2> QED
    BY <1>2, <2>2, <2>3, <2>4, <2>5 DEF IsUndone, Queued
<1> QED
  BY <1>1, <1>2, <1>5, WalkKeeps DEF UndoRecv

\* A queue that loses one element keeps the others.
LEMMA RemoveOthers ==
    ASSUME NEW s \in Seq(Message), NEW p \in DOMAIN s
    PROVE  \A k \in DOMAIN s : s[k].id # s[p].id =>
             \E i \in DOMAIN RemoveAt(s, p) : RemoveAt(s, p)[i] = s[k]
<1> DEFINE r == RemoveAt(s, p)
<1>1. DOMAIN s = 1 .. Len(s) /\ Len(s) \in Nat /\ p \in 1 .. Len(s)
  BY SeqElements
<1>2. /\ DOMAIN r = 1 .. Len(s) - 1
      /\ \A i \in 1 .. Len(s) - 1 : r[i] = IF i < p THEN s[i] ELSE s[i + 1]
  <2>1. /\ r \in Seq(Message) /\ Len(r) = Len(s) - 1
        /\ \A i \in 1 .. Len(s) - 1 : r[i] = IF i < p THEN s[i] ELSE s[i + 1]
    BY <1>1, RemoveAtProperties
  <2> HIDE DEF r
  <2> QED
    BY <2>1, SeqElements
<1> HIDE DEF r
<1>3. ASSUME NEW k \in DOMAIN s, s[k].id # s[p].id
      PROVE  \E i \in DOMAIN r : r[i] = s[k]
  <2>1. CASE k < p
    <3>1. k \in DOMAIN r /\ r[k] = s[k]
      BY <1>1, <1>2, <2>1
    <3> QED
      BY <3>1
  <2>2. CASE k > p
    <3>1. k - 1 \in DOMAIN r /\ r[k - 1] = s[k]
      BY <1>1, <1>2, <2>2
    <3> QED
      BY <3>1
  <2> QED
    BY <1>1, <1>3, <2>1, <2>2
<1> QED
  BY <1>3 DEF r

\* An undone send: the message is in no queue any more, and it is not one that
\* a receive undone before had put back.
LEMMA UndoSendUndoes ==
    ASSUME TypeInv, Traced, UndoneSoFar, UndoSend, ~RollbackFails("Paradox")
    PROVE  UndoneSoFar'
<1> DEFINE c == Event.chan
           id == Event.id
           C == channels[c]
           P == pending[c]
<1>1. /\ Undo /\ Event \in CausalEvent
      /\ control.at \in 1 .. Len(history) /\ control.at \in DOMAIN history
      /\ c \in Chan /\ C \in Seq(Message) /\ P \in Seq(Message)
      /\ history[control.at].kind = "send"
      /\ history[control.at].chan = c /\ history[control.at].id = id
  BY UndoType, EventType, Positions
     DEF UndoSend, SendEvent, TypeInv, TypeOK, Event
<1>2. /\ ~ReceivedAfter(control.at, c, id) /\ NextEvent
      /\ UNCHANGED <<timeline, history>>
      /\ \/ /\ pending' = pending
            /\ \E p \in DOMAIN C :
                 /\ C[p].id = id
                 /\ channels' = [channels EXCEPT ![c] = RemoveAt(C, p)]
         \/ /\ channels' = channels
            /\ \E p \in DOMAIN P :
                 /\ P[p].id = id
                 /\ pending' = [pending EXCEPT ![c] = RemoveAt(P, p)]
  BY DEF UndoSend, FirstAt
<1>3. ~Received(id)
  BY <1>1, <1>2, NeverReceived
<1> DEFINE CN == channels'[c]
           PN == pending'[c]
<1>4. /\ \A x : x # id => (InQueue(CN, x) <=> InQueue(C, x))
      /\ \A x : InQueue(PN, x) => InQueue(P, x)
      /\ ~InQueue(CN, id) /\ ~InQueue(PN, id)
      /\ \A d \in Chan \ {c} : channels'[d] = channels[d]
                               /\ pending'[d] = pending[d]
  <2>1. /\ \A p, q \in DOMAIN C : C[p].id = C[q].id =>
             p = q \/ C[p].id \in ReceivedIds
        /\ \A p, q \in DOMAIN P : P[p].id = P[q].id =>
             p = q \/ P[p].id \in ReceivedIds
        /\ \A p \in DOMAIN C, q \in DOMAIN P : C[p].id = P[q].id =>
             C[p].id \in ReceivedIds
    BY <1>1, ReceivedIdsMembers DEF Traced, SoleCopy
  <2>2. id \notin ReceivedIds
    BY <1>3, ReceivedIdsMembers
  <2>3. CASE /\ pending' = pending
             /\ \E p \in DOMAIN C :
                  /\ C[p].id = id
                  /\ channels' = [channels EXCEPT ![c] = RemoveAt(C, p)]
    <3>1. PICK p \in DOMAIN C :
             /\ C[p].id = id
             /\ channels' = [channels EXCEPT ![c] = RemoveAt(C, p)]
      BY <2>3
    <3>2. /\ CN = RemoveAt(C, p) /\ PN = P
          /\ \A d \in Chan \ {c} : channels'[d] = channels[d]
                                   /\ pending'[d] = pending[d]
      BY <1>1, <2>3, <3>1 DEF TypeInv, TypeOK
    <3> HIDE DEF C, P, CN, PN, c, id
    <3>3. /\ \A i \in DOMAIN CN : \E k \in DOMAIN C : CN[i] = C[k]
          /\ \A i \in DOMAIN CN : CN[i].id # id
          /\ \A j \in DOMAIN P : P[j].id # id
      BY <1>1, <2>1, <2>2, <3>1, <3>2, RemoveSoleCopy
    <3>4. \A k \in DOMAIN C : C[k].id # id => \E i \in DOMAIN CN : CN[i] = C[k]
      BY <1>1, <3>1, <3>2, RemoveOthers
    <3> QED
      BY <3>2, <3>3, <3>4 DEF InQueue
  <2>4. CASE /\ channels' = channels
             /\ \E p \in DOMAIN P :
                  /\ P[p].id = id
                  /\ pending' = [pending EXCEPT ![c] = RemoveAt(P, p)]
    <3>1. PICK p \in DOMAIN P :
             /\ P[p].id = id
             /\ pending' = [pending EXCEPT ![c] = RemoveAt(P, p)]
      BY <2>4
    <3>2. /\ PN = RemoveAt(P, p) /\ CN = C
          /\ \A d \in Chan \ {c} : channels'[d] = channels[d]
                                   /\ pending'[d] = pending[d]
      BY <1>1, <2>4, <3>1 DEF TypeInv, TypeOK
    <3> HIDE DEF C, P, CN, PN, c, id
    <3>3. \A i \in DOMAIN P, j \in DOMAIN C :
            P[i].id = C[j].id => P[i].id \in ReceivedIds
      BY <2>1
    <3>4. /\ \A i \in DOMAIN PN : \E k \in DOMAIN P : PN[i] = P[k]
          /\ \A i \in DOMAIN PN : PN[i].id # id
          /\ \A j \in DOMAIN C : C[j].id # id
      BY <1>1, <2>1, <2>2, <3>1, <3>2, <3>3, RemoveSoleCopy
    <3> QED
      BY <3>2, <3>4 DEF InQueue
  <2> QED
    BY <1>2, <2>3, <2>4
<1>5. ASSUME NEW i \in control.at .. Len(history),
             i = control.at \/ IsUndone(history[i])
      PROVE  IsUndone(history[i])'
  <2> DEFINE e == history[i]
  <2>1. i \in DOMAIN history /\ e \in CausalEvent
        /\ (i = control.at => e.kind = "send" /\ e.chan = c /\ e.id = id)
    BY <1>1, Positions DEF TypeInv
  <2>2. e.kind = "recv" => InQueue(channels'[e.chan], e.message.id)
    <3> SUFFICES ASSUME e.kind = "recv"
                 PROVE  InQueue(channels'[e.chan], e.message.id)
      OBVIOUS
    <3>1. e.chan \in Chan /\ InQueue(channels[e.chan], e.message.id)
      BY <1>5, <2>1, EventType DEF IsUndone, RecvEvent
    <3>2. e.message.id # id
      BY <1>3, <2>1 DEF Received
    <3> QED
      BY <1>4, <3>1, <3>2
  <2>3. e.kind = "send" => ~InQueue(channels'[e.chan], e.id)
                           /\ ~InQueue(pending'[e.chan], e.id)
    <3>1. CASE e.chan = c /\ e.id = id
      BY <1>4, <3>1
    <3>2. CASE e.kind = "send" /\ ~(e.chan = c /\ e.id = id)
      <4>1. e.chan \in Chan /\ ~Queued(e.chan, e.id)
        BY <1>5, <2>1, <3>2, EventType DEF IsUndone, SendEvent
      <4> QED
        BY <1>4, <3>2, <4>1 DEF Queued
    <3> QED
      BY <3>1, <3>2
  <2>4. e.kind = "move" => e.target \in Branch
                           /\ ~IsValid(timeline[e.target].arena[e.var])
    BY <1>5, <2>1 DEF IsUndone
  <2> HIDE DEF e
  <2>5. history'[i] = e
    BY <1>2 DEF e
  <2> QED
    BY <1>2, <2>2, <2>3, <2>4, <2>5 DEF IsUndone, Queued, InQueue, IsValid
<1> QED
  BY <1>1, <1>2, <1>5, WalkKeeps

\* An undone move: the target has lost the binding, whichever it was.
LEMMA UndoMoveUndoes ==
    ASSUME TypeInv, UndoneSoFar, UndoMove, NextEvent
    PROVE  UndoneSoFar'
<1> DEFINE v == Event.var
           t == Event.target
<1>1. /\ Undo /\ Event \in CausalEvent
      /\ control.at \in 1 .. Len(history) /\ v \in Var
  BY UndoType, EventType DEF UndoMove, MoveEvent
<1>2. NextEvent /\ control'.mode = "undo"
  BY <1>1, NextEventType
<1>3. /\ t \in Branch
      /\ timeline' = [timeline EXCEPT ![t].arena[v] = Absent]
      /\ UNCHANGED <<channels, pending, history>>
  BY <1>2, RunningType DEF UndoMove, RollbackFails, ghostVars, Errors
<1>4. /\ timeline'[t].arena[v] = Absent
      /\ \A u \in Branch : \A w \in Var :
           ~IsValid(timeline[u].arena[w]) => ~IsValid(timeline'[u].arena[w])
  BY <1>1, <1>3 DEF TypeInv, TypeOK, Timeline, Arena, IsValid
<1>5. ASSUME NEW i \in control.at .. Len(history),
             i = control.at \/ IsUndone(history[i])
      PROVE  IsUndone(history[i])'
  <2> DEFINE e == history[i]
  <2>1. i \in DOMAIN history /\ e \in CausalEvent /\ (i = control.at => e = Event)
    BY <1>1, Positions DEF TypeInv, Event
  <2>2. e.kind = "move" => e.target \in Branch
                           /\ ~IsValid(timeline'[e.target].arena[e.var])
    <3>1. CASE i = control.at
      BY <1>3, <1>4, <2>1, <3>1 DEF IsValid
    <3>2. CASE i # control.at /\ e.kind = "move"
      <4>1. e.var \in Var
        BY <2>1, <3>2, EventType DEF MoveEvent
      <4> QED
        BY <1>4, <1>5, <3>2, <4>1 DEF IsUndone
    <3> QED
      BY <3>1, <3>2
  <2>3. /\ e.kind = "recv" => InQueue(channels[e.chan], e.message.id)
        /\ e.kind = "send" => ~Queued(e.chan, e.id)
    BY <1>5, <2>1 DEF IsUndone, UndoMove
  <2> HIDE DEF e
  <2>4. history'[i] = e
    BY <1>3 DEF e
  <2> QED
    BY <1>3, <2>2, <2>3, <2>4 DEF IsUndone, Queued, InQueue, IsValid
<1> QED
  BY <1>1, <1>2, <1>3, <1>5, WalkKeeps

\* An event of another branch is passed over.
LEMMA UndoOtherUndoes ==
    ASSUME TypeInv, UndoneSoFar, UndoOther
    PROVE  UndoneSoFar'
<1>1. Undo /\ NextEvent /\ Event.branch # control.branch
      /\ UNCHANGED <<timeline, channels, pending, history>>
  BY DEF UndoOther, queueVars
<1>2. ASSUME NEW i \in control.at .. Len(history),
             history[i].branch = control.branch,
             i = control.at \/ IsUndone(history[i])
      PROVE  IsUndone(history[i])'
  BY <1>1, <1>2 DEF IsUndone, Queued, InQueue, IsValid, Event
<1> QED
  BY <1>1, <1>2, WalkKeeps

\* The walk of a rollback starts at the end of the log, with nothing to undo yet.
LEMMA WalkBegins ==
    ASSUME TypeInv, NEW b \in Branch, Statement(b)
    PROVE  UndoneSoFar'
<1>1. Len(history) \in Nat
  BY Positions DEF TypeInv
<1>2. CASE control'.mode # "undo"
  BY <1>2 DEF UndoneSoFar
<1>3. CASE \E a \in AnchorName : \/ Rewind(b, a)
                                 \/ \E t \in Branch : AcausalReset(b, t, a)
  <2>1. \A e \in Errors : Raising(e).mode # "undo"
    BY RunningType
  <2>2. \/ control'.mode # "undo"
        \/ \E t, k, point :
             control' = Undoing(t, point.index, [kind |-> k, anchor |-> point])
    BY <1>3, <2>1 DEF Rewind, AcausalReset, Errors
  <2>3. CASE \E t, k, point :
               control' = Undoing(t, point.index, [kind |-> k, anchor |-> point])
    <3>1. PICK t, k, point :
             control' = Undoing(t, point.index, [kind |-> k, anchor |-> point])
      BY <2>3
    <3>2. /\ control'.at = Len(history)
          /\ control'.resume.anchor.index = control'.start
      BY <3>1 DEF Undoing
    <3>3. history' = history
      BY <1>3 DEF Rewind, AcausalReset
    <3> QED
      BY <1>1, <3>2, <3>3 DEF UndoneSoFar
  <2> QED
    BY <1>2, <2>2, <2>3
<1>4. control' = Running => control'.mode # "undo"
  BY RunningType
<1>5. \A e \in Errors : Raising(e).mode # "undo"
  BY RunningType
<1>6. control = Running
  BY DEF Statement, Executes, Assign, MoveLocal, Send, ChannelOpen,
         ChannelSend, ChannelReceive, Slice, Tick, SetAnchor, Rewind,
         AcausalReset, CommitBegin, SpeculateBegin
<1>7. CASE ~(\E a \in AnchorName : \/ Rewind(b, a)
                                   \/ \E t \in Branch : AcausalReset(b, t, a))
  <2>1. \/ control' = control
        \/ control' = Running
        \/ \E e \in Errors : control' = Raising(e)
    BY <1>7 DEF Statement, Assign, MoveLocal, Send, ChannelOpen, ChannelSend,
                ChannelReceive, Bind, Slice, Tick, SetAnchor, CommitBegin,
                SpeculateBegin, Errors
  <2> QED
    BY <1>2, <1>4, <1>5, <1>6, <2>1
<1> QED
  BY <1>3, <1>7

\* Every step of a program without speculation keeps what a rollback has undone.
LEMMA UndoneStep ==
    ASSUME TypeInv, NoSpeculation, Traced, UndoneSoFar, [Next]_vars
    PROVE  UndoneSoFar'
<1>1. \A e \in Errors : Raising(e).mode # "undo"
  BY RunningType
<1>2. CASE control'.mode # "undo"
  BY <1>2 DEF UndoneSoFar
<1>3. CASE \E b \in Branch : Statement(b)
  BY <1>3, WalkBegins
<1>4. CASE CommitEnd \/ SpeculateEnd \/ Fail \/ Unwind
  <2>1. ~SpeculateEnd
    BY NoSpeculateBlock DEF SpeculateEnd, TopBlock, Top, TypeInv
  <2>2. blocks # <<>> => Top.kind # "speculate"
    BY NoSpeculateBlock DEF TypeInv
  <2>3. control'.mode # "undo"
    BY <1>4, <2>1, <2>2, RunningType
       DEF CommitEnd, TopBlock, Fail, Unwind, Errors
  <2> QED
    BY <1>2, <2>3
<1>5. CASE Rollback
  <2>1. (Undo /\ NextEvent) \/ control'.mode # "undo"
    BY <1>1, <1>5, RunningType
       DEF Rollback, UndoOther, UndoSend, UndoRecv, UndoMove, FinishRewind,
           FinishReset, FinishAbort, RollbackFails, Undone, Errors
  <2>2. CASE Undo /\ NextEvent
    <3>1. control'.mode = "undo"
      BY <2>2, NextEventType
    <3>2. ~RollbackFails("Paradox")
      BY <1>1, <3>1 DEF RollbackFails, Errors
    <3>3. ~(FinishRewind \/ FinishReset \/ FinishAbort)
      BY <3>1, RunningType DEF FinishRewind, FinishReset, FinishAbort, Undone
    <3> QED
      BY <1>5, <2>2, <3>2, <3>3, UndoOtherUndoes, UndoSendUndoes,
         UndoRecvUndoes, UndoMoveUndoes DEF Rollback
  <2> QED
    BY <1>2, <2>1, <2>2
<1>6. CASE UNCHANGED vars
  BY <1>6 DEF vars, queueVars, UndoneSoFar, IsUndone, Queued, InQueue, IsValid
<1> QED
  BY <1>3, <1>4, <1>5, <1>6 DEF Next

\* A rewind or a reset that completes has given back what its branch received
\* since the anchor, taken back what it sent and freed what it moved, whatever
\* the other branches did meanwhile, in every program that does not speculate.
THEOREM RewindsComplete ==
    ASSUME "speculate" \notin Stmts
    PROVE  Spec => RewindUndoesAll
<1> DEFINE Inv == TypeInv /\ NoSpeculation /\ Traced
           Completes ==
             Undone("rewind") \/ Undone("reset")
               => \A i \in control.resume.anchor.index + 1 .. Len(history) :
                    history[i].branch = control.branch
                      => LET e == history[i]
                         IN  /\ e.kind = "recv" => InQueue(channels[e.chan],
                                                           e.message.id)
                             /\ e.kind = "send" => ~Queued(e.chan, e.id)
                             /\ e.kind = "move" /\ e.target # e.branch =>
                                  ~IsValid(timeline[e.target].arena[e.var])
<1>1. Init => UndoneSoFar
  BY RunningType DEF Init, UndoneSoFar
<1>2. Inv /\ UndoneSoFar /\ [Next]_vars => UndoneSoFar'
  BY UndoneStep
<1>3. Inv /\ UndoneSoFar => Completes
  <2> SUFFICES ASSUME Inv, UndoneSoFar, Undone("rewind") \/ Undone("reset")
               PROVE  Completes
    OBVIOUS
  <2>1. /\ control.mode = "undo" /\ control.at <= control.start
        /\ control.resume.anchor.index = control.start
    BY DEF Undone, UndoneSoFar
  <2>2. control.at \in Nat /\ control.start \in Nat /\ Len(history) \in Nat
    BY <2>1, Positions, RunningType DEF TypeInv, TypeOK, Control
  <2>3. ASSUME NEW i \in control.resume.anchor.index + 1 .. Len(history),
               history[i].branch = control.branch
        PROVE  IsUndone(history[i])
    BY <2>1, <2>2, <2>3 DEF UndoneSoFar
  <2> QED
    BY <2>3 DEF IsUndone
<1>4. Inv /\ UndoneSoFar /\ [Next]_vars => [Completes]_vars
  BY <1>3
<1>5. Spec => []Inv
  BY Traceability
<1> QED
  BY <1>1, <1>2, <1>4, <1>5, PTL DEF Spec, RewindUndoesAll
=============================================================================
