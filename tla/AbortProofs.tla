----------------------------- MODULE AbortProofs -----------------------------
(***************************************************************************)
(* Proof that an aborted speculation leaves the configuration it started   *)
(* from, and that a value keeps one owner across such speculations.        *)
(* Walking the log backwards must meet the queues in the states they had   *)
(* when the events were logged; the proof carries these states along as    *)
(* two functions from positions of the log to queues.                      *)
(***************************************************************************)
EXTENDS OwnershipProofs

\* The programs whose blocks an abort can take back: a block holds statements of
\* its own branch, and nothing that the log does not record (the publication of
\* pending messages, the reopening of a channel), that loses a binding of
\* another branch (send) or that is itself a rollback.
Restorable ==
    /\ Scoped
    /\ Stmts \cap {"send", "tick", "rewind", "reset", "reopen"} = {}

\* The statements of such a program, all of them of the branch of the blocks.
LEMMA RestorableStatement ==
    ASSUME Restorable, NEW b \in Branch, Statement(b)
    PROVE  /\ control = Running
           /\ blocks # <<>> => Last(blocks).branch = b
           /\ \/ \E v \in Var : \/ Assign(b, v)
                                \/ \E w \in Var : MoveLocal(b, w, v)
                                \/ \E c \in Chan : ChannelSend(b, v, c)
                                \/ \E c \in Chan : ChannelReceive(b, v, c)
              \/ \E c \in Chan : ChannelOpen(b, c) /\ c \notin opened
              \/ \E a \in AnchorName : SetAnchor(b, a)
              \/ Slice(b) \/ CommitBegin(b) \/ SpeculateBegin(b)
<1>1. /\ "send" \notin Stmts /\ "tick" \notin Stmts /\ "rewind" \notin Stmts
      /\ "reset" \notin Stmts /\ "reopen" \notin Stmts /\ Scoped
  BY DEF Restorable
<1>2. ~Tick(b)
  BY <1>1 DEF Tick, Executes
<1>3. \A a \in AnchorName : ~Rewind(b, a)
                            /\ \A t \in Branch : ~AcausalReset(b, t, a)
  BY <1>1 DEF Rewind, AcausalReset, Executes
<1>4. \A v \in Var : \A t \in Branch \union {NoBranch} : ~Send(b, v, t)
  BY <1>1 DEF Send, Executes
<1>5. \A c \in Chan : ChannelOpen(b, c) => c \notin opened
  BY <1>1 DEF ChannelOpen
<1>6. \E k : Executes(b, k)
  BY DEF Statement, Assign, MoveLocal, Send, ChannelOpen, ChannelSend,
         ChannelReceive, Slice, Tick, SetAnchor, Rewind, AcausalReset,
         CommitBegin, SpeculateBegin
<1> QED
  BY <1>1, <1>2, <1>3, <1>4, <1>5, <1>6 DEF Statement, Executes

-----------------------------------------------------------------------------
(* Messages and channels *)

\* The messages of a queue have ids that were handed out.
Old(queue) == \A p \in DOMAIN queue : queue[p].id < nextId

\* Ids in use were handed out, and only channels that exist hold messages.
MessagesOld ==
    /\ \A c \in Chan : /\ Old(channels[c]) /\ Old(pending[c])
                       /\ c \notin opened =>
                            channels[c] = <<>> /\ pending[c] = <<>>
    /\ \A j \in DOMAIN history : history[j].kind = "recv" =>
         history[j].chan \in opened /\ history[j].message.id < nextId

\* A step that neither adds messages nor receives.
LEMMA OldFrame ==
    ASSUME TypeInv, MessagesOld, nextId' = nextId, opened' = opened,
           channels' = channels, pending' = pending,
           \A j \in DOMAIN history' : j \in DOMAIN history
                                      /\ history'[j] = history[j]
    PROVE  MessagesOld'
  BY DEF MessagesOld, Old

\* A send uses the next id.
LEMMA OldSend ==
    ASSUME TypeInv, MessagesOld, NEW b \in Branch, NEW v \in Var,
           NEW c \in Chan, ChannelSend(b, v, c)
    PROVE  MessagesOld'
<1> DEFINE m == [id |-> nextId, sender |-> b, payload |-> timeline[b].arena[v]]
           e == [kind |-> "send", branch |-> b, chan |-> c, id |-> nextId]
<1>1. /\ m \in Message /\ m.id = nextId /\ e \in CausalEvent /\ e.kind = "send"
      /\ nextId \in Nat
  BY ValidIsValue
     DEF ChannelSend, Message, CausalEvent, SendEvent, TypeInv, TypeOK
<1>2. /\ nextId' = nextId + 1 /\ opened' = opened
      /\ history' = Append(history, e)
      /\ \/ channels' = channels /\ pending' = pending
         \/ /\ c \in opened /\ channels' = channels
            /\ pending' = [pending EXCEPT ![c] = Append(@, m)]
         \/ /\ c \in opened /\ pending' = pending
            /\ channels' = [channels EXCEPT ![c] = Append(@, m)]
  BY DEF ChannelSend
<1> HIDE DEF m, e
<1>3. /\ DOMAIN history = 1 .. Len(history) /\ Len(history) \in Nat
      /\ DOMAIN history' = 1 .. Len(history) + 1
      /\ \A i \in DOMAIN history : history'[i] = history[i]
      /\ history'[Len(history) + 1] = e
  BY <1>1, <1>2, LogGrows, Positions DEF TypeInv
<1>4. \A j \in DOMAIN history' : history'[j].kind = "recv" =>
         j \in DOMAIN history /\ history'[j] = history[j]
  BY <1>1, <1>3
<1>5. ASSUME NEW j \in DOMAIN history', history'[j].kind = "recv"
      PROVE  history'[j].chan \in opened' /\ history'[j].message.id < nextId'
  <2>1. j \in DOMAIN history /\ history'[j] = history[j]
    BY <1>4, <1>5
  <2>2. history[j].chan \in opened /\ history[j].message.id < nextId
    BY <1>5, <2>1 DEF MessagesOld
  <2>3. history[j].message.id \in Nat
    <3>1. history[j] \in RecvEvent
      BY <1>5, <2>1, Positions, EventType DEF TypeInv
    <3> QED
      BY <3>1 DEF RecvEvent, Message
  <2> QED
    BY <1>1, <1>2, <2>1, <2>2, <2>3
<1>6. ASSUME NEW S \in Seq(Message), Old(S)
      PROVE  /\ \A p \in DOMAIN S : S[p].id < nextId'
             /\ \A p \in DOMAIN Append(S, m) : Append(S, m)[p].id < nextId'
  <2>1. /\ DOMAIN S = 1 .. Len(S) /\ Len(S) \in Nat
        /\ \A p \in DOMAIN S : S[p] \in Message
    BY SeqElements
  <2>2. \A p \in DOMAIN S : S[p].id < nextId'
    BY <1>1, <1>2, <1>6, <2>1 DEF Old, Message
  <2>3. /\ DOMAIN Append(S, m) = 1 .. Len(S) + 1
        /\ \A i \in 1 .. Len(S) : Append(S, m)[i] = S[i]
        /\ Append(S, m)[Len(S) + 1] = m
    <3>1. Append(S, m) \in Seq(Message) /\ Len(Append(S, m)) = Len(S) + 1
      BY <1>1, PushProperties
    <3> QED
      BY <1>1, <3>1, PushProperties, SeqElements
  <2> QED
    BY <1>1, <1>2, <2>1, <2>2, <2>3
<1>7. ASSUME NEW d \in Chan
      PROVE  /\ \/ channels'[d] = channels[d]
                \/ channels'[d] = Append(channels[d], m) /\ d \in opened
             /\ \/ pending'[d] = pending[d]
                \/ pending'[d] = Append(pending[d], m) /\ d \in opened
  BY <1>2 DEF TypeInv, TypeOK
<1>8. ASSUME NEW d \in Chan
      PROVE  /\ Old(channels[d])' /\ Old(pending[d])'
             /\ d \notin opened' => channels'[d] = <<>> /\ pending'[d] = <<>>
  <2>1. /\ channels[d] \in Seq(Message) /\ pending[d] \in Seq(Message)
        /\ Old(channels[d]) /\ Old(pending[d])
        /\ d \notin opened => channels[d] = <<>> /\ pending[d] = <<>>
    BY DEF MessagesOld, TypeInv, TypeOK
  <2>2. Old(channels[d])'
    BY <1>6, <1>7, <2>1 DEF Old
  <2>3. Old(pending[d])'
    BY <1>6, <1>7, <2>1 DEF Old
  <2> QED
    BY <1>2, <1>7, <2>1, <2>2, <2>3
<1> QED
  BY <1>5, <1>8 DEF MessagesOld

\* A receive takes from a channel that exists.
LEMMA OldReceive ==
    ASSUME TypeInv, MessagesOld, NEW b \in Branch, NEW v \in Var,
           NEW c \in Chan, ChannelReceive(b, v, c)
    PROVE  MessagesOld'
<1> DEFINE C == channels[c]
           m == Head(C)
           e == [kind |-> "recv", branch |-> b, chan |-> c, message |-> m]
<1>1. /\ C \in Seq(Message) /\ C # <<>> /\ c \in opened
  BY DEF ChannelReceive, MessagesOld, TypeInv, TypeOK
<1>2. /\ m \in Message /\ m = C[1] /\ 1 \in DOMAIN C
      /\ Tail(C) \in Seq(Message)
      /\ \A p \in DOMAIN Tail(C) : p + 1 \in DOMAIN C /\ Tail(C)[p] = C[p + 1]
  <2> HIDE DEF C
  <2>1. /\ Head(C) \in Message /\ Tail(C) \in Seq(Message)
        /\ Len(Tail(C)) = Len(C) - 1
        /\ \A p \in 1 .. Len(Tail(C)) : Tail(C)[p] = C[p + 1]
    BY <1>1, HeadTailProperties
  <2>2. Len(C) \in Nat \ {0} /\ DOMAIN C = 1 .. Len(C)
    BY <1>1, LastProperties, SeqElements
  <2>3. DOMAIN Tail(C) = 1 .. Len(C) - 1
    BY <2>1, SeqElements
  <2> QED
    BY <2>1, <2>2, <2>3
<1>3. /\ nextId' = nextId /\ opened' = opened /\ pending' = pending
      /\ channels' = [channels EXCEPT ![c] = Tail(C)]
      /\ history' = Append(history, e)
  BY DEF ChannelReceive
<1>4. e \in CausalEvent /\ e.kind = "recv" /\ e.chan = c /\ e.message = m
  BY <1>2 DEF CausalEvent, RecvEvent
<1> HIDE DEF m, e
<1>5. /\ DOMAIN history = 1 .. Len(history) /\ Len(history) \in Nat
      /\ DOMAIN history' = 1 .. Len(history) + 1
      /\ \A i \in DOMAIN history : history'[i] = history[i]
      /\ history'[Len(history) + 1] = e
  BY <1>3, <1>4, LogGrows, Positions DEF TypeInv
<1>6. Old(C) /\ m.id < nextId
  BY <1>2 DEF MessagesOld, Old
<1>7. \A j \in DOMAIN history' : history'[j].kind = "recv" =>
         history'[j].chan \in opened /\ history'[j].message.id < nextId
  BY <1>1, <1>4, <1>5, <1>6 DEF MessagesOld
<1>8. /\ channels'[c] = Tail(C)
      /\ \A d \in Chan \ {c} : channels'[d] = channels[d]
  BY <1>3 DEF TypeInv, TypeOK
<1>9. \A p \in DOMAIN Tail(C) : Tail(C)[p].id < nextId
  BY <1>2, <1>6 DEF Old
<1> HIDE DEF C
<1>10. \A d \in Chan : /\ Old(channels[d])'
                       /\ d \notin opened => channels'[d] = <<>>
  BY <1>1, <1>3, <1>8, <1>9 DEF MessagesOld, Old
<1> QED
  BY <1>3, <1>7, <1>10 DEF MessagesOld, Old

\* An undone receive puts back a message that was received.
LEMMA OldUndoRecv ==
    ASSUME TypeInv, MessagesOld, UndoRecv
    PROVE  MessagesOld'
<1> DEFINE c == Event.chan
           m == Event.message
           C == channels[c]
<1>1. /\ Event \in RecvEvent /\ Event.kind = "recv"
      /\ control.at \in DOMAIN history
      /\ c \in Chan /\ m \in Message /\ C \in Seq(Message)
  BY UndoType, EventType, Positions
     DEF UndoRecv, RecvEvent, TypeInv, TypeOK
<1>2. c \in opened /\ m.id < nextId
  BY <1>1 DEF MessagesOld, Event
<1>3. /\ channels' = [channels EXCEPT ![c] = <<m>> \o C]
      /\ UNCHANGED <<opened, pending, history, nextId>>
  BY DEF UndoRecv
<1>4. /\ channels'[c] = <<m>> \o C
      /\ \A d \in Chan \ {c} : channels'[d] = channels[d]
  BY <1>1, <1>3 DEF TypeInv, TypeOK
<1>5. \A p \in DOMAIN (<<m>> \o C) : (<<m>> \o C)[p].id < nextId
  <2>1. Old(C)
    BY <1>1 DEF MessagesOld
  <2> HIDE DEF C, m
  <2>2. /\ DOMAIN (<<m>> \o C) = 1 .. Len(C) + 1
        /\ \A p \in 1 .. Len(C) + 1 :
             (<<m>> \o C)[p] = IF p = 1 THEN m ELSE C[p - 1]
        /\ Len(C) \in Nat /\ DOMAIN C = 1 .. Len(C)
    BY <1>1, PushFrontProperties, SeqElements
  <2> QED
    BY <1>2, <2>1, <2>2 DEF Old
<1> HIDE DEF C, m, c
<1>6. \A d \in Chan : /\ Old(channels[d])'
                      /\ d \notin opened => channels'[d] = <<>>
  BY <1>2, <1>3, <1>4, <1>5 DEF MessagesOld, Old
<1> QED
  BY <1>3, <1>6 DEF MessagesOld, Old

\* What is left of a queue after one message was removed.
LEMMA RemovedFrom ==
    ASSUME NEW s \in Seq(Message), NEW p \in DOMAIN s
    PROVE  \A i \in DOMAIN RemoveAt(s, p) :
             \E k \in DOMAIN s : RemoveAt(s, p)[i] = s[k]
<1> DEFINE r == RemoveAt(s, p)
<1>1. DOMAIN s = 1 .. Len(s) /\ Len(s) \in Nat /\ p \in 1 .. Len(s)
  BY SeqElements
<1>2. /\ r \in Seq(Message) /\ Len(r) = Len(s) - 1
      /\ \A i \in 1 .. Len(s) - 1 : r[i] = IF i < p THEN s[i] ELSE s[i + 1]
  BY <1>1, RemoveAtProperties
<1> HIDE DEF r
<1>3. DOMAIN r = 1 .. Len(s) - 1
  BY <1>2, SeqElements
<1>4. ASSUME NEW i \in DOMAIN r
      PROVE  \E k \in DOMAIN s : r[i] = s[k]
  <2>1. CASE i < p
    BY <1>1, <1>2, <1>3, <2>1
  <2>2. CASE ~(i < p)
    <3>1. i + 1 \in DOMAIN s /\ r[i] = s[i + 1]
      BY <1>1, <1>2, <1>3, <2>2
    <3> QED
      BY <3>1
  <2> QED
    BY <2>1, <2>2
<1> QED
  BY <1>4 DEF r

\* An undone send only removes a message.
LEMMA OldUndoSend ==
    ASSUME TypeInv, MessagesOld, UndoSend
    PROVE  MessagesOld'
<1> DEFINE c == Event.chan
<1>1. UNCHANGED <<opened, history, nextId>> /\ c \in Chan
  BY UndoType, EventType DEF UndoSend, SendEvent
<1>2. \/ UNCHANGED <<channels, pending>>
      \/ /\ pending' = pending
         /\ \E p \in DOMAIN channels[c] :
              channels' = [channels EXCEPT ![c] = RemoveAt(channels[c], p)]
      \/ /\ channels' = channels
         /\ \E p \in DOMAIN pending[c] :
              pending' = [pending EXCEPT ![c] = RemoveAt(pending[c], p)]
  BY DEF UndoSend, RollbackFails
<1> HIDE DEF c
<1>3. CASE UNCHANGED <<channels, pending>>
  BY <1>1, <1>3, OldFrame
<1>4. ASSUME NEW q \in [Chan -> Seq(Message)], NEW p \in DOMAIN q[c],
             \A d \in Chan : Old(q[d])
      PROVE  /\ \A d \in Chan :
                  Old([q EXCEPT ![c] = RemoveAt(q[c], p)][d])
             /\ \A d \in Chan \ {c} :
                  [q EXCEPT ![c] = RemoveAt(q[c], p)][d] = q[d]
  <2>1. \A i \in DOMAIN RemoveAt(q[c], p) :
          \E k \in DOMAIN q[c] : RemoveAt(q[c], p)[i] = q[c][k]
    BY <1>1, RemovedFrom
  <2>2. Old(RemoveAt(q[c], p))
    BY <1>1, <1>4, <2>1 DEF Old
  <2> QED
    BY <1>1, <1>4, <2>2
<1>5. CASE /\ pending' = pending
           /\ \E p \in DOMAIN channels[c] :
                channels' = [channels EXCEPT ![c] = RemoveAt(channels[c], p)]
  <2>1. PICK p \in DOMAIN channels[c] :
           channels' = [channels EXCEPT ![c] = RemoveAt(channels[c], p)]
    BY <1>5
  <2>2. /\ \A d \in Chan : Old(channels'[d])
        /\ \A d \in Chan \ {c} : channels'[d] = channels[d]
    BY <1>4, <2>1 DEF MessagesOld, TypeInv, TypeOK
  <2>3. c \in opened
    BY <1>1, <2>1 DEF MessagesOld
  <2> QED
    BY <1>1, <1>5, <2>2, <2>3 DEF MessagesOld, Old
<1>6. CASE /\ channels' = channels
           /\ \E p \in DOMAIN pending[c] :
                pending' = [pending EXCEPT ![c] = RemoveAt(pending[c], p)]
  <2>1. PICK p \in DOMAIN pending[c] :
           pending' = [pending EXCEPT ![c] = RemoveAt(pending[c], p)]
    BY <1>6
  <2>2. /\ \A d \in Chan : Old(pending'[d])
        /\ \A d \in Chan \ {c} : pending'[d] = pending[d]
    BY <1>4, <2>1 DEF MessagesOld, TypeInv, TypeOK
  <2>3. c \in opened
    BY <1>1, <2>1 DEF MessagesOld
  <2> QED
    BY <1>1, <1>6, <2>2, <2>3 DEF MessagesOld, Old
<1> QED
  BY <1>2, <1>3, <1>5, <1>6

\* The end of an abort cuts the log back to where the block started.
LEMMA LogCut ==
    ASSUME TypeInv, FinishAbort
    PROVE  /\ Len(history) \in Nat /\ Len(history') \in Nat
           /\ control.start \in Nat
           /\ Len(history') = IF control.start <= Len(history)
                              THEN control.start ELSE Len(history)
           /\ DOMAIN history' = 1 .. Len(history')
           /\ \A j \in DOMAIN history' : j \in DOMAIN history
                                         /\ history'[j] = history[j]
<1>1. /\ history \in Seq(CausalEvent) /\ control.start \in Nat
      /\ Len(history) \in Nat /\ DOMAIN history = 1 .. Len(history)
  BY UndoneType, Positions DEF FinishAbort, TypeInv, TypeOK
<1> DEFINE cut == SubSeq(history, 1, Min({control.start, Len(history)}))
<1>2. history' = cut
  BY DEF FinishAbort
<1>3. /\ cut \in Seq(CausalEvent)
      /\ Len(cut) = IF control.start <= Len(history)
                    THEN control.start ELSE Len(history)
      /\ \A i \in 1 .. Len(cut) : cut[i] = history[i]
  BY <1>1, TruncateProperties
<1> HIDE DEF cut
<1>4. DOMAIN cut = 1 .. Len(cut) /\ Len(cut) \in Nat
  BY <1>3, SeqElements
<1> QED
  BY <1>1, <1>2, <1>3, <1>4

\* Every step keeps messages and channels as they should be.
LEMMA OldStep ==
    ASSUME Restorable, TypeInv, MessagesOld, [Next]_vars
    PROVE  MessagesOld'
<1>1. CASE UNCHANGED <<channels, pending, opened, nextId, history>>
  BY <1>1, OldFrame
<1>2. ASSUME NEW b \in Branch, Statement(b) PROVE MessagesOld'
  <2>1. ASSUME NEW c \in Chan, ChannelOpen(b, c) PROVE MessagesOld'
    <3>1. /\ opened' = opened \union {c} /\ UNCHANGED <<history, nextId>>
          /\ channels'[c] = <<>> /\ pending'[c] = <<>>
          /\ \A d \in Chan \ {c} : channels'[d] = channels[d]
                                   /\ pending'[d] = pending[d]
      BY <2>1 DEF ChannelOpen, TypeInv, TypeOK
    <3>2. \A d \in Chan : Old(channels[d])' /\ Old(pending[d])'
      BY <3>1 DEF MessagesOld, Old
    <3> QED
      BY <3>1, <3>2 DEF MessagesOld
  <2>2. ASSUME NEW v \in Var, Assign(b, v) \/ \E w \in Var : MoveLocal(b, w, v)
        PROVE  MessagesOld'
    BY <1>1, <2>2 DEF Assign, MoveLocal, queueVars
  <2>3. CASE \/ \E a \in AnchorName : SetAnchor(b, a)
             \/ Slice(b) \/ CommitBegin(b) \/ SpeculateBegin(b)
    BY <1>1, <2>3
       DEF Slice, SetAnchor, CommitBegin, SpeculateBegin, queueVars
  <2> QED
    BY <1>2, <2>1, <2>2, <2>3, RestorableStatement, OldSend, OldReceive
<1>3. CASE CommitEnd \/ SpeculateEnd \/ Fail \/ Unwind
  BY <1>1, <1>3 DEF CommitEnd, SpeculateEnd, Fail, Unwind, Abort, queueVars
<1>4. CASE UndoOther \/ UndoMove \/ FinishRewind \/ FinishReset
  BY <1>1, <1>4 DEF UndoOther, UndoMove, FinishRewind, FinishReset,
                    RollbackFails, queueVars
<1>5. CASE FinishAbort
  <2>1. \A j \in DOMAIN history' : j \in DOMAIN history
                                   /\ history'[j] = history[j]
    BY <1>5, LogCut
  <2> QED
    BY <1>5, <2>1, OldFrame DEF FinishAbort, queueVars
<1>6. CASE UNCHANGED vars
  BY <1>1, <1>6 DEF vars, queueVars
<1> QED
  BY <1>2, <1>3, <1>4, <1>5, <1>6, OldUndoRecv, OldUndoSend DEF Next, Rollback

-----------------------------------------------------------------------------
(* The kinds of step *)

\* A block ends, or an error passes, without an abort.
Leaves == CommitEnd \/ (SpeculateEnd /\ ~Abort) \/ Fail \/ (Unwind /\ ~Abort)

\* The innermost block aborts.
Aborts == /\ blocks # <<>> /\ Top.kind = "speculate" /\ control.mode # "undo"
          /\ Abort

\* Every step is of one of these kinds.
LEMMA StepKinds ==
    ASSUME [Next]_vars
    PROVE  \/ \E b \in Branch : Statement(b)
           \/ Leaves \/ Aborts \/ Rollback \/ UNCHANGED vars
<1>1. SpeculateEnd /\ Abort => Aborts
  BY RunningType DEF SpeculateEnd, TopBlock, Top, Aborts
<1>2. Unwind /\ Abort => Aborts
  <2> SUFFICES ASSUME Unwind, Abort PROVE Aborts
    OBVIOUS
  <2>1. control.mode = "raise" /\ control'.mode = "undo"
    BY DEF Unwind, Abort, Undoing
  <2>2. control' # Running /\ control' # control
    BY <2>1, RunningType
  <2> QED
    BY <2>1, <2>2 DEF Unwind, Aborts
<1> QED
  BY <1>1, <1>2 DEF Next, Leaves

\* What leaving a block without an abort touches.
LEMMA LeavesTouch ==
    ASSUME TypeInv, Leaves
    PROVE  /\ UNCHANGED <<opened, channels, pending, history, nextId>>
           /\ control.mode # "undo" /\ control'.mode # "undo"
           /\ control'.mode = "run" => control.mode = "run" \/ blocks = <<>>
           /\ blocks = <<>> => timeline' = timeline
           /\ \A t \in Branch \ {Top.branch} : timeline'[t] = timeline[t]
           /\ blocks' = blocks \/ (blocks # <<>> /\ blocks' = Front(blocks))
<1>1. \A e \in Errors : Raising(e).mode = "raise"
  BY RunningType DEF Raising
<1>2. CASE CommitEnd
  BY <1>2, RunningType DEF CommitEnd, TopBlock, Top, TypeInv, TypeOK, queueVars
<1>3. CASE SpeculateEnd /\ ~Abort
  BY <1>1, <1>3, RunningType
     DEF SpeculateEnd, TopBlock, Top, TypeInv, TypeOK, PopSpeculation,
         queueVars, Errors
<1>4. CASE Fail
  BY <1>1, <1>4, RunningType DEF Fail, queueVars, blockVars, Errors
<1>5. CASE Unwind /\ ~Abort
  BY <1>5, RunningType DEF Unwind, queueVars, blockVars
<1> QED
  BY <1>2, <1>3, <1>4, <1>5 DEF Leaves

\* The speculations that are open.
Open == {i \in DOMAIN blocks : blocks[i].kind = "speculate"}

\* A step that enters no speculation leaves the open ones as they are.
LEMMA OpenKept ==
    ASSUME NoNewSpeculation
    PROVE  \A i \in Open' : i \in Open /\ blocks'[i] = blocks[i]
  BY DEF NoNewSpeculation, Open

\* Only speculate opens a speculation.
LEMMA StillOpen ==
    ASSUME TypeInv, [Next]_vars, Leaves \/ Aborts \/ Rollback
    PROVE  \A i \in Open' : i \in Open /\ blocks'[i] = blocks[i]
<1>1. ~(\E b \in Branch : SpeculateBegin(b))
  <2>1. Len(blocks) \in Nat
    BY SeqElements DEF TypeInv, TypeOK
  <2>2. ASSUME NEW b \in Branch, SpeculateBegin(b)
        PROVE  Len(blocks') = Len(blocks) + 1
    <3>1. /\ DOMAIN blocks' = 1 .. Len(blocks) + 1
          /\ blocks' \in Seq(SpeculateBlock \union CommitBlock)
      BY <2>2, SpeculateBeginBlock, TypeInvStep DEF TypeInv, TypeOK
    <3>2. DOMAIN blocks' = 1 .. Len(blocks') /\ Len(blocks') \in Nat
      BY <3>1, SeqElements
    <3> QED
      BY <2>1, <3>1, <3>2
  <2>3. blocks' = blocks \/ (blocks # <<>> /\ blocks' = Front(blocks))
    BY LeavesTouch, UndoKeeps DEF Aborts, Abort, PopSpeculation
  <2>4. blocks # <<>> => Len(Front(blocks)) = Len(blocks) - 1
    BY FrontProperties DEF TypeInv, TypeOK
  <2> QED
    BY <2>1, <2>2, <2>3, <2>4
<1> QED
  BY <1>1, SpeculationEntered, OpenKept

\* What an abort does.
LEMMA AbortTouches ==
    ASSUME TypeInv, AnchorsInside, Aborts
    PROVE  LET n == Len(blocks)
               b == Top.branch
           IN  /\ n \in Open /\ Top = blocks[n] /\ b \in Branch
               /\ Open' = Open \ {n}
               /\ \A i \in Open' : blocks'[i] = blocks[i] /\ i < n
               /\ timeline' = [timeline EXCEPT ![b] = Top.saved]
               /\ UNCHANGED <<opened, channels, pending, history, nextId>>
               /\ control' = [mode |-> "undo", branch |-> b,
                              at |-> Len(history), start |-> Top.start,
                              resume |-> [kind |-> "abort",
                                          before |-> Top.before]]
               /\ Aborting'
               /\ Top.start \in Nat /\ Top.start <= Len(history)
               /\ Len(history) \in Nat
               /\ \A i \in Open' : blocks[i].start <= Top.start
<1> DEFINE n == Len(blocks)
           b == Top.branch
<1>1. /\ n \in Nat \ {0} /\ DOMAIN blocks = 1 .. n
      /\ DOMAIN blocks' = 1 .. n - 1
      /\ \A i \in DOMAIN blocks' : blocks'[i] = blocks[i]
      /\ Top = blocks[n]
  BY BlockLeft DEF Aborts, Abort, PopSpeculation, TypeInv
<1>2. n \in Open
  BY <1>1 DEF Open, Aborts
<1>3. b \in Branch /\ Top.start \in Nat /\ BlockInside(n)
  BY <1>1, <1>2, SpeculationType DEF Open, AnchorsInside, TypeInv
<1>4. /\ Open' = Open \ {n}
      /\ \A i \in Open' : blocks'[i] = blocks[i] /\ i < n
  BY <1>1 DEF Open
<1>5. /\ timeline' = [timeline EXCEPT ![b] = Top.saved]
      /\ UNCHANGED <<opened, channels, pending, history, nextId>>
      /\ control' = [mode |-> "undo", branch |-> b,
                     at |-> Len(history), start |-> Top.start,
                     resume |-> [kind |-> "abort", before |-> Top.before]]
  BY DEF Aborts, Abort, Undoing, queueVars
<1>6. Aborting'
  BY <1>5 DEF Aborting
<1>7. Len(history) \in Nat /\ Top.start <= Len(history)
  BY <1>1, <1>3, Positions DEF BlockInside, TypeInv
<1>8. \A i \in Open' : blocks[i].start <= Top.start
  BY <1>1, <1>3, <1>4 DEF BlockInside, Open
<1> QED
  BY <1>1, <1>2, <1>3, <1>4, <1>5, <1>6, <1>7, <1>8

\* What a statement of branch b touches: the bindings of b, and one event of b
\* at the end of the log.
LEMMA StatementTouches ==
    ASSUME Restorable, TypeInv, NEW b \in Branch, Statement(b)
    PROVE  /\ \A t \in Branch \ {b} : timeline'[t] = timeline[t]
           /\ control.mode = "run" /\ control'.mode # "undo"
           /\ \/ history' = history
              \/ \E e \in SendEvent \union RecvEvent :
                    e.branch = b /\ history' = Append(history, e)
<1>1. /\ control = Running
      /\ \A e \in Errors : Raising(e).mode # "undo"
      /\ Running.mode = "run"
  BY RestorableStatement, RunningType DEF Running
<1>2. ASSUME NEW v \in Var, \/ Assign(b, v)
                            \/ \E w \in Var : MoveLocal(b, w, v)
      PROVE  /\ \A t \in Branch \ {b} : timeline'[t] = timeline[t]
             /\ history' = history /\ control'.mode # "undo"
  BY <1>1, <1>2 DEF Assign, MoveLocal, Bind, Errors, TypeInv, TypeOK
<1>3. ASSUME NEW v \in Var, NEW c \in Chan, ChannelSend(b, v, c)
      PROVE  /\ \A t \in Branch \ {b} : timeline'[t] = timeline[t]
             /\ \E e \in SendEvent : e.branch = b
                                     /\ history' = Append(history, e)
             /\ control'.mode # "undo"
  <2> DEFINE e == [kind |-> "send", branch |-> b, chan |-> c, id |-> nextId]
  <2>1. e \in SendEvent /\ e.branch = b
    BY DEF SendEvent, TypeInv, TypeOK
  <2>2. history' = Append(history, e)
    BY <1>3 DEF ChannelSend
  <2>3. control' = control \/ control' = Raising("ChannelFault")
    BY <1>3 DEF ChannelSend
  <2>4. \A t \in Branch \ {b} : timeline'[t] = timeline[t]
    BY <1>3 DEF ChannelSend, TypeInv, TypeOK
  <2> HIDE DEF e
  <2> QED
    BY <1>1, <2>1, <2>2, <2>3, <2>4 DEF Errors
<1>4. ASSUME NEW v \in Var, NEW c \in Chan, ChannelReceive(b, v, c)
      PROVE  /\ \A t \in Branch \ {b} : timeline'[t] = timeline[t]
             /\ \E e \in RecvEvent : e.branch = b
                                     /\ history' = Append(history, e)
             /\ control'.mode # "undo"
  <2> DEFINE e == [kind |-> "recv", branch |-> b, chan |-> c,
                   message |-> Head(channels[c])]
  <2>1. Head(channels[c]) \in Message
    BY <1>4, HeadTailProperties DEF ChannelReceive, TypeInv, TypeOK
  <2>2. e \in RecvEvent /\ e.branch = b
    BY <2>1 DEF RecvEvent
  <2>3. history' = Append(history, e) /\ control'.mode # "undo"
    BY <1>1, <1>4 DEF ChannelReceive, Bind, Errors
  <2>4. \A t \in Branch \ {b} : timeline'[t] = timeline[t]
    BY <1>4 DEF ChannelReceive, Bind, TypeInv, TypeOK
  <2> HIDE DEF e
  <2> QED
    BY <2>2, <2>3, <2>4
<1>5. CASE \/ \E c \in Chan : ChannelOpen(b, c)
           \/ CommitBegin(b) \/ SpeculateBegin(b)
  BY <1>1, <1>5 DEF ChannelOpen, CommitBegin, SpeculateBegin
<1>6. CASE \E a \in AnchorName : SetAnchor(b, a)
  BY <1>1, <1>6 DEF SetAnchor, TypeInv, TypeOK
<1>7. CASE Slice(b)
  BY <1>1, <1>7 DEF Slice, TypeInv, TypeOK
<1>8. CASE \E v \in Var : \/ Assign(b, v)
                          \/ \E w \in Var : MoveLocal(b, w, v)
  BY <1>1, <1>2, <1>8
<1>9. CASE \E v \in Var, c \in Chan : ChannelSend(b, v, c)
  BY <1>1, <1>3, <1>9
<1>10. CASE \E v \in Var, c \in Chan : ChannelReceive(b, v, c)
  BY <1>1, <1>4, <1>10
<1> QED
  BY <1>5, <1>6, <1>7, <1>8, <1>9, <1>10, RestorableStatement

\* All open blocks are of the branch that executes a statement.
LEMMA StatementBranch ==
    ASSUME Restorable, TypeInv, OneBranch, NEW b \in Branch, Statement(b)
    PROVE  \A i \in DOMAIN blocks : blocks[i].branch = b
<1> SUFFICES ASSUME NEW i \in DOMAIN blocks PROVE blocks[i].branch = b
  OBVIOUS
<1>1. blocks # <<>>
  OBVIOUS
<1>2. Last(blocks) = blocks[Len(blocks)] /\ Len(blocks) \in DOMAIN blocks
  BY <1>1, LastProperties, SeqElements DEF TypeInv, TypeOK
<1> QED
  BY <1>1, <1>2, RestorableStatement DEF OneBranch

-----------------------------------------------------------------------------
(* The log of a block *)

\* The events logged since a speculation began are those of its branch, and the
\* abort of one walks over nothing else.
BlockEvents ==
    /\ \A k \in DOMAIN history : history[k].kind # "move"
    /\ \A i \in Open : \A k \in DOMAIN history :
         k > blocks[i].start => history[k].branch = blocks[i].branch
    /\ control.mode = "undo" =>
         /\ Aborting /\ control.start <= control.at
         /\ \A i \in Open : blocks[i].branch = control.branch
         /\ \A k \in DOMAIN history :
              k > control.start => history[k].branch = control.branch

\* The open blocks after a statement.
LEMMA OpenAfter ==
    ASSUME TypeInv, [Next]_vars, NEW b \in Branch, Statement(b)
    PROVE  \A i \in Open' :
             \/ i \in Open /\ blocks'[i] = blocks[i]
             \/ /\ SpeculateBegin(b) /\ i = Len(blocks) + 1
                /\ blocks'[i] = [kind |-> "speculate", branch |-> b,
                                 saved |-> timeline[b],
                                 start |-> Len(history),
                                 before |-> [timeline |-> timeline,
                                             channels |-> channels,
                                             pending |-> pending]]
<1>1. CASE SpeculateBegin(b)
  <2>1. /\ Len(blocks) \in Nat /\ DOMAIN blocks = 1 .. Len(blocks)
        /\ DOMAIN blocks' = 1 .. Len(blocks) + 1
        /\ \A i \in DOMAIN blocks : blocks'[i] = blocks[i]
        /\ blocks'[Len(blocks) + 1]
             = [kind |-> "speculate", branch |-> b, saved |-> timeline[b],
                start |-> Len(history),
                before |-> [timeline |-> timeline, channels |-> channels,
                            pending |-> pending]]
    BY <1>1, SpeculateBeginBlock
  <2> SUFFICES ASSUME NEW i \in Open', i # Len(blocks) + 1
               PROVE  i \in Open /\ blocks'[i] = blocks[i]
    BY <1>1, <2>1
  <2> QED
    BY <2>1 DEF Open
<1>2. CASE ~SpeculateBegin(b)
  <2>1. ASSUME NEW u \in Branch, SpeculateBegin(u) PROVE FALSE
    <3>1. CASE CommitBegin(b)
      <4> DEFINE old == [kind |-> "commit", branch |-> b]
      <4>1. old \in SpeculateBlock \union CommitBlock /\ old.kind # "speculate"
        BY DEF CommitBlock
      <4>2. blocks' = Append(blocks, old)
        BY <3>1 DEF CommitBegin
      <4> HIDE DEF old
      <4>3. blocks'[Len(blocks) + 1] = old
        BY <4>1, <4>2, BlockEntered DEF TypeInv
      <4>4. blocks'[Len(blocks) + 1].kind = "speculate"
        <5>1. blocks'[Len(blocks) + 1]
                = [kind |-> "speculate", branch |-> u, saved |-> timeline[u],
                   start |-> Len(history),
                   before |-> [timeline |-> timeline, channels |-> channels,
                               pending |-> pending]]
          BY <2>1, SpeculateBeginBlock
        <5> QED
          BY <5>1
      <4> QED
        BY <4>1, <4>3, <4>4
    <3>2. CASE ~CommitBegin(b)
      <4>1. blocks' = blocks
        BY <1>2, <3>2
           DEF Statement, Assign, MoveLocal, Send, ChannelOpen, ChannelSend,
               ChannelReceive, Slice, Tick, SetAnchor, Rewind, AcausalReset,
               blockVars
      <4>2. /\ Len(blocks) \in Nat /\ DOMAIN blocks = 1 .. Len(blocks)
            /\ DOMAIN blocks' = 1 .. Len(blocks) + 1
        BY <2>1, SpeculateBeginBlock
      <4> QED
        BY <4>1, <4>2
    <3> QED
      BY <3>1, <3>2
  <2> QED
    BY <2>1, SpeculationEntered, OpenKept
<1> QED
  BY <1>1, <1>2

\* Every step keeps the log of the open blocks to their branch.
LEMMA BlockEventsStep ==
    ASSUME Restorable, TypeInv, AnchorsInside, OneBranch, BlockEvents,
           [Next]_vars
    PROVE  BlockEvents'
<1>1. DOMAIN history = 1 .. Len(history) /\ Len(history) \in Nat
  BY Positions DEF TypeInv
<1>2. ASSUME NEW b \in Branch, Statement(b) PROVE BlockEvents'
  <2>1. \A k \in DOMAIN history' :
          \/ k \in DOMAIN history /\ history'[k] = history[k]
          \/ /\ k = Len(history) + 1 /\ history'[k].branch = b
             /\ history'[k].kind # "move"
    <3>1. CASE history' = history
      BY <3>1
    <3>2. CASE \E e \in SendEvent \union RecvEvent :
                  e.branch = b /\ history' = Append(history, e)
      <4>1. PICK e \in SendEvent \union RecvEvent :
               e.branch = b /\ history' = Append(history, e)
        BY <3>2
      <4>2. e \in CausalEvent /\ e.kind # "move"
        BY DEF CausalEvent, SendEvent, RecvEvent
      <4> QED
        BY <1>1, <4>1, <4>2, LogGrows DEF TypeInv
    <3> QED
      BY <1>2, <3>1, <3>2, StatementTouches
  <2>2. ASSUME NEW i \in Open', NEW k \in DOMAIN history',
               k > blocks'[i].start
        PROVE  history'[k].branch = blocks'[i].branch
    <3>1. CASE i \in Open /\ blocks'[i] = blocks[i]
      <4>1. blocks[i].branch = b
        BY <1>2, <3>1, StatementBranch DEF Open
      <4> QED
        BY <2>1, <2>2, <3>1, <4>1 DEF BlockEvents
    <3>2. CASE blocks'[i].start = Len(history) /\ blocks'[i].branch = b
      BY <1>1, <2>1, <2>2, <3>2
    <3>3. CASE blocks'[i] = [kind |-> "speculate", branch |-> b,
                             saved |-> timeline[b],
                             start |-> Len(history),
                             before |-> [timeline |-> timeline,
                                         channels |-> channels,
                                         pending |-> pending]]
      BY <3>2, <3>3
    <3> QED
      BY <1>2, <3>1, <3>3, OpenAfter
  <2>3. control'.mode # "undo"
    BY <1>2, StatementTouches
  <2> QED
    BY <2>1, <2>2, <2>3 DEF BlockEvents
<1>3. CASE Leaves
  BY <1>3, LeavesTouch, StillOpen DEF BlockEvents
<1>4. CASE Aborts
  <2>1. LET n == Len(blocks)
            b == Top.branch
        IN  /\ n \in Open /\ Top = blocks[n] /\ b \in Branch
            /\ Open' = Open \ {n}
            /\ \A i \in Open' : blocks'[i] = blocks[i] /\ i < n
            /\ history' = history
            /\ control' = [mode |-> "undo", branch |-> b,
                           at |-> Len(history), start |-> Top.start,
                           resume |-> [kind |-> "abort",
                                       before |-> Top.before]]
            /\ Aborting'
            /\ Top.start \in Nat /\ Top.start <= Len(history)
    BY <1>4, AbortTouches
  <2>2. \A i \in Open : blocks[i].branch = Top.branch
    BY <2>1 DEF OneBranch, Open
  <2>3. /\ control'.at = Len(history) /\ control'.start = Top.start
        /\ control'.branch = Top.branch
    BY <2>1
  <2>4. \A i \in Open' : i \in Open /\ blocks'[i] = blocks[i]
    BY <2>1
  <2> QED
    BY <2>1, <2>2, <2>3, <2>4 DEF BlockEvents
<1>5. CASE Rollback /\ ~FinishAbort
  <2>1. history' = history /\ \A i \in Open' : i \in Open /\ blocks'[i] = blocks[i]
    BY <1>5, UndoKeeps, StillOpen
  <2>2. CASE control'.mode # "undo"
    BY <2>1, <2>2 DEF BlockEvents
  <2>3. CASE Undo /\ NextEvent
    <3>1. /\ control \in [mode : {"undo"}, branch : Branch, at : Nat,
                          start : Nat, resume : Resume]
          /\ control.at > control.start
      BY <2>3 DEF TypeInv, TypeOK, Control, Undo, Running
    <3>2. /\ control'.at = control.at - 1 /\ control'.start = control.start
          /\ control'.branch = control.branch
          /\ control'.resume = control.resume /\ control'.mode = "undo"
      BY <2>3, <3>1 DEF NextEvent
    <3>3. Aborting' /\ control'.start <= control'.at
      BY <3>1, <3>2 DEF BlockEvents, Aborting
    <3> QED
      BY <2>1, <3>1, <3>2, <3>3 DEF BlockEvents
  <2>4. (Undo /\ NextEvent) \/ control'.mode # "undo"
    <3>1. \A e \in Errors : Raising(e).mode # "undo"
      BY RunningType
    <3> QED
      BY <1>5, <3>1, RunningType
         DEF Rollback, UndoOther, UndoSend, UndoRecv, UndoMove, FinishRewind,
             FinishReset, FinishAbort, RollbackFails, Undone, Errors
  <2> QED
    BY <2>2, <2>3, <2>4
<1>6. CASE FinishAbort
  <2>1. control'.mode # "undo"
    BY <1>6, RunningType DEF FinishAbort, Undone
  <2>2. Rollback
    BY <1>6 DEF Rollback
  <2> QED
    BY <1>6, <2>1, <2>2, LogCut, StillOpen DEF BlockEvents
<1>7. CASE UNCHANGED vars
  BY <1>7 DEF vars, blockVars, BlockEvents, Open, Aborting
<1> QED
  BY <1>2, <1>3, <1>4, <1>5, <1>6, <1>7, StepKinds

-----------------------------------------------------------------------------
(* The timelines *)

\* A block leaves the timelines of other branches as it found them, and an
\* abort has already restored that of its own.
TimelinesKept ==
    /\ \A i \in Open :
         /\ blocks[i].saved = blocks[i].before.timeline[blocks[i].branch]
         /\ \A t \in Branch \ {blocks[i].branch} :
              timeline[t] = blocks[i].before.timeline[t]
    /\ control.mode = "undo" => timeline = control.resume.before.timeline

\* The rollback of an abort finds no binding to take back.
LEMMA RollbackTimelines ==
    ASSUME TypeInv, BlockEvents, Rollback
    PROVE  timeline' = timeline
<1>1. ~UndoMove
  <2>1. ASSUME Undo PROVE Event.kind # "move"
    <3>1. control.at \in DOMAIN history
      BY <2>1, UndoType, Positions DEF TypeInv
    <3> QED
      BY <3>1 DEF BlockEvents, Event
  <2> QED
    BY <2>1 DEF UndoMove
<1>2. ~FinishRewind /\ ~FinishReset
  BY DEF FinishRewind, FinishReset, Undone, BlockEvents, Aborting
<1> QED
  BY <1>1, <1>2
     DEF Rollback, UndoOther, UndoSend, UndoRecv, FinishAbort, RollbackFails

\* Every step keeps to the timeline of the branch of the blocks.
LEMMA TimelinesKeptStep ==
    ASSUME Restorable, TypeInv, AnchorsInside, OneBranch, BlockEvents,
           TimelinesKept, [Next]_vars
    PROVE  TimelinesKept'
<1>1. ASSUME NEW b \in Branch, Statement(b) PROVE TimelinesKept'
  <2>1. /\ \A t \in Branch \ {b} : timeline'[t] = timeline[t]
        /\ control'.mode # "undo"
    BY <1>1, StatementTouches
  <2>2. ASSUME NEW i \in Open'
        PROVE  /\ blocks'[i].saved = blocks'[i].before.timeline[blocks'[i].branch]
               /\ \A t \in Branch \ {blocks'[i].branch} :
                    timeline'[t] = blocks'[i].before.timeline[t]
    <3>1. CASE i \in Open /\ blocks'[i] = blocks[i]
      <4>1. blocks[i].branch = b
        BY <1>1, <3>1, StatementBranch DEF Open
      <4> QED
        BY <2>1, <3>1, <4>1 DEF TimelinesKept
    <3>2. CASE blocks'[i] = [kind |-> "speculate", branch |-> b,
                             saved |-> timeline[b],
                             start |-> Len(history),
                             before |-> [timeline |-> timeline,
                                         channels |-> channels,
                                         pending |-> pending]]
      <4>1. /\ blocks'[i].saved = timeline[b] /\ blocks'[i].branch = b
            /\ blocks'[i].before.timeline = timeline
        BY <3>2
      <4> QED
        BY <2>1, <4>1
    <3> QED
      BY <1>1, <3>1, <3>2, OpenAfter
  <2> QED
    BY <2>1, <2>2 DEF TimelinesKept
<1>2. CASE Leaves
  <2>1. /\ control'.mode # "undo"
        /\ \A t \in Branch \ {Top.branch} : timeline'[t] = timeline[t]
        /\ \A i \in Open' : i \in Open /\ blocks'[i] = blocks[i]
    BY <1>2, LeavesTouch, StillOpen
  <2>2. \A i \in Open : blocks[i].branch = Top.branch
    <3> SUFFICES ASSUME NEW i \in Open PROVE blocks[i].branch = Top.branch
      OBVIOUS
    <3>1. i \in DOMAIN blocks /\ blocks # <<>>
      BY DEF Open
    <3>2. Top = blocks[Len(blocks)] /\ Len(blocks) \in DOMAIN blocks
      BY <3>1, LastProperties, SeqElements DEF TypeInv, TypeOK, Top
    <3> QED
      BY <3>1, <3>2 DEF OneBranch
  <2> QED
    BY <2>1, <2>2 DEF TimelinesKept
<1>3. CASE Aborts
  <2> DEFINE n == Len(blocks)
             b == Top.branch
  <2>1. /\ n \in Open /\ Top = blocks[n] /\ b \in Branch
        /\ Open' = Open \ {n}
        /\ \A i \in Open' : blocks'[i] = blocks[i] /\ i < n
        /\ timeline' = [timeline EXCEPT ![b] = Top.saved]
        /\ control' = [mode |-> "undo", branch |-> b,
                       at |-> Len(history), start |-> Top.start,
                       resume |-> [kind |-> "abort",
                                   before |-> Top.before]]
    BY <1>3, AbortTouches
  <2>2. /\ Top.before \in Configuration
        /\ Top.saved = Top.before.timeline[b]
        /\ \A t \in Branch \ {b} : timeline[t] = Top.before.timeline[t]
    BY <2>1, SpeculationType DEF TimelinesKept, Open, TypeInv
  <2>3. Top.before.timeline \in [Branch -> Timeline]
    BY <2>2 DEF Configuration
  <2>4. timeline' = Top.before.timeline
    BY <2>1, <2>2, <2>3 DEF TypeInv, TypeOK
  <2>5. control'.resume.before = Top.before
    BY <2>1
  <2>6. ASSUME NEW i \in Open'
        PROVE  /\ i \in Open /\ blocks'[i] = blocks[i]
               /\ blocks[i].branch = b
    BY <2>1 DEF OneBranch, Open
  <2> HIDE DEF b, n
  <2>7. \A t \in Branch \ {b} : timeline'[t] = timeline[t]
    BY <2>1 DEF TypeInv, TypeOK
  <2> QED
    BY <2>4, <2>5, <2>6, <2>7 DEF TimelinesKept
<1>4. CASE Rollback
  <2>1. /\ timeline' = timeline
        /\ \A i \in Open' : i \in Open /\ blocks'[i] = blocks[i]
        /\ control'.mode = "undo" => control.mode = "undo"
                                     /\ control'.resume = control.resume
    <3>1. \A e \in Errors : Raising(e).mode # "undo"
      BY RunningType
    <3>2. (Undo /\ NextEvent) \/ control'.mode # "undo"
      BY <1>4, <3>1, RunningType
         DEF Rollback, UndoOther, UndoSend, UndoRecv, UndoMove, FinishRewind,
             FinishReset, FinishAbort, RollbackFails, Undone, Errors
    <3>3. Undo /\ NextEvent => control.mode = "undo"
                               /\ control'.resume = control.resume
      <4> SUFFICES ASSUME Undo, NextEvent
                   PROVE  control.mode = "undo"
                          /\ control'.resume = control.resume
        OBVIOUS
      <4>1. control \in [mode : {"undo"}, branch : Branch, at : Nat,
                         start : Nat, resume : Resume]
        BY DEF TypeInv, TypeOK, Control, Undo, Running
      <4> QED
        BY <4>1 DEF NextEvent
    <3> QED
      BY <1>4, <3>2, <3>3, RollbackTimelines, StillOpen
  <2> QED
    BY <2>1 DEF TimelinesKept
<1>5. CASE UNCHANGED vars
  BY <1>5 DEF vars, blockVars, TimelinesKept, Open
<1> QED
  BY <1>1, <1>2, <1>3, <1>4, <1>5, StepKinds

-----------------------------------------------------------------------------
(* The queues of the past *)

\* Event e of the log took the queues from c0, p0 to c1, p1: a receive popped
\* its message, a send pushed one with a new id or lost it.
Logged(e, c0, p0, c1, p1) ==
    \/ /\ e.kind = "recv"
       /\ c0 = [c1 EXCEPT ![e.chan] = <<e.message>> \o @]
       /\ p1 = p0
    \/ /\ e.kind = "send"
       /\ ~InQueue(c0[e.chan], e.id) /\ ~InQueue(p0[e.chan], e.id)
       /\ \/ c1 = c0 /\ p1 = p0
          \/ \E m \in Message :
               /\ m.id = e.id
               /\ \/ p1 = p0 /\ c1 = [c0 EXCEPT ![e.chan] = Append(@, m)]
                  \/ c1 = c0 /\ p1 = [p0 EXCEPT ![e.chan] = Append(@, m)]

\* Position k of the log lies in an open block, or in the one that aborts.
WithinBlock(k) == \/ \E i \in Open : blocks[i].start < k
                  \/ Aborting /\ control.start < k

QueueMaps == [Chan -> Seq(Message)]

\* C and P are the queues at each position of the log: those of now at position
\* n, those a block started from at its start, and one event of a block leads
\* from each to the next.
Past(C, P, n) ==
    /\ C \in [Nat -> QueueMaps] /\ P \in [Nat -> QueueMaps]
    /\ C[n] = channels /\ P[n] = pending
    /\ \A i \in Open : /\ blocks[i].start <= n
                       /\ C[blocks[i].start] = blocks[i].before.channels
                       /\ P[blocks[i].start] = blocks[i].before.pending
    /\ Aborting => /\ control.start <= n
                   /\ C[control.start] = control.resume.before.channels
                   /\ P[control.start] = control.resume.before.pending
    /\ \A k \in 1 .. n : WithinBlock(k) =>
         Logged(history[k], C[k - 1], P[k - 1], C[k], P[k])

\* Where the machine is in the log.
Cursor == IF control.mode = "undo" THEN control.at ELSE Len(history)

\* Event p will fail every rollback that is to come: its message was received
\* or lost, and it lies in every open block.
FailsAt(p) ==
    LET e == history[p]
    IN  /\ e.kind = "send"
        /\ ReceivedAfter(p, e.chan, e.id) \/ ~Queued(e.chan, e.id)
        /\ \A i \in Open : blocks[i].start < p /\ blocks[i].branch = e.branch
        /\ control.mode = "undo" => /\ control.start < p /\ p <= control.at
                                    /\ e.branch = control.branch

\* No abort can succeed before all blocks are left.
Doomed == control.mode # "run" /\ \E p \in DOMAIN history : FailsAt(p)

\* The queues can be followed back to the start of every block, unless no abort
\* can succeed.
QueuesTraced == Doomed \/ \E C, P : Past(C, P, Cursor)

\* Once no block is open any past will do.
LEMMA NoPast ==
    ASSUME TypeOK', Open' = {}, ~Aborting', NEW n \in Nat
    PROVE  \E C, P : Past(C, P, n)'
<1>1. PICK c1 \in QueueMaps, p1 \in QueueMaps : channels' = c1 /\ pending' = p1
  BY DEF TypeOK, QueueMaps
<1> DEFINE C == [k \in Nat |-> c1]
           P == [k \in Nat |-> p1]
<1>2. /\ C \in [Nat -> QueueMaps] /\ P \in [Nat -> QueueMaps]
      /\ C[n] = c1 /\ P[n] = p1
  OBVIOUS
<1> HIDE DEF C, P
<1>3. \A k : ~WithinBlock(k)'
  BY DEF WithinBlock
<1>4. Past(C, P, n)'
  BY <1>1, <1>2, <1>3 DEF Past
<1> QED
  BY <1>4

\* One event more.
LEMMA PastGrows ==
    ASSUME NEW C, NEW P, NEW n \in Nat, Past(C, P, n), ~Aborting',
           NEW c1 \in QueueMaps, NEW p1 \in QueueMaps,
           channels' = c1, pending' = p1,
           \A k \in 1 .. n : history'[k] = history[k],
           \A i \in Open' : i \in Open /\ blocks'[i] = blocks[i]
                            /\ blocks[i].start \in Nat,
           Logged(history'[n + 1], channels, pending, c1, p1)
    PROVE  \E D, Q : Past(D, Q, n + 1)'
<1> DEFINE D == [C EXCEPT ![n + 1] = c1]
           Q == [P EXCEPT ![n + 1] = p1]
<1>1. /\ D \in [Nat -> QueueMaps] /\ Q \in [Nat -> QueueMaps]
      /\ D[n + 1] = c1 /\ Q[n + 1] = p1
      /\ \A k \in 0 .. n : D[k] = C[k] /\ Q[k] = P[k]
  BY DEF Past
<1> HIDE DEF D, Q
<1>2. ASSUME NEW i \in Open'
      PROVE  /\ blocks'[i].start <= n + 1
             /\ D[blocks'[i].start] = blocks'[i].before.channels
             /\ Q[blocks'[i].start] = blocks'[i].before.pending
  BY <1>1 DEF Past
<1>3. ASSUME NEW k \in 1 .. n + 1, WithinBlock(k)'
      PROVE  Logged(history'[k], D[k - 1], Q[k - 1], D[k], Q[k])
  <2>1. CASE k = n + 1
    BY <1>1, <2>1 DEF Past
  <2>2. CASE k # n + 1
    <3>1. k \in 1 .. n /\ k - 1 \in 0 .. n /\ k \in 0 .. n
      BY <2>2
    <3>2. WithinBlock(k)
      BY <1>3 DEF WithinBlock
    <3> QED
      BY <1>1, <3>1, <3>2 DEF Past
  <2> QED
    BY <2>1, <2>2
<1>4. /\ D \in [Nat -> QueueMaps] /\ Q \in [Nat -> QueueMaps]
      /\ D[n + 1] = channels' /\ Q[n + 1] = pending'
  BY <1>1
<1>5. ASSUME NEW CC, NEW QQ, CC = D, QQ = Q PROVE Past(CC, QQ, n + 1)'
  BY <1>2, <1>3, <1>4, <1>5 DEF Past
<1> QED
  BY <1>5

\* A send is an event of the past that an abort can undo.
LEMMA SendLogged ==
    ASSUME TypeInv, MessagesOld, NEW b \in Branch, NEW v \in Var,
           NEW c \in Chan, ChannelSend(b, v, c)
    PROVE  LET e == [kind |-> "send", branch |-> b, chan |-> c, id |-> nextId]
           IN  /\ e \in CausalEvent /\ history' = Append(history, e)
               /\ Logged(e, channels, pending, channels', pending')
<1> DEFINE e == [kind |-> "send", branch |-> b, chan |-> c, id |-> nextId]
           m == [id |-> nextId, sender |-> b, payload |-> timeline[b].arena[v]]
<1>1. /\ e \in CausalEvent /\ e.kind = "send" /\ e.chan = c /\ e.id = nextId
      /\ m \in Message /\ m.id = nextId /\ nextId \in Nat
  BY ValidIsValue
     DEF ChannelSend, CausalEvent, SendEvent, Message, TypeInv, TypeOK
<1>2. /\ history' = Append(history, e)
      /\ \/ channels' = channels /\ pending' = pending
         \/ channels' = channels
            /\ pending' = [pending EXCEPT ![c] = Append(@, m)]
         \/ pending' = pending
            /\ channels' = [channels EXCEPT ![c] = Append(@, m)]
  BY DEF ChannelSend
<1>3. ~InQueue(channels[c], nextId) /\ ~InQueue(pending[c], nextId)
  BY <1>1 DEF MessagesOld, Old, InQueue
<1> HIDE DEF e, m
<1>4. Logged(e, channels, pending, channels', pending')
  BY <1>1, <1>2, <1>3 DEF Logged
<1> QED
  BY <1>1, <1>2, <1>4 DEF e

\* So is a receive.
LEMMA ReceiveLogged ==
    ASSUME TypeInv, NEW b \in Branch, NEW v \in Var,
           NEW c \in Chan, ChannelReceive(b, v, c)
    PROVE  LET e == [kind |-> "recv", branch |-> b, chan |-> c,
                     message |-> Head(channels[c])]
           IN  /\ e \in CausalEvent /\ history' = Append(history, e)
               /\ Logged(e, channels, pending, channels', pending')
<1> DEFINE S == channels[c]
           m == Head(S)
           e == [kind |-> "recv", branch |-> b, chan |-> c, message |-> m]
<1>1. S \in Seq(Message) /\ S # <<>>
  BY DEF ChannelReceive, TypeInv, TypeOK
<1>2. m \in Message /\ Tail(S) \in Seq(Message) /\ <<m>> \o Tail(S) = S
  <2> HIDE DEF S
  <2> QED
    BY <1>1, HeadTailProperties, HeadBack
<1>3. e \in CausalEvent /\ e.kind = "recv" /\ e.chan = c /\ e.message = m
  BY <1>2 DEF CausalEvent, RecvEvent
<1>4. /\ history' = Append(history, e)
      /\ channels' = [channels EXCEPT ![c] = Tail(S)]
      /\ pending' = pending
  BY DEF ChannelReceive
<1>5. /\ channels'[c] = Tail(S)
      /\ channels = [channels' EXCEPT ![c] = S]
  BY <1>4 DEF TypeInv, TypeOK
<1> HIDE DEF m, e
<1>6. channels = [channels' EXCEPT ![c] = <<m>> \o @]
  BY <1>2, <1>5
<1>7. Logged(e, channels, pending, channels', pending')
  BY <1>3, <1>4, <1>6 DEF Logged
<1> QED
  BY <1>3, <1>4, <1>7 DEF e, m

\* A statement goes on from where the machine is.
LEMMA QueuesStatement ==
    ASSUME Restorable, TypeInv, TypeInv', AnchorsInside, MessagesOld,
           QueuesTraced, [Next]_vars, NEW b \in Branch, Statement(b)
    PROVE  QueuesTraced'
<1> DEFINE n == Len(history)
<1>1. n \in Nat /\ DOMAIN history = 1 .. n
  BY Positions DEF TypeInv
<1>2. control.mode = "run" /\ control'.mode # "undo" /\ ~Aborting'
  BY StatementTouches, StatementControl
<1>3. PICK C, P : Past(C, P, n)
  BY <1>2 DEF QueuesTraced, Doomed, Cursor
<1>4. Cursor' = Len(history')
  BY <1>2 DEF Cursor
<1>5. CASE ~SpeculateBegin(b) /\ UNCHANGED <<channels, pending, history>>
  <2>1. \A i \in Open' : i \in Open /\ blocks'[i] = blocks[i]
    BY <1>5, OpenAfter
  <2>2. Past(C, P, n)'
    BY <1>2, <1>3, <1>5, <2>1 DEF Past, WithinBlock
  <2> QED
    BY <1>4, <1>5, <2>2 DEF QueuesTraced
<1>6. CASE SpeculateBegin(b)
  <2>1. UNCHANGED <<channels, pending, history>>
    BY <1>6 DEF SpeculateBegin, queueVars
  <2>2. ASSUME NEW i \in Open'
        PROVE  \/ i \in Open /\ blocks'[i] = blocks[i]
               \/ /\ blocks'[i].start = n
                  /\ blocks'[i].before.channels = channels
                  /\ blocks'[i].before.pending = pending
    <3>1. CASE blocks'[i] = [kind |-> "speculate", branch |-> b,
                             saved |-> timeline[b], start |-> n,
                             before |-> [timeline |-> timeline,
                                         channels |-> channels,
                                         pending |-> pending]]
      BY <3>1
    <3> QED
      BY <3>1, OpenAfter
  <2>3. \A k \in 1 .. n : WithinBlock(k)' => WithinBlock(k)
    BY <1>1, <1>2, <2>2 DEF WithinBlock
  <2>4. Past(C, P, n)'
    <3>1. /\ C \in [Nat -> QueueMaps] /\ P \in [Nat -> QueueMaps]
          /\ C[n] = channels /\ P[n] = pending
          /\ \A i \in Open :
               /\ blocks[i].start <= n
               /\ C[blocks[i].start] = blocks[i].before.channels
               /\ P[blocks[i].start] = blocks[i].before.pending
          /\ \A k \in 1 .. n : WithinBlock(k) =>
               Logged(history[k], C[k - 1], P[k - 1], C[k], P[k])
      BY <1>3 DEF Past
    <3> HIDE DEF n
    <3>2. n' = n
      BY <2>1 DEF n
    <3>3. ASSUME NEW i \in Open'
          PROVE  /\ blocks'[i].start <= n
                 /\ C[blocks'[i].start] = blocks'[i].before.channels
                 /\ P[blocks'[i].start] = blocks'[i].before.pending
      BY <1>1, <2>2, <3>1
    <3> QED
      BY <1>2, <2>1, <2>3, <3>1, <3>2, <3>3 DEF Past
  <2> QED
    BY <1>4, <2>1, <2>4 DEF QueuesTraced
<1>7. ASSUME NEW e \in CausalEvent, ~SpeculateBegin(b),
             history' = Append(history, e),
             Logged(e, channels, pending, channels', pending')
      PROVE  QueuesTraced'
  <2>1. \A i \in Open' : i \in Open /\ blocks'[i] = blocks[i]
                         /\ blocks[i].start \in Nat
    BY <1>7, OpenAfter, SpeculationType DEF TypeInv, Open
  <2>2. /\ \A k \in 1 .. n : history'[k] = history[k]
        /\ history'[n + 1] = e
        /\ Len(history') = n + 1
    BY <1>1, <1>7, LogGrows, PushProperties DEF TypeInv, TypeOK
  <2>3. PICK c1 \in QueueMaps, p1 \in QueueMaps : channels' = c1 /\ pending' = p1
    BY DEF TypeInv, TypeOK, QueueMaps
  <2>4. PICK k \in Nat : k = n
    BY <1>1
  <2>5. \E D, Q : Past(D, Q, k + 1)'
    BY <1>2, <1>3, <1>7, <2>1, <2>2, <2>3, <2>4, PastGrows
  <2> QED
    BY <1>4, <2>2, <2>4, <2>5 DEF QueuesTraced
<1>8. ASSUME NEW v \in Var, NEW c \in Chan, ChannelSend(b, v, c)
      PROVE  QueuesTraced'
  <2>1. ~SpeculateBegin(b)
    <3>1. PICK e \in CausalEvent : history' = Append(history, e)
      BY <1>8, SendLogged
    <3>2. DOMAIN history' = 1 .. n + 1
      BY <3>1, LogGrows DEF TypeInv
    <3>3. history' # history
      BY <1>1, <3>2
    <3> QED
      BY <3>3 DEF SpeculateBegin
  <2> QED
    BY <1>7, <1>8, <2>1, SendLogged
<1>9. ASSUME NEW v \in Var, NEW c \in Chan, ChannelReceive(b, v, c)
      PROVE  QueuesTraced'
  <2>1. ~SpeculateBegin(b)
    <3>1. PICK e \in CausalEvent : history' = Append(history, e)
      BY <1>9, ReceiveLogged
    <3>2. DOMAIN history' = 1 .. n + 1
      BY <3>1, LogGrows DEF TypeInv
    <3>3. history' # history
      BY <1>1, <3>2
    <3> QED
      BY <3>3 DEF SpeculateBegin
  <2> QED
    BY <1>7, <1>9, <2>1, ReceiveLogged
<1>10. ASSUME NEW c \in Chan, ChannelOpen(b, c), c \notin opened
       PROVE  UNCHANGED <<channels, pending, history>>
  <2>1. channels[c] = <<>> /\ pending[c] = <<>>
    BY <1>10 DEF MessagesOld
  <2> QED
    BY <1>10, <2>1 DEF ChannelOpen, TypeInv, TypeOK
<1>11. CASE \/ \E v \in Var : \/ Assign(b, v)
                              \/ \E w \in Var : MoveLocal(b, w, v)
            \/ \E a \in AnchorName : SetAnchor(b, a)
            \/ Slice(b) \/ CommitBegin(b)
  <2>1. UNCHANGED <<channels, pending, history>>
    BY <1>11 DEF Assign, MoveLocal, SetAnchor, Slice, CommitBegin, queueVars
  <2> QED
    BY <1>5, <1>6, <2>1
<1> QED
  BY <1>5, <1>6, <1>8, <1>9, <1>10, <1>11, RestorableStatement

\* Leaving a block changes nothing for those around it; past the last one
\* nothing is left to abort.
LEMMA QueuesLeave ==
    ASSUME TypeInv, TypeInv', QueuesTraced, [Next]_vars, Leaves
    PROVE  QueuesTraced'
<1>1. /\ UNCHANGED <<channels, pending, history>>
      /\ control.mode # "undo" /\ control'.mode # "undo"
      /\ control'.mode = "run" => control.mode = "run" \/ blocks = <<>>
      /\ \A i \in Open' : i \in Open /\ blocks'[i] = blocks[i]
  BY LeavesTouch, StillOpen
<1>2. /\ Len(history) \in Nat /\ ~Aborting'
      /\ Cursor = Len(history) /\ Cursor' = Len(history)
  BY <1>1, Positions DEF Cursor, Aborting, TypeInv
<1>3. ASSUME NEW C, NEW P, Past(C, P, Len(history)) PROVE QueuesTraced'
  <2>1. Past(C, P, Len(history))'
    BY <1>1, <1>2, <1>3 DEF Past, WithinBlock
  <2> QED
    BY <1>1, <1>2, <2>1 DEF QueuesTraced
<1>4. CASE Doomed /\ control'.mode # "run"
  <2>1. PICK p \in DOMAIN history : FailsAt(p)
    BY <1>4 DEF Doomed
  <2>2. FailsAt(p)'
    BY <1>1, <2>1 DEF FailsAt, ReceivedAfter, Queued
  <2> QED
    BY <1>1, <1>4, <2>2 DEF QueuesTraced, Doomed
<1>5. CASE Doomed /\ control'.mode = "run"
  <2>1. blocks = <<>>
    BY <1>1, <1>5 DEF Doomed
  <2>2. Open' = {}
    BY <1>1, <2>1 DEF Open
  <2>3. PICK n \in Nat : n = Len(history)
    BY <1>2
  <2>4. \E C, P : Past(C, P, n)'
    <3>1. TypeOK' /\ Open' = {} /\ ~Aborting'
      BY <1>2, <2>2 DEF TypeInv
    <3> QED
      BY <3>1, NoPast
  <2> QED
    BY <1>2, <2>3, <2>4 DEF QueuesTraced
<1> QED
  BY <1>2, <1>3, <1>4, <1>5 DEF QueuesTraced

\* An abort sets out from where the machine is.
LEMMA QueuesAbort ==
    ASSUME TypeInv, AnchorsInside, OneBranch, QueuesTraced, Aborts
    PROVE  QueuesTraced'
<1> DEFINE n == Len(blocks)
           b == Top.branch
<1>1. /\ n \in Open /\ Top = blocks[n] /\ b \in Branch
      /\ Open' = Open \ {n}
      /\ \A i \in Open' : blocks'[i] = blocks[i] /\ i < n
      /\ UNCHANGED <<channels, pending, history>>
      /\ control' = [mode |-> "undo", branch |-> b,
                     at |-> Len(history), start |-> Top.start,
                     resume |-> [kind |-> "abort", before |-> Top.before]]
      /\ Aborting'
      /\ Top.start \in Nat /\ Top.start <= Len(history)
      /\ Len(history) \in Nat
  BY AbortTouches
<1>2. /\ control'.mode = "undo" /\ control'.at = Len(history)
      /\ control'.start = Top.start /\ control'.branch = b
      /\ control'.resume.before = Top.before
  BY <1>1
<1>3. control.mode # "undo" /\ Cursor = Len(history) /\ Cursor' = Len(history)
  BY <1>2 DEF Aborts, Cursor
<1>4. \A i \in Open' : i \in Open /\ blocks'[i] = blocks[i]
  BY <1>1
<1> HIDE DEF n, b
<1>5. ASSUME NEW C, NEW P, Past(C, P, Len(history)) PROVE QueuesTraced'
  <2>1. \A k \in Nat : WithinBlock(k)' => WithinBlock(k)
    BY <1>1, <1>2, <1>4 DEF WithinBlock
  <2>2. /\ Top.start <= Len(history)
        /\ C[Top.start] = Top.before.channels
        /\ P[Top.start] = Top.before.pending
    BY <1>1, <1>5 DEF Past
  <2>3. Past(C, P, Len(history))'
    BY <1>1, <1>2, <1>4, <1>5, <2>1, <2>2 DEF Past
  <2> QED
    BY <1>1, <1>3, <2>3 DEF QueuesTraced
<1>6. CASE Doomed
  <2>1. PICK p \in DOMAIN history : FailsAt(p)
    BY <1>6 DEF Doomed
  <2>2. p <= Len(history)
    BY <1>1, Positions DEF TypeInv
  <2>3. /\ Top.start < p /\ history[p].branch = b
    BY <1>1, <2>1 DEF FailsAt, b
  <2>4. FailsAt(p)'
    BY <1>1, <1>2, <1>4, <2>1, <2>2, <2>3 DEF FailsAt, ReceivedAfter, Queued
  <2> QED
    BY <1>1, <1>2, <2>4 DEF QueuesTraced, Doomed
<1> QED
  BY <1>3, <1>5, <1>6 DEF QueuesTraced

\* Where the rollback of an abort stands: on an event of the block, with the
\* blocks around it further back.
LEMMA AbortWalk ==
    ASSUME TypeInv, AnchorsInside, BlockEvents, Undo
    PROVE  /\ control.at \in 1 .. Len(history) /\ control.at \in DOMAIN history
           /\ control.at - 1 \in Nat /\ Len(history) \in Nat
           /\ control.start \in Nat /\ control.start < control.at
           /\ Event \in CausalEvent /\ Event = history[control.at]
           /\ Event.branch = control.branch /\ Event.kind # "move"
           /\ Aborting /\ WithinBlock(control.at) /\ Cursor = control.at
           /\ \A i \in Open : /\ blocks[i].start \in Nat
                              /\ blocks[i].start <= control.start
                              /\ blocks[i].branch = control.branch
<1>1. /\ control \in [mode : {"undo"}, branch : Branch, at : Nat, start : Nat,
                      resume : Resume]
      /\ control.at > control.start /\ control.mode = "undo"
  BY DEF TypeInv, TypeOK, Control, Undo, Running
<1>2. /\ control.at \in 1 .. Len(history) /\ control.at \in DOMAIN history
      /\ Event \in CausalEvent /\ Len(history) \in Nat
  BY UndoType, Positions DEF TypeInv
<1>3. Aborting /\ AbortInside
  BY <1>1 DEF BlockEvents, AnchorsInside
<1>4. \A i \in Open : /\ blocks[i].start \in Nat
                      /\ blocks[i].start <= control.start
                      /\ blocks[i].branch = control.branch
  BY <1>1, <1>3, SpeculationType DEF AbortInside, BlockEvents, Open, TypeInv
<1>5. Event = history[control.at] /\ Event.branch = control.branch
      /\ Event.kind # "move"
  BY <1>1, <1>2 DEF Event, BlockEvents
<1> QED
  BY <1>1, <1>2, <1>3, <1>4, <1>5 DEF WithinBlock, Cursor

\* What a step of the walk does to control.
LEMMA WalkedBack ==
    ASSUME TypeInv, Undo, NextEvent
    PROVE  /\ control'.at = control.at - 1 /\ control'.start = control.start
           /\ control'.branch = control.branch /\ control'.mode = "undo"
           /\ control'.resume = control.resume
           /\ control.mode = "undo"
<1>1. control \in [mode : {"undo"}, branch : Branch, at : Nat,
                   start : Nat, resume : Resume]
  BY DEF TypeInv, TypeOK, Control, Undo, Running
<1> QED
  BY <1>1 DEF NextEvent

\* One queue of q with m at its front, with m at its back, without position p.
PushFront(q, c, m) == [q EXCEPT ![c] = <<m>> \o q[c]]
PushBack(q, c, m) == [q EXCEPT ![c] = Append(q[c], m)]
TakeAway(q, c, p) == [q EXCEPT ![c] = RemoveAt(q[c], p)]

\* push_front adds the id of its message only.
LEMMA PushedBack ==
    ASSUME NEW q \in [Chan -> Seq(Message)], NEW c \in Chan,
           NEW m \in Message
    PROVE  \A d \in Chan : \A id :
             ~(d = c /\ m.id = id) /\ ~InQueue(q[d], id)
             => ~InQueue(PushFront(q, c, m)[d], id)
<1> DEFINE s == q[c]
           r == PushFront(q, c, m)
<1>1. s \in Seq(Message)
  OBVIOUS
<1>2. r[c] = <<m>> \o s /\ \A d \in Chan \ {c} : r[d] = q[d]
  BY DEF PushFront
<1>3. \A id : m.id # id /\ ~InQueue(s, id) => ~InQueue(<<m>> \o s, id)
  <2> HIDE DEF s
  <2>1. /\ DOMAIN (<<m>> \o s) = 1 .. Len(s) + 1
        /\ \A p \in 1 .. Len(s) + 1 :
             (<<m>> \o s)[p] = IF p = 1 THEN m ELSE s[p - 1]
        /\ Len(s) \in Nat /\ DOMAIN s = 1 .. Len(s)
    BY <1>1, PushFrontProperties, SeqElements
  <2>2. \A p \in DOMAIN (<<m>> \o s) :
          \/ (<<m>> \o s)[p] = m
          \/ p - 1 \in DOMAIN s /\ (<<m>> \o s)[p] = s[p - 1]
    BY <2>1
  <2> QED
    BY <2>2 DEF InQueue
<1> QED
  BY <1>2, <1>3

\* One event less: the queues are those from before it.
LEMMA PastShrinks ==
    ASSUME TypeInv, AnchorsInside, BlockEvents, Undo, NextEvent,
           history' = history, blocks' = blocks,
           NEW C, NEW P, Past(C, P, control.at),
           channels' = C[control.at - 1], pending' = P[control.at - 1]
    PROVE  QueuesTraced'
<1>1. /\ control.at - 1 \in Nat /\ control.start \in Nat
      /\ control.at \in Nat /\ control.start < control.at
      /\ \A i \in Open : /\ blocks[i].start \in Nat
                         /\ blocks[i].start <= control.start
  BY AbortWalk
<1>2. /\ control'.at = control.at - 1 /\ control'.start = control.start
      /\ control'.resume = control.resume /\ control'.mode = "undo"
      /\ control.mode = "undo" /\ Aborting
  BY WalkedBack, AbortWalk
<1>3. PICK n \in Nat : n = control.at - 1
  BY <1>1
<1>4. Cursor' = n /\ Open' = Open /\ Aborting'
  BY <1>2, <1>3 DEF Cursor, Open, Aborting
<1>5. \A k : WithinBlock(k)' => WithinBlock(k)
  BY <1>2, <1>4 DEF WithinBlock
<1>6. \A k \in 1 .. n : k \in 1 .. control.at
  BY <1>1, <1>3
<1>7. /\ control.start <= n
      /\ \A i \in Open : blocks[i].start <= n
  BY <1>1, <1>3
<1>8. Past(C, P, n)'
  BY <1>2, <1>3, <1>4, <1>5, <1>6, <1>7 DEF Past
<1> QED
  BY <1>4, <1>8 DEF QueuesTraced

\* An undone receive: the queues are those from before it.
LEMMA QueuesUndoRecv ==
    ASSUME TypeInv, AnchorsInside, BlockEvents, QueuesTraced, UndoRecv
    PROVE  QueuesTraced'
<1>1. /\ Undo /\ NextEvent /\ Event.kind = "recv"
      /\ channels' = [channels EXCEPT ![Event.chan]
                        = <<Event.message>> \o channels[Event.chan]]
      /\ UNCHANGED <<pending, history, blocks>>
  BY DEF UndoRecv, blockVars
<1>2. /\ control.at \in 1 .. Len(history) /\ control.at \in DOMAIN history
      /\ control.at \in Nat /\ control.at - 1 \in Nat /\ Len(history) \in Nat
      /\ Event = history[control.at]
      /\ WithinBlock(control.at) /\ Cursor = control.at
      /\ Event \in RecvEvent
  BY <1>1, AbortWalk, EventType
<1>3. ASSUME NEW C, NEW P, Past(C, P, control.at) PROVE QueuesTraced'
  <2>1. /\ Logged(Event, C[control.at - 1], P[control.at - 1],
                  C[control.at], P[control.at])
        /\ C[control.at] = channels /\ P[control.at] = pending
    BY <1>2, <1>3 DEF Past
  <2>2. channels' = C[control.at - 1] /\ pending' = P[control.at - 1]
    BY <1>1, <2>1 DEF Logged
  <2> QED
    BY <1>1, <1>3, <2>2, PastShrinks
<1>4. CASE Doomed
  <2>1. PICK p \in DOMAIN history : FailsAt(p)
    BY <1>4 DEF Doomed
  <2> DEFINE e == history[p]
  <2>2. /\ control'.at = control.at - 1 /\ control'.start = control.start
        /\ control'.branch = control.branch /\ control'.mode = "undo"
        /\ control.mode = "undo"
    BY <1>1, WalkedBack
  <2>3. p \in Nat /\ p < control.at /\ e.kind = "send" /\ e \in SendEvent
    <3>1. p \in Nat /\ e \in CausalEvent
      BY Positions DEF TypeInv
    <3>2. p <= control.at /\ e.kind = "send"
      BY <2>1, <2>2 DEF FailsAt
    <3>3. p # control.at
      BY <1>1, <1>2, <3>2
    <3> QED
      BY <1>2, <3>1, <3>2, <3>3, EventType
  <2>4. ReceivedAfter(p, e.chan, e.id) \/ ~Queued(e.chan, e.id)'
    <3>1. CASE Event.chan = e.chan /\ Event.message.id = e.id
      <4>1. control.at \in p + 1 .. Len(history)
        BY <1>2, <2>3
      <4> QED
        BY <1>1, <1>2, <3>1, <4>1 DEF ReceivedAfter
    <3>2. CASE ~(Event.chan = e.chan /\ Event.message.id = e.id)
                 /\ ~Queued(e.chan, e.id)
      <4>1. \A d \in Chan : \A id : ~(d = Event.chan /\ Event.message.id = id)
              /\ ~InQueue(channels[d], id) => ~InQueue(channels'[d], id)
        <5>1. /\ channels \in [Chan -> Seq(Message)]
              /\ Event.chan \in Chan /\ Event.message \in Message
          BY <1>2 DEF TypeInv, TypeOK, RecvEvent
        <5>2. channels' = [channels EXCEPT ![Event.chan]
                             = <<Event.message>> \o channels[Event.chan]]
          BY <1>1
        <5>3. PICK q \in [Chan -> Seq(Message)], c \in Chan, m \in Message :
                q = channels /\ c = Event.chan /\ m = Event.message
          BY <5>1
        <5>4. channels' = PushFront(q, c, m)
          BY <5>2, <5>3 DEF PushFront
        <5>5. \A d \in Chan : \A id : ~(d = c /\ m.id = id)
                /\ ~InQueue(q[d], id) => ~InQueue(PushFront(q, c, m)[d], id)
          BY PushedBack
        <5> QED
          BY <5>3, <5>4, <5>5
      <4>2. ~InQueue(channels'[e.chan], e.id) /\ ~InQueue(pending[e.chan], e.id)
        BY <2>3, <3>2, <4>1 DEF Queued, SendEvent
      <4>3. history'[p] = history[p]
        BY <1>1
      <4> QED
        BY <1>1, <4>2, <4>3 DEF Queued
    <3> QED
      BY <2>1, <3>1, <3>2 DEF FailsAt
  <2>5. FailsAt(p)'
    <3>1. p <= control'.at
      BY <1>2, <2>2, <2>3
    <3>2. Open' = Open
      BY <1>1 DEF Open
    <3> QED
      BY <1>1, <2>1, <2>2, <2>3, <2>4, <3>1, <3>2 DEF FailsAt, ReceivedAfter
  <2> QED
    BY <1>1, <2>2, <2>5 DEF QueuesTraced, Doomed
<1> QED
  BY <1>2, <1>3, <1>4 DEF QueuesTraced

\* Un-send after send: the first message of that id is the one pushed last.
LEMMA UnsendPushed ==
    ASSUME NEW q0 \in QueueMaps, NEW c \in Chan, NEW m \in Message,
           ~InQueue(q0[c], m.id)
    PROVE  \A p : FirstAt(PushBack(q0, c, m)[c], m.id, p)
                    => TakeAway(PushBack(q0, c, m), c, p) = q0
<1> DEFINE s == q0[c]
           q1 == PushBack(q0, c, m)
<1>1. s \in Seq(Message) /\ q1[c] = Append(s, m) /\ q0 \in [Chan -> Seq(Message)]
  BY DEF QueueMaps, PushBack
<1>2. ~InQueue(s, m.id)
  OBVIOUS
<1>3. /\ Append(s, m) \in Seq(Message) /\ Len(Append(s, m)) = Len(s) + 1
      /\ \A i \in 1 .. Len(s) : Append(s, m)[i] = s[i]
      /\ Len(s) \in Nat /\ DOMAIN s = 1 .. Len(s)
      /\ DOMAIN Append(s, m) = 1 .. Len(s) + 1
      /\ RemoveAt(Append(s, m), Len(s) + 1) = s
  <2> HIDE DEF s
  <2> QED
    BY <1>1, PushProperties, SeqElements, RemovePushed
<1>4. q1 = [q0 EXCEPT ![c] = Append(s, m)]
  BY DEF PushBack
<1>5. s = q0[c]
  OBVIOUS
<1> HIDE DEF s, q1
<1>6. ASSUME NEW p, FirstAt(q1[c], m.id, p)
      PROVE  TakeAway(q1, c, p) = q0
  <2>1. p \in 1 .. Len(s) + 1 /\ Append(s, m)[p].id = m.id
    BY <1>1, <1>3, <1>6 DEF FirstAt
  <2>2. p = Len(s) + 1
    BY <1>2, <1>3, <2>1 DEF InQueue
  <2>3. RemoveAt(q1[c], p) = s
    BY <1>1, <1>3, <2>2
  <2>4. [q1 EXCEPT ![c] = s] = q0
    BY <1>1, <1>4, <1>5
  <2> QED
    BY <2>3, <2>4 DEF TakeAway
<1> QED
  BY <1>6 DEF q1

\* Removing a message adds none.
LEMMA RemovedKeepsOut ==
    ASSUME NEW q \in QueueMaps, NEW r, NEW c \in Chan, NEW p \in DOMAIN q[c],
           r = [q EXCEPT ![c] = RemoveAt(q[c], p)]
    PROVE  \A d \in Chan : \A id : ~InQueue(q[d], id) => ~InQueue(r[d], id)
<1>1. q[c] \in Seq(Message) /\ q \in [Chan -> Seq(Message)]
  BY DEF QueueMaps
<1>2. \A i \in DOMAIN RemoveAt(q[c], p) :
        \E k \in DOMAIN q[c] : RemoveAt(q[c], p)[i] = q[c][k]
  BY <1>1, RemovedFrom
<1>3. r[c] = RemoveAt(q[c], p) /\ \A d \in Chan \ {c} : r[d] = q[d]
  BY <1>1
<1> QED
  BY <1>2, <1>3 DEF InQueue

\* What undoing a send does.
LEMMA UnsendCases ==
    ASSUME TypeInv, AnchorsInside, BlockEvents, UndoSend
    PROVE  /\ UNCHANGED <<history, blocks>>
           /\ Event \in SendEvent /\ Event.kind = "send"
           /\ \/ /\ \/ ReceivedAfter(control.at, Event.chan, Event.id)
                    \/ ~Queued(Event.chan, Event.id)
                 /\ control' = Raising("Paradox")
                 /\ UNCHANGED <<channels, pending>>
              \/ /\ ~ReceivedAfter(control.at, Event.chan, Event.id)
                 /\ Queued(Event.chan, Event.id)
                 /\ NextEvent
                 /\ \/ /\ pending' = pending
                       /\ \E p \in DOMAIN channels[Event.chan] :
                            /\ FirstAt(channels[Event.chan], Event.id, p)
                            /\ channels' = [channels EXCEPT ![Event.chan] =
                                 RemoveAt(channels[Event.chan], p)]
                    \/ /\ channels' = channels
                       /\ ~InQueue(channels[Event.chan], Event.id)
                       /\ \E p \in DOMAIN pending[Event.chan] :
                            /\ FirstAt(pending[Event.chan], Event.id, p)
                            /\ pending' = [pending EXCEPT ![Event.chan] =
                                 RemoveAt(pending[Event.chan], p)]
<1>1. Undo /\ Event.kind = "send" /\ UNCHANGED <<history, blocks>>
  BY DEF UndoSend, blockVars
<1>2. Event \in SendEvent
  BY <1>1, AbortWalk, EventType
<1>3. \A queue, id, p : FirstAt(queue, id, p) => InQueue(queue, id)
  BY DEF FirstAt, InQueue
<1> QED
  BY <1>1, <1>2, <1>3 DEF UndoSend, RollbackFails, Queued

\* An undone send: the queues are those from before it, or no abort succeeds
\* any more.
LEMMA QueuesUndoSend ==
    ASSUME TypeInv, AnchorsInside, BlockEvents, QueuesTraced, UndoSend
    PROVE  QueuesTraced'
<1> DEFINE e == Event
           c == Event.chan
<1>1. /\ Undo /\ UNCHANGED <<history, blocks>>
      /\ Event \in SendEvent /\ Event.kind = "send" /\ Event.chan \in Chan
  BY UnsendCases DEF UndoSend, SendEvent
<1>2. /\ control.at \in 1 .. Len(history) /\ control.at \in DOMAIN history
      /\ control.at \in Nat /\ control.at - 1 \in Nat /\ Len(history) \in Nat
      /\ control.start < control.at /\ control.start \in Nat
      /\ Event = history[control.at] /\ Event.branch = control.branch
      /\ WithinBlock(control.at) /\ Cursor = control.at
      /\ \A i \in Open : /\ blocks[i].start \in Nat
                         /\ blocks[i].start <= control.start
                         /\ blocks[i].branch = control.branch
  BY <1>1, AbortWalk
<1>3. Open' = Open
  BY <1>1 DEF Open
<1>4. CASE /\ \/ ReceivedAfter(control.at, Event.chan, Event.id)
              \/ ~Queued(Event.chan, Event.id)
           /\ control' = Raising("Paradox")
           /\ UNCHANGED <<channels, pending>>
  <2>1. PICK p \in DOMAIN history : p = control.at
    BY <1>2
  <2>2. history[p] = Event /\ control'.mode = "raise"
    BY <1>2, <1>4, <2>1 DEF Raising
  <2>3. \A i \in Open : blocks[i].start < p /\ blocks[i].branch = Event.branch
    BY <1>2, <2>1
  <2>4. FailsAt(p)'
    BY <1>1, <1>3, <1>4, <2>1, <2>2, <2>3
       DEF FailsAt, ReceivedAfter, Queued
  <2> QED
    BY <1>1, <2>2, <2>4 DEF QueuesTraced, Doomed
<1>5. CASE /\ ~ReceivedAfter(control.at, Event.chan, Event.id)
           /\ Queued(Event.chan, Event.id)
           /\ NextEvent
           /\ \/ /\ pending' = pending
                 /\ \E p \in DOMAIN channels[Event.chan] :
                      /\ FirstAt(channels[Event.chan], Event.id, p)
                      /\ channels' = [channels EXCEPT ![Event.chan] =
                           RemoveAt(channels[Event.chan], p)]
              \/ /\ channels' = channels
                 /\ ~InQueue(channels[Event.chan], Event.id)
                 /\ \E p \in DOMAIN pending[Event.chan] :
                      /\ FirstAt(pending[Event.chan], Event.id, p)
                      /\ pending' = [pending EXCEPT ![Event.chan] =
                           RemoveAt(pending[Event.chan], p)]
  <2>1. CASE Doomed
    <3>1. PICK p \in DOMAIN history : FailsAt(p)
      BY <2>1 DEF Doomed
    <3>2. /\ control'.at = control.at - 1 /\ control'.start = control.start
          /\ control'.branch = control.branch /\ control'.mode = "undo"
          /\ control.mode = "undo"
      BY <1>1, <1>5, WalkedBack
    <3> DEFINE f == history[p]
    <3>3. /\ p \in Nat /\ f \in SendEvent /\ p <= control.at
          /\ control.start < p
          /\ ReceivedAfter(p, f.chan, f.id) \/ ~Queued(f.chan, f.id)
      <4>1. p \in Nat /\ f \in CausalEvent
        BY Positions DEF TypeInv
      <4> QED
        BY <3>1, <3>2, <4>1, EventType DEF FailsAt
    <3>4. p # control.at
      BY <1>2, <1>5, <3>3
    <3>5. p <= control'.at
      BY <1>2, <3>2, <3>3, <3>4
    <3>6. \A d \in Chan : \A id :
            /\ ~InQueue(channels[d], id) => ~InQueue(channels'[d], id)
            /\ ~InQueue(pending[d], id) => ~InQueue(pending'[d], id)
      <4>1. PICK q1 \in QueueMaps, q2 \in QueueMaps, d \in Chan :
              q1 = channels /\ q2 = pending /\ d = Event.chan
        BY <1>1 DEF TypeInv, TypeOK, QueueMaps
      <4>2. PICK r1, r2 : r1 = channels' /\ r2 = pending'
        OBVIOUS
      <4>3. /\ r1 = q1 \/ \E k \in DOMAIN q1[d] :
                             r1 = [q1 EXCEPT ![d] = RemoveAt(q1[d], k)]
            /\ r2 = q2 \/ \E k \in DOMAIN q2[d] :
                             r2 = [q2 EXCEPT ![d] = RemoveAt(q2[d], k)]
        BY <1>5, <4>1, <4>2
      <4>4. \A dd \in Chan : \A id :
              /\ ~InQueue(q1[dd], id) => ~InQueue(r1[dd], id)
              /\ ~InQueue(q2[dd], id) => ~InQueue(r2[dd], id)
        BY <4>3, RemovedKeepsOut
      <4> QED
        BY <4>1, <4>2, <4>4
    <3>7. ReceivedAfter(p, f.chan, f.id)
            \/ ~(InQueue(channels'[f.chan], f.id)
                 \/ InQueue(pending'[f.chan], f.id))
      BY <3>3, <3>6 DEF Queued, SendEvent
    <3>8. FailsAt(p)'
      BY <1>1, <1>3, <3>1, <3>2, <3>3, <3>5, <3>7
         DEF FailsAt, ReceivedAfter, Queued
    <3> QED
      BY <1>1, <3>2, <3>8 DEF QueuesTraced, Doomed
  <2>2. ASSUME NEW C, NEW P, Past(C, P, control.at) PROVE QueuesTraced'
    <3>1. PICK q0 \in QueueMaps, p0 \in QueueMaps, d \in Chan, id \in Nat :
            /\ q0 = C[control.at - 1] /\ p0 = P[control.at - 1]
            /\ d = Event.chan /\ id = Event.id
      BY <1>1, <1>2, <2>2 DEF Past, SendEvent
    <3>2. Logged(Event, q0, p0, channels, pending)
      BY <1>2, <2>2, <3>1 DEF Past
    <3>3. ~InQueue(q0[d], id) /\ ~InQueue(p0[d], id)
          /\ \/ channels = q0 /\ pending = p0
             \/ \E m \in Message :
                  /\ m.id = id
                  /\ \/ /\ pending = p0
                        /\ channels = [q0 EXCEPT ![d] = Append(q0[d], m)]
                     \/ /\ channels = q0
                        /\ pending = [p0 EXCEPT ![d] = Append(p0[d], m)]
      BY <1>1, <3>1, <3>2 DEF Logged
    <3>4. ~(channels = q0 /\ pending = p0)
      BY <1>5, <3>1, <3>3 DEF Queued
    <3>5. PICK m \in Message :
            /\ m.id = id
            /\ \/ /\ pending = p0
                  /\ channels = [q0 EXCEPT ![d] = Append(q0[d], m)]
               \/ /\ channels = q0
                  /\ pending = [p0 EXCEPT ![d] = Append(p0[d], m)]
      BY <3>3, <3>4
    <3>7. channels' = q0 /\ pending' = p0
      <4>0. \A queue, k, p : FirstAt(queue, k, p) => InQueue(queue, k)
        BY DEF FirstAt, InQueue
      <4>1. CASE pending = p0 /\ channels = [q0 EXCEPT ![d] = Append(q0[d], m)]
        <5>1. \A p : FirstAt(channels[d], m.id, p)
                       => TakeAway(channels, d, p) = q0
          <6>1. channels = PushBack(q0, d, m)
            BY <4>1 DEF PushBack
          <6>2. \A p : FirstAt(PushBack(q0, d, m)[d], m.id, p)
                         => TakeAway(PushBack(q0, d, m), d, p) = q0
            BY <3>3, <3>5, UnsendPushed
          <6> QED
            BY <6>1, <6>2
        <5>2. ~InQueue(pending[d], id)
          BY <3>3, <4>1
        <5>3. pending' = pending /\ \E p \in DOMAIN channels[d] :
                /\ FirstAt(channels[d], id, p)
                /\ channels' = [channels EXCEPT ![d] = RemoveAt(channels[d], p)]
          BY <1>5, <3>1, <4>0, <5>2
        <5> QED
          BY <3>5, <4>1, <5>1, <5>3 DEF TakeAway
      <4>2. CASE channels = q0 /\ pending = [p0 EXCEPT ![d] = Append(p0[d], m)]
        <5>1. \A p : FirstAt(pending[d], m.id, p)
                       => TakeAway(pending, d, p) = p0
          <6>1. pending = PushBack(p0, d, m)
            BY <4>2 DEF PushBack
          <6>2. \A p : FirstAt(PushBack(p0, d, m)[d], m.id, p)
                         => TakeAway(PushBack(p0, d, m), d, p) = p0
            BY <3>3, <3>5, UnsendPushed
          <6> QED
            BY <6>1, <6>2
        <5>2. ~InQueue(channels[d], id)
          BY <3>3, <4>2
        <5>3. channels' = channels /\ \E p \in DOMAIN pending[d] :
                /\ FirstAt(pending[d], id, p)
                /\ pending' = [pending EXCEPT ![d] = RemoveAt(pending[d], p)]
          BY <1>5, <3>1, <4>0, <5>2
        <5> QED
          BY <3>5, <4>2, <5>1, <5>3 DEF TakeAway
      <4> QED
        BY <3>5, <4>1, <4>2
    <3> QED
      BY <1>1, <1>5, <2>2, <3>1, <3>7, PastShrinks
  <2> QED
    BY <1>2, <2>1, <2>2 DEF QueuesTraced
<1> QED
  BY <1>4, <1>5, UnsendCases

\* A walk that has come to the start of its block is not doomed, and its past
\* ends there.
LEMMA WalkEnds ==
    ASSUME TypeInv, AnchorsInside, BlockEvents, QueuesTraced, Undone("abort")
    PROVE  /\ control.at = control.start /\ control.start \in Nat
           /\ control.start <= Len(history) /\ Len(history) \in Nat
           /\ Aborting /\ control' = Running
           /\ \E C, P : Past(C, P, control.start)
<1>1. control \in [mode : {"undo"}, branch : Branch, at : Nat, start : Nat,
                   resume : Resume]
  BY DEF TypeInv, TypeOK, Control, Undone, Running
<1>2. /\ control.mode = "undo" /\ control.at <= control.start
      /\ control' = Running /\ Aborting
  BY DEF Undone, Aborting
<1>3. control.start <= control.at /\ control.start <= Len(history)
  BY <1>2 DEF BlockEvents, AnchorsInside, AbortInside
<1>4. control.at = control.start /\ Len(history) \in Nat
  BY <1>1, <1>2, <1>3, Positions DEF TypeInv
<1>5. ~Doomed
  <2> SUFFICES ASSUME NEW p \in DOMAIN history, FailsAt(p) PROVE FALSE
    BY DEF Doomed
  <2>1. p \in Nat /\ control.start < p /\ p <= control.at
    BY <1>2, Positions DEF FailsAt, TypeInv
  <2> QED
    BY <1>1, <1>4, <2>1
<1>6. Cursor = control.start
  BY <1>2, <1>4 DEF Cursor
<1> QED
  BY <1>1, <1>2, <1>3, <1>4, <1>5, <1>6 DEF QueuesTraced

\* The end of an abort: the log ends where the block started.
LEMMA QueuesFinish ==
    ASSUME TypeInv, AnchorsInside, BlockEvents, QueuesTraced, [Next]_vars,
           FinishAbort
    PROVE  QueuesTraced'
<1>1. /\ control.at = control.start /\ control.start \in Nat
      /\ control.start <= Len(history) /\ control' = Running
      /\ UNCHANGED <<channels, pending>>
  BY WalkEnds DEF FinishAbort, queueVars
<1>2. PICK C, P : Past(C, P, control.start)
  BY WalkEnds DEF FinishAbort
<1>3. /\ Len(history') = control.start
      /\ \A k \in 1 .. control.start : history'[k] = history[k]
  BY <1>1, LogCut
<1>4. \A i \in Open' : i \in Open /\ blocks'[i] = blocks[i]
  BY StillOpen DEF Rollback
<1>5. PICK n \in Nat : n = control.start
  BY <1>1
<1>6. ~Aborting' /\ Cursor' = n
  BY <1>1, <1>3, <1>5, RunningType DEF Aborting, Cursor
<1>7. \A k \in 1 .. n : WithinBlock(k)' => WithinBlock(k)
  BY <1>4, <1>6 DEF WithinBlock
<1>8. Past(C, P, n)'
  BY <1>1, <1>2, <1>3, <1>4, <1>5, <1>6, <1>7 DEF Past
<1> QED
  BY <1>6, <1>8 DEF QueuesTraced

\* Every step goes on with a past of the queues or ends one.
LEMMA QueuesStep ==
    ASSUME Restorable, TypeInv, AnchorsInside, OneBranch, MessagesOld,
           BlockEvents, QueuesTraced, [Next]_vars
    PROVE  QueuesTraced'
<1>1. TypeInv'
  BY TypeInvStep
<1>2. CASE Rollback
  <2>1. ~UndoOther /\ ~UndoMove
    BY AbortWalk DEF UndoOther, UndoMove
  <2>2. ~FinishRewind /\ ~FinishReset
    BY DEF FinishRewind, FinishReset, Undone, BlockEvents, Aborting
  <2> QED
    BY <1>2, <2>1, <2>2, QueuesUndoSend, QueuesUndoRecv, QueuesFinish
       DEF Rollback
<1>3. CASE UNCHANGED vars
  <2>1. /\ UNCHANGED <<channels, pending, history, control, blocks>>
    BY <1>3 DEF vars, blockVars, queueVars
  <2>2. Open' = Open /\ Cursor' = Cursor /\ (Aborting' <=> Aborting)
    BY <2>1 DEF Open, Cursor, Aborting
  <2>3. \A p : FailsAt(p) => FailsAt(p)'
    BY <2>1, <2>2 DEF FailsAt, ReceivedAfter, Queued
  <2>4. \A C, P : Past(C, P, Cursor) => Past(C, P, Cursor)'
    BY <2>1, <2>2 DEF Past, WithinBlock
  <2> QED
    BY <2>1, <2>3, <2>4 DEF QueuesTraced, Doomed
<1> QED
  BY <1>1, <1>2, <1>3, StepKinds, QueuesStatement, QueuesLeave, QueuesAbort

\* At the start the queues have no past.
LEMMA QueuesInit ==
    ASSUME Init
    PROVE  QueuesTraced
<1>1. /\ channels \in QueueMaps /\ pending \in QueueMaps
      /\ Len(history) = 0 /\ Open = {} /\ ~Aborting /\ Cursor = 0
  BY InitTypeInv, RunningType
     DEF TypeInv, TypeOK, QueueMaps, Init, Open, Aborting, Cursor
<1>2. PICK c0 \in QueueMaps, p0 \in QueueMaps : channels = c0 /\ pending = p0
  BY <1>1
<1> DEFINE C == [k \in Nat |-> c0]
           P == [k \in Nat |-> p0]
<1>3. /\ C \in [Nat -> QueueMaps] /\ P \in [Nat -> QueueMaps]
      /\ C[0] = c0 /\ P[0] = p0
  OBVIOUS
<1> HIDE DEF C, P
<1>4. Past(C, P, 0)
  BY <1>1, <1>2, <1>3 DEF Past
<1> QED
  BY <1>1, <1>4 DEF QueuesTraced

-----------------------------------------------------------------------------
(* Aborts restore *)

\* The invariant that the walk of an abort rests on.
Traceable == MessagesOld /\ BlockEvents /\ TimelinesKept /\ QueuesTraced

\* The invariant holds of every such program.
LEMMA TraceableKept ==
    ASSUME Restorable
    PROVE  Spec => [](Positioned /\ Traceable)
<1>1. Positioned => TypeInv /\ AnchorsInside /\ OneBranch
  BY DEF Positioned, Restorable
<1>2. Init => Traceable
  <2> SUFFICES ASSUME Init PROVE Traceable
    OBVIOUS
  <2>1. MessagesOld
    BY EmptyDomain DEF Init, MessagesOld, Old
  <2>2. BlockEvents /\ TimelinesKept
    BY EmptyDomain, RunningType DEF Init, BlockEvents, TimelinesKept, Open
  <2> QED
    BY <2>1, <2>2, QueuesInit DEF Traceable
<1>3. Positioned /\ Traceable /\ [Next]_vars => Traceable'
  BY <1>1, OldStep, BlockEventsStep, TimelinesKeptStep, QueuesStep DEF Traceable
<1>4. Spec => []Positioned
  BY PositionsKept DEF Restorable
<1> QED
  BY <1>2, <1>3, <1>4, PTL DEF Spec

\* An abort that has walked its log is back in the configuration before it.
LEMMA BackBefore ==
    ASSUME Restorable, Positioned, Traceable, Undone("abort")
    PROVE  /\ Aborting /\ control.resume.before \in Configuration
           /\ timeline = control.resume.before.timeline
           /\ channels = control.resume.before.channels
           /\ pending = control.resume.before.pending
<1>1. /\ TypeInv /\ AnchorsInside
      /\ BlockEvents /\ TimelinesKept /\ QueuesTraced
  BY DEF Positioned, Restorable, Traceable
<1>2. /\ Aborting /\ control.resume.kind = "abort"
      /\ control.start \in Nat /\ control.at = control.start
  BY <1>1, WalkEnds DEF Aborting
<1>3. PICK C, P : Past(C, P, control.start)
  BY <1>1, WalkEnds
<1>4. /\ channels = control.resume.before.channels
      /\ pending = control.resume.before.pending
  BY <1>2, <1>3 DEF Past
<1>5. timeline = control.resume.before.timeline
  BY <1>1, <1>2 DEF TimelinesKept, Aborting
<1>6. control.resume.before \in Configuration
  BY <1>1, <1>2, UndoneType DEF Resume
<1> QED
  BY <1>2, <1>4, <1>5, <1>6

\* An aborted speculation leaves the timelines and the queues it started from,
\* in every program whose blocks the log can take back, whatever was nested in
\* the block and however it ended.
THEOREM AbortsRestore ==
    ASSUME Restorable
    PROVE  Spec => AbortRestores
<1> DEFINE Restores ==
             Undone("abort")
               => [timeline |-> timeline, channels |-> channels,
                   pending |-> pending] = control.resume.before
<1>1. Positioned /\ Traceable => Restores
  BY BackBefore DEF Configuration
<1>2. Positioned /\ Traceable /\ [Next]_vars => [Restores]_vars
  BY <1>1
<1> QED
  BY <1>2, TraceableKept, PTL DEF Spec, AbortRestores

-----------------------------------------------------------------------------
(* Ownership across speculations.  The configuration of now has one owner  *)
(* for each value, and so has each one that an abort may come back to; an  *)
(* abort that does come back is back at exactly that one.                  *)

\* A binding has value x.
BoundIn(tl, x) == \E t \in Branch : \E v \in Var : tl[t].arena[v] = x

\* Message m is in a queue of c.
InEither(q, p, c, m) == Among(q[c], m) \/ Among(p[c], m)

\* In these timelines and queues a value, one of those below n, is at one place.
Settled(tl, q, p, n) ==
    /\ \A t, u \in Branch : \A v, w \in Var : \A x \in Value :
         tl[t].arena[v] = x /\ tl[u].arena[w] = x => t = u /\ v = w
    /\ \A x \in Value : BoundIn(tl, x) =>
         x < n /\ \A c \in Chan : \A m : InEither(q, p, c, m) => m.payload # x
    /\ \A c \in Chan : \A m : InEither(q, p, c, m) => m.payload < n
    /\ Single(q) /\ Single(p) /\ Disjoint(q, p)

SettledNow == Settled(timeline, channels, pending, nextValue)
SettledIn(conf) ==
    Settled(conf.timeline, conf.channels, conf.pending, nextValue)

\* The configurations of now and of the starts of blocks are settled.
AllSettled ==
    /\ control.mode # "undo" => SettledNow
    /\ \A i \in Open : SettledIn(blocks[i].before)
    /\ control.mode = "undo" => SettledIn(control.resume.before)

\* What was settled stays so while values are created elsewhere.
LEMMA SettledLater ==
    ASSUME NEW n \in Nat, NEW k \in Nat, n <= k, NEW tl,
           NEW q, NEW p, Settled(tl, q, p, n),
           \A c \in Chan : \A m : InEither(q, p, c, m) => m.payload \in Nat
    PROVE  Settled(tl, q, p, k)
<1>1. \A x \in Value : x < n => x < k
  BY DEF Value
<1>2. \A c \in Chan : \A m : InEither(q, p, c, m) => m.payload < k
  BY DEF Settled
<1> QED
  BY <1>1, <1>2 DEF Settled

\* The messages of queues are messages.
LEMMA QueuedMessages ==
    ASSUME NEW q \in [Chan -> Seq(Message)], NEW p \in [Chan -> Seq(Message)]
    PROVE  \A c \in Chan : \A m : InEither(q, p, c, m) =>
             m \in Message /\ m.payload \in Value /\ m.payload \in Nat
<1> SUFFICES ASSUME NEW c \in Chan, NEW m, InEither(q, p, c, m)
             PROVE  m \in Message
  BY DEF Message, Value
<1>1. q[c] \in Seq(Message) /\ p[c] \in Seq(Message)
  OBVIOUS
<1> QED
  BY <1>1, SeqElements DEF InEither, Among

\* The values of the bindings and queues of the next state are those of this one.
LEMMA SettledThin ==
    ASSUME SettledNow, nextValue' = nextValue,
           \A t, u \in Branch : \A v, w \in Var : \A x \in Value :
             timeline'[t].arena[v] = x /\ timeline'[u].arena[w] = x
               => t = u /\ v = w,
           \A x \in Value : BoundIn(timeline', x) => BoundIn(timeline, x),
           \A c \in Chan : \A m :
             InEither(channels', pending', c, m)
               => InEither(channels, pending, c, m),
           OnePlace'
    PROVE  SettledNow'
  BY DEF SettledNow, Settled, OnePlace

\* An assignment creates a value that is nowhere.
LEMMA SettledAssign ==
    ASSUME TypeInv, SettledNow, NEW b \in Branch, NEW v \in Var, Assign(b, v)
    PROVE  SettledNow'
<1>1. PICK y \in Value : y = nextValue
  BY DEF TypeInv, TypeOK
<1>2. /\ Bound(b, v, y) /\ UNCHANGED <<channels, pending>>
      /\ nextValue' = y + 1
  BY <1>1, BoundBy DEF Assign, queueVars
<1>3. \A t \in Branch : \A w \in Var : \A x \in Value :
         timeline'[t].arena[w] = x =>
           \/ t = b /\ w = v /\ x = y
           \/ timeline[t].arena[w] = x /\ x < y
  BY <1>1, <1>2 DEF Bound, SettledNow, Settled, BoundIn
<1>4. /\ y \in Nat /\ ~(y < y) /\ y < y + 1
      /\ \A x \in Value : x < y => x < y + 1
  BY DEF Value
<1>5. \A c \in Chan : \A m : InEither(channels, pending, c, m) =>
         /\ m.payload < y /\ m.payload # y /\ m.payload < y + 1
  <2>1. \A c \in Chan : \A m : InEither(channels, pending, c, m) =>
           m.payload \in Nat /\ m.payload < y
    BY <1>1, QueuedMessages DEF TypeInv, TypeOK, SettledNow, Settled
  <2> QED
    BY <1>4, <2>1
<1>6. \A t, u \in Branch : \A i, j \in Var : \A x \in Value :
         timeline'[t].arena[i] = x /\ timeline'[u].arena[j] = x
           => t = u /\ i = j
  BY <1>3, <1>4 DEF SettledNow, Settled
<1>7. \A x \in Value : BoundIn(timeline', x) => x = y \/ BoundIn(timeline, x)
  BY <1>3 DEF BoundIn
<1>8. \A x \in Value : BoundIn(timeline', x) =>
         /\ x < y + 1
         /\ \A c \in Chan : \A m :
              InEither(channels, pending, c, m) => m.payload # x
  BY <1>1, <1>4, <1>5, <1>7 DEF SettledNow, Settled
<1> QED
  BY <1>2, <1>5, <1>6, <1>8 DEF SettledNow, Settled

\* A move within a branch gives the value another name.
LEMMA SettledMove ==
    ASSUME TypeInv, SettledNow, NEW b \in Branch, NEW v \in Var, NEW w \in Var,
           MoveLocal(b, w, v)
    PROVE  SettledNow'
<1>1. PICK y \in Value : y = timeline[b].arena[w]
  BY ValidIsValue DEF MoveLocal, TypeInv
<1>2. /\ Moved(b, w, v, y)
      /\ v # w
      /\ UNCHANGED <<channels, pending, nextValue>>
      /\ Consumed \notin Value
  BY <1>1, MovedBy, ConstantsAssumption DEF MoveLocal, queueVars, Value
<1>3. \A u \in Branch : \A z \in Var : \A x \in Value :
         timeline'[u].arena[z] = x => /\ ~(u = b /\ z = w)
                                      /\ \/ timeline[u].arena[z] = x
                                         \/ u = b /\ z = v /\ x = y
  BY <1>2 DEF Moved

<1>4. ASSUME NEW t \in Branch, NEW u \in Branch, NEW i \in Var, NEW j \in Var,
             NEW x \in Value,
             timeline'[t].arena[i] = x, timeline'[u].arena[j] = x
      PROVE  t = u /\ i = j
  BY <1>1, <1>3, <1>4 DEF SettledNow, Settled
<1>5. \A x \in Value : BoundIn(timeline', x) => BoundIn(timeline, x)
  BY <1>1, <1>3 DEF BoundIn
<1>6. OnePlace'
  BY <1>2 DEF SettledNow, Settled, OnePlace
<1> QED
  BY <1>2, <1>4, <1>5, <1>6, SettledThin

\* A send takes the value out of its binding and into a queue, or to nowhere.
LEMMA SettledSend ==
    ASSUME TypeInv, SettledNow, NEW b \in Branch, NEW v \in Var, NEW c \in Chan,
           ChannelSend(b, v, c)
    PROVE  SettledNow'
<1>1. PICK y \in Value : y = timeline[b].arena[v]
  BY ValidIsValue DEF ChannelSend, TypeInv
<1>2. PICK m \in Message : m = [id |-> nextId, sender |-> b, payload |-> y]
  BY DEF Message, TypeInv, TypeOK
<1>3. /\ Bound(b, v, Consumed) /\ nextValue' = nextValue
      /\ Consumed \notin Value
  BY BoundBy, ConstantsAssumption DEF ChannelSend, Value
<1>4. \A u \in Branch : \A z \in Var : \A x \in Value :
         timeline'[u].arena[z] = x => /\ ~(u = b /\ z = v)
                                      /\ timeline[u].arena[z] = x
  BY <1>3 DEF Bound
<1>5. /\ BoundIn(timeline, y) /\ ~BoundIn(timeline', y) /\ m.payload = y
      /\ \A x \in Value : BoundIn(timeline', x) => BoundIn(timeline, x)
  BY <1>1, <1>2, <1>4 DEF SettledNow, Settled, BoundIn
<1>6. \A d \in Chan : \A n : Waiting(d, n) => n.payload # m.payload
  BY <1>5, WaitingAmong DEF SettledNow, Settled, InEither
<1>7. /\ OnePlace'
      /\ \A d \in Chan : \A n : Waiting(d, n)' =>
           Waiting(d, n) \/ (d = c /\ n = m)
  <2>1. OnePlace
    BY DEF SettledNow, Settled, OnePlace
  <2>2. CASE UNCHANGED <<channels, pending>>
    BY <2>1, <2>2 DEF OnePlace, Waiting
  <2>3. CASE /\ channels' = [channels EXCEPT ![c] = Append(@, m)]
             /\ pending' = pending
    BY <1>6, <2>1, <2>3, PushedPlace
  <2>4. CASE /\ pending' = [pending EXCEPT ![c] = Append(@, m)]
             /\ channels' = channels
    BY <1>6, <2>1, <2>4, PushedPlace
  <2> QED
    BY <1>1, <1>2, <2>2, <2>3, <2>4 DEF ChannelSend
<1>8. \A d \in Chan : \A n : InEither(channels', pending', d, n) =>
         InEither(channels, pending, d, n) \/ n = m
  BY <1>7, WaitingAmong DEF InEither
<1>9. \A x \in Value : BoundIn(timeline', x) =>
         /\ x < nextValue
         /\ \A d \in Chan : \A n :
              InEither(channels', pending', d, n) => n.payload # x
  BY <1>5, <1>8 DEF SettledNow, Settled
<1>10. \A d \in Chan : \A n :
          InEither(channels', pending', d, n) => n.payload < nextValue
  BY <1>5, <1>8 DEF SettledNow, Settled
<1>11. \A t, u \in Branch : \A i, j \in Var : \A x \in Value :
          timeline'[t].arena[i] = x /\ timeline'[u].arena[j] = x
            => t = u /\ i = j
  BY <1>4 DEF SettledNow, Settled
<1> QED
  BY <1>3, <1>7, <1>9, <1>10, <1>11 DEF SettledNow, Settled, OnePlace

\* A receive takes the value out of its queue and into a binding.
LEMMA SettledReceive ==
    ASSUME TypeInv, SettledNow, NEW b \in Branch, NEW v \in Var, NEW c \in Chan,
           ChannelReceive(b, v, c)
    PROVE  SettledNow'
<1> DEFINE s == channels[c]
<1>1. /\ channels \in [Chan -> Seq(Message)] /\ s \in Seq(Message) /\ s # <<>>
      /\ Single(channels)
  BY DEF ChannelReceive, TypeInv, TypeOK, SettledNow, Settled
<1>2. PICK m \in Message : m = Head(s) /\ Among(s, m)
  BY <1>1, LonePop
<1>3. /\ \A n : Among(Tail(s), n) => Among(s, n) /\ n.payload # m.payload
      /\ Lone(Tail(s))
  BY <1>1, <1>2, LonePop DEF Single
<1>4. PICK y \in Value : y = m.payload
  BY DEF Message
<1>5. /\ channels' = [channels EXCEPT ![c] = Tail(s)]
      /\ UNCHANGED <<pending, nextValue>> /\ MayBind(b, v, y)
  BY <1>2, <1>4, MayBindBy DEF ChannelReceive, Executes
<1>6. Replaced(channels, c, Tail(s), channels')
  BY <1>1, <1>5 DEF Replaced
<1>7. /\ Single(channels')
      /\ \A d \in Chan : \A n : Among(channels'[d], n) => Among(channels[d], n)
  BY <1>1, <1>3, <1>6, Thinned
<1>8. OnePlace'
  BY <1>5, <1>7 DEF SettledNow, Settled, OnePlace, Disjoint
<1>9. InEither(channels, pending, c, m) /\ ~BoundIn(timeline, y) /\ y < nextValue
  BY <1>2, <1>4 DEF InEither, SettledNow, Settled
<1>10. \A d \in Chan : \A n : InEither(channels', pending', d, n) =>
          InEither(channels, pending, d, n) /\ n.payload # y
  <2> SUFFICES ASSUME NEW d \in Chan, NEW n, InEither(channels', pending', d, n)
               PROVE  InEither(channels, pending, d, n) /\ n.payload # y
    OBVIOUS
  <2>1. CASE Among(channels'[d], n)
    <3>1. Among(channels[d], n)
      BY <1>7, <2>1
    <3>2. n.payload # y
      <4>1. CASE d = c
        <5>1. Among(Tail(s), n)
          BY <1>6, <2>1, <4>1 DEF Replaced
        <5> QED
          BY <1>3, <1>4, <5>1
      <4>2. CASE d # c
        BY <1>1, <1>2, <1>4, <3>1, <4>2 DEF Single
      <4> QED
        BY <4>1, <4>2
    <3> QED
      BY <3>1, <3>2 DEF InEither
  <2>2. CASE Among(pending'[d], n)
    BY <1>2, <1>4, <1>5, <2>2 DEF SettledNow, Settled, Disjoint, InEither
  <2> QED
    BY <2>1, <2>2 DEF InEither
<1>11. \A u \in Branch : \A z \in Var : \A x \in Value :
          timeline'[u].arena[z] = x => \/ timeline[u].arena[z] = x /\ x # y
                                       \/ u = b /\ z = v /\ x = y
  BY <1>5, <1>9 DEF MayBind, BoundIn
<1>12. \A t, u \in Branch : \A i, j \in Var : \A x \in Value :
          timeline'[t].arena[i] = x /\ timeline'[u].arena[j] = x
            => t = u /\ i = j
  BY <1>11 DEF SettledNow, Settled
<1>13. \A x \in Value : BoundIn(timeline', x) => x = y \/ BoundIn(timeline, x)
  BY <1>11 DEF BoundIn
<1>14. \A x \in Value : BoundIn(timeline', x) =>
          /\ x < nextValue
          /\ \A d \in Chan : \A n :
               InEither(channels', pending', d, n) => n.payload # x
  BY <1>9, <1>10, <1>13 DEF SettledNow, Settled
<1>15. \A d \in Chan : \A n :
          InEither(channels', pending', d, n) => n.payload < nextValue
  BY <1>10 DEF SettledNow, Settled
<1> QED
  BY <1>5, <1>8, <1>12, <1>14, <1>15 DEF SettledNow, Settled, OnePlace

\* Opening a channel takes messages away, if anything.
LEMMA SettledOpen ==
    ASSUME TypeInv, SettledNow, NEW b \in Branch, NEW c \in Chan,
           ChannelOpen(b, c)
    PROVE  SettledNow'
<1>1. UNCHANGED <<timeline, nextValue>>
  BY DEF ChannelOpen
<1>2. /\ \A d \in Chan : channels'[d] = channels[d] \/ channels'[d] = <<>>
      /\ \A d \in Chan : pending'[d] = pending[d] \/ pending'[d] = <<>>
  BY DEF ChannelOpen, TypeInv, TypeOK
<1>3. Lone(<<>>) /\ \A m : ~Among(<<>>, m)
  BY EmptyDomain DEF Lone, Among
<1>4. /\ \A d \in Chan : \A m : Among(channels'[d], m) => Among(channels[d], m)
      /\ \A d \in Chan : \A m : Among(pending'[d], m) => Among(pending[d], m)
      /\ \A d \in Chan : Lone(channels[d]) => Lone(channels'[d])
      /\ \A d \in Chan : Lone(pending[d]) => Lone(pending'[d])
  BY <1>2, <1>3
<1>5. OnePlace'
  BY <1>4 DEF SettledNow, Settled, OnePlace, Single, Disjoint
<1>6. \A d \in Chan : \A m : InEither(channels', pending', d, m) =>
         InEither(channels, pending, d, m)
  BY <1>4 DEF InEither
<1>7. \A t, u \in Branch : \A v, w \in Var : \A x \in Value :
         timeline'[t].arena[v] = x /\ timeline'[u].arena[w] = x
           => t = u /\ v = w
  BY <1>1 DEF SettledNow, Settled
<1> QED
  BY <1>1, <1>5, <1>6, <1>7, SettledThin

\* Bindings that go and queues that stay.
LEMMA SettledFrame ==
    ASSUME SettledNow, UNCHANGED <<channels, pending, nextValue>>,
           \A t \in Branch : \A v \in Var : \A x \in Value :
             timeline'[t].arena[v] = x => timeline[t].arena[v] = x
    PROVE  SettledNow'
<1>1. \A t, u \in Branch : \A v, w \in Var : \A x \in Value :
         timeline'[t].arena[v] = x /\ timeline'[u].arena[w] = x
           => t = u /\ v = w
  BY DEF SettledNow, Settled
<1>2. \A x \in Value : BoundIn(timeline', x) => BoundIn(timeline, x)
  BY DEF BoundIn
<1>3. OnePlace'
  BY DEF SettledNow, Settled, OnePlace
<1> QED
  BY <1>1, <1>2, <1>3, SettledThin

\* A statement keeps every value at one place.
LEMMA SettledStatement ==
    ASSUME Restorable, TypeInv, SettledNow, NEW b \in Branch, Statement(b)
    PROVE  SettledNow'
<1>1. CASE \E v \in Var : \/ Assign(b, v)
                          \/ \E w \in Var : MoveLocal(b, w, v)
  BY <1>1, SettledAssign, SettledMove
<1>2. CASE \E v \in Var, c \in Chan : \/ ChannelSend(b, v, c)
                                      \/ ChannelReceive(b, v, c)
  BY <1>2, SettledSend, SettledReceive
<1>3. CASE \E c \in Chan : ChannelOpen(b, c)
  BY <1>3, SettledOpen
<1>4. CASE \/ \E a \in AnchorName : SetAnchor(b, a)
           \/ Slice(b) \/ CommitBegin(b) \/ SpeculateBegin(b)
  <2>1. /\ UNCHANGED <<channels, pending, nextValue>>
        /\ \A t \in Branch : timeline'[t].arena = timeline[t].arena
    <3>1. ASSUME NEW a \in AnchorName, SetAnchor(b, a)
          PROVE  \A t \in Branch : timeline'[t].arena = timeline[t].arena
      BY <3>1 DEF SetAnchor, TypeInv, TypeOK, Timeline
    <3>2. ASSUME Slice(b)
          PROVE  \A t \in Branch : timeline'[t].arena = timeline[t].arena
      BY <3>2 DEF Slice, TypeInv, TypeOK, Timeline
    <3>3. UNCHANGED <<channels, pending, nextValue>>
      BY <1>4 DEF SetAnchor, Slice, CommitBegin, SpeculateBegin, queueVars
    <3>4. CommitBegin(b) \/ SpeculateBegin(b) => timeline' = timeline
      BY DEF CommitBegin, SpeculateBegin
    <3> QED
      BY <1>4, <3>1, <3>2, <3>3, <3>4
  <2> QED
    BY <2>1, SettledFrame
<1> QED
  BY <1>1, <1>2, <1>3, <1>4, RestorableStatement

\* Leaving a block frees bindings at most: a full commit exports nothing.
LEMMA SettledLeaves ==
    ASSUME CommitMode = "Full", TypeInv, SettledNow, Leaves
    PROVE  SettledNow'
<1>1. TypeOK /\ timeline \in [Branch -> Timeline]
  BY DEF TypeInv, TypeOK
<1>2. CASE CommitEnd
  <2>1. PICK t \in Branch : t = Top.branch
    BY <1>1, <1>2, TopType DEF CommitEnd, TopBlock, Top
  <2>2. PICK old \in Timeline : old = timeline[t]
    BY <1>1
  <2>3. /\ timeline'[t].arena = [v \in Var |-> IF old.arena[v] = Consumed
                                               THEN Absent ELSE old.arena[v]]
        /\ \A u \in Branch \ {t} : timeline'[u] = timeline[u]
        /\ UNCHANGED <<channels, pending, nextValue>>
    BY <1>1, <1>2, <2>1, <2>2 DEF CommitEnd, Timeline, queueVars
  <2>4. Absent \notin Value
    BY ConstantsAssumption DEF Value
  <2> QED
    BY <2>2, <2>3, <2>4, SettledFrame
<1>3. CASE SpeculateEnd /\ ~Abort
  <2>1. /\ timeline' = [timeline EXCEPT ![Top.branch].horizon = TRUE]
        /\ UNCHANGED <<channels, pending, nextValue>>
    BY <1>3 DEF SpeculateEnd, queueVars
  <2>2. \A t \in Branch : timeline'[t].arena = timeline[t].arena
    BY <1>1, <2>1 DEF Timeline
  <2> QED
    BY <2>1, <2>2, SettledFrame
<1>4. CASE Fail \/ (Unwind /\ ~Abort)
  <2>1. UNCHANGED <<timeline, channels, pending, nextValue>>
    BY <1>4 DEF Fail, Unwind, queueVars
  <2> QED
    BY <2>1, SettledFrame
<1> QED
  BY <1>2, <1>3, <1>4 DEF Leaves

\* Values are numbered upwards.
LEMMA ValuesGrow ==
    ASSUME TypeInv, [Next]_vars
    PROVE  /\ nextValue \in Nat /\ nextValue' \in Nat /\ nextValue <= nextValue'
<1>1. nextValue \in Nat
  BY DEF TypeInv, TypeOK, Value
<1>2. ASSUME NEW b \in Branch, Statement(b), nextValue' # nextValue
      PROVE  \E v \in Var : Assign(b, v)
  BY <1>2 DEF Statement, MoveLocal, Send, ChannelSend, ChannelReceive,
              ChannelOpen, SetAnchor, Rewind, AcausalReset, Slice, Tick,
              CommitBegin, SpeculateBegin
<1>3. (CommitEnd \/ SpeculateEnd \/ Fail \/ Unwind \/ Rollback
         \/ UNCHANGED vars) => nextValue' = nextValue
  BY DEF CommitEnd, SpeculateEnd, Fail, Unwind, Abort, Rollback, UndoOther,
         UndoSend, UndoRecv, UndoMove, FinishRewind, FinishReset, FinishAbort,
         vars
<1>4. nextValue' = nextValue
      \/ \E b \in Branch, v \in Var : Assign(b, v)
  BY <1>2, <1>3 DEF Next
<1>5. nextValue' = nextValue \/ nextValue' = nextValue + 1
  BY <1>4 DEF Assign
<1> QED
  BY <1>1, <1>5

\* A configuration that is kept stays settled.
LEMMA SettledInLater ==
    ASSUME TypeInv, [Next]_vars, NEW conf \in Configuration, SettledIn(conf)
    PROVE  SettledIn(conf)'
<1>1. PICK tl, q, p : /\ tl = conf.timeline /\ q = conf.channels
                      /\ p = conf.pending
  OBVIOUS
<1>2. q \in [Chan -> Seq(Message)] /\ p \in [Chan -> Seq(Message)]
  BY <1>1 DEF Configuration
<1>3. \A c \in Chan : \A m : InEither(q, p, c, m) => m.payload \in Nat
  BY <1>2, QueuedMessages
<1>4. PICK n \in Nat, k \in Nat : n = nextValue /\ k = nextValue' /\ n <= k
  BY ValuesGrow
<1>5. Settled(tl, q, p, n)
  BY <1>1, <1>4 DEF SettledIn
<1>6. Settled(tl, q, p, k)
  BY <1>3, <1>4, <1>5, SettledLater
<1> QED
  BY <1>1, <1>4, <1>6 DEF SettledIn

\* The configurations that blocks started from stay settled.
LEMMA OpenSettled ==
    ASSUME TypeInv, [Next]_vars, AllSettled, NEW i \in Open,
           blocks'[i] = blocks[i]
    PROVE  SettledIn(blocks[i].before)'
<1>1. PICK conf \in Configuration : conf = blocks[i].before
  BY SpeculationType DEF Open, TypeInv
<1>2. SettledIn(conf)
  BY <1>1 DEF AllSettled
<1>3. SettledIn(conf)' /\ conf = blocks'[i].before
  BY <1>1, <1>2, SettledInLater
<1> QED
  BY <1>3 DEF SettledIn

\* Every step but a rollback that fails keeps all of them settled.
LEMMA AllSettledStep ==
    ASSUME Restorable, CommitMode = "Full", Positioned, Traceable, AllSettled,
           [Next]_vars, ~faulted'
    PROVE  AllSettled'
<1>1. TypeInv /\ AnchorsInside /\ OneBranch /\ BlockEvents
  BY DEF Positioned, Restorable, Traceable
<1>2. ASSUME NEW b \in Branch, Statement(b) PROVE AllSettled'
  <2>1. control.mode = "run" /\ control'.mode # "undo"
    BY <1>1, <1>2, StatementTouches
  <2>2. SettledNow'
    BY <1>1, <1>2, <2>1, SettledStatement DEF AllSettled
  <2>3. ASSUME NEW i \in Open' PROVE SettledIn(blocks[i].before)'
    <3>1. CASE i \in Open /\ blocks'[i] = blocks[i]
      BY <1>1, <3>1, OpenSettled
    <3>2. CASE /\ SpeculateBegin(b)
               /\ blocks'[i] = [kind |-> "speculate", branch |-> b,
                                saved |-> timeline[b],
                                start |-> Len(history),
                                before |-> [timeline |-> timeline,
                                            channels |-> channels,
                                            pending |-> pending]]
      <4>1. /\ blocks'[i].before.timeline = timeline
            /\ blocks'[i].before.channels = channels
            /\ blocks'[i].before.pending = pending
        BY <3>2
      <4>2. nextValue' = nextValue
        BY <3>2 DEF SpeculateBegin
      <4> QED
        BY <2>1, <4>1, <4>2 DEF AllSettled, SettledNow, SettledIn
    <3> QED
      BY <1>1, <1>2, <3>1, <3>2, OpenAfter
  <2> QED
    BY <2>1, <2>2, <2>3 DEF AllSettled
<1>3. CASE Leaves
  <2>1. control.mode # "undo" /\ control'.mode # "undo"
    BY <1>1, <1>3, LeavesTouch
  <2>2. SettledNow'
    BY <1>1, <1>3, <2>1, SettledLeaves DEF AllSettled
  <2>3. \A i \in Open' : SettledIn(blocks[i].before)'
    BY <1>1, <1>3, StillOpen, OpenSettled
  <2> QED
    BY <2>1, <2>2, <2>3 DEF AllSettled
<1>4. CASE Aborts
  <2>1. /\ Len(blocks) \in Open /\ Top = blocks[Len(blocks)]
        /\ control'.resume.before = Top.before /\ control'.mode = "undo"
    BY <1>1, <1>4, AbortTouches
  <2>2. PICK conf \in Configuration : conf = Top.before
    BY <1>1, <2>1, SpeculationType DEF Open, TypeInv
  <2>3. SettledIn(conf)
    BY <2>1, <2>2 DEF AllSettled
  <2>4. SettledIn(conf)' /\ conf = control'.resume.before
    BY <1>1, <2>1, <2>2, <2>3, SettledInLater
  <2>5. SettledIn(control.resume.before)'
    BY <2>4 DEF SettledIn
  <2>6. \A i \in Open' : SettledIn(blocks[i].before)'
    BY <1>1, <1>4, StillOpen, OpenSettled
  <2> QED
    BY <2>1, <2>5, <2>6 DEF AllSettled
<1>5. CASE Rollback
  <2>1. \A i \in Open' : SettledIn(blocks[i].before)'
    BY <1>1, <1>5, StillOpen, OpenSettled
  <2>2. UNCHANGED nextValue
    BY <1>5 DEF Rollback, UndoOther, UndoSend, UndoRecv, UndoMove,
                FinishRewind, FinishReset, FinishAbort
  <2>3. CASE FinishAbort
    <3>1. /\ Aborting /\ control' = Running
          /\ timeline = control.resume.before.timeline
          /\ channels = control.resume.before.channels
          /\ pending = control.resume.before.pending
          /\ UNCHANGED <<timeline, channels, pending>>
      BY <2>3, BackBefore DEF FinishAbort, Undone, queueVars
    <3>2. SettledIn(control.resume.before)
      BY <3>1 DEF AllSettled, Aborting
    <3>3. SettledNow'
      BY <2>2, <3>1, <3>2 DEF SettledIn, SettledNow
    <3> QED
      BY <2>1, <3>1, <3>3, RunningType DEF AllSettled
  <2>4. CASE Undo /\ NextEvent
    <3>1. /\ control.mode = "undo" /\ control'.mode = "undo"
          /\ control'.resume = control.resume
      BY <1>1, <2>4, WalkedBack
    <3>2. SettledIn(control.resume.before)'
      BY <2>2, <3>1 DEF AllSettled, SettledIn
    <3> QED
      BY <2>1, <3>1, <3>2 DEF AllSettled
  <2>5. FinishAbort \/ (Undo /\ NextEvent)
    <3>1. ~FinishRewind /\ ~FinishReset
      BY <1>1 DEF FinishRewind, FinishReset, Undone, BlockEvents, Aborting
    <3> QED
      BY <1>5, <3>1 DEF Rollback, UndoOther, UndoSend, UndoRecv, UndoMove,
                        RollbackFails
  <2> QED
    BY <2>3, <2>4, <2>5
<1>6. CASE UNCHANGED vars
  <2>1. UNCHANGED <<timeline, channels, pending, blocks, control, nextValue>>
    BY <1>6 DEF vars, queueVars, blockVars
  <2> QED
    BY <2>1 DEF AllSettled, SettledNow, SettledIn, Open
<1> QED
  BY <1>2, <1>3, <1>4, <1>5, <1>6, StepKinds

\* In the initial state no value exists.
LEMMA InitSettled == Init => AllSettled
<1> SUFFICES ASSUME Init PROVE AllSettled
  OBVIOUS
<1>1. /\ \A t \in Branch : \A v \in Var : timeline[t].arena[v] \notin Value
      /\ \A c \in Chan : channels[c] = <<>> /\ pending[c] = <<>>
      /\ Open = {} /\ control = Running
  BY ConstantsAssumption, EmptyDomain DEF Init, InitTimeline, Value, Open
<1>2. Lone(<<>>) /\ \A m : ~Among(<<>>, m)
  BY EmptyDomain DEF Lone, Among
<1>3. SettledNow
  BY <1>1, <1>2
     DEF SettledNow, Settled, BoundIn, InEither, Single, Disjoint
<1> QED
  BY <1>1, <1>3, RunningType DEF AllSettled

\* Values at one place each have one owner.
LEMMA SettledOnce ==
    ASSUME TypeInv, AllSettled
    PROVE  OneOwner
<1>1. CASE control = Running
  <2>1. SettledNow
    BY <1>1, RunningType DEF AllSettled
  <2>2. OneHolder /\ OnePlace
    BY <2>1 DEF SettledNow, Settled, OneHolder, OnePlace, Held
  <2>3. NoneBoth
    BY <2>1, WaitingAmong
       DEF SettledNow, Settled, NoneBoth, Holds, Held, BoundIn, InEither
  <2> QED
    BY <2>2, <2>3, OwnedOnce
<1>2. CASE control # Running
  BY <1>2 DEF OneOwner
<1> QED
  BY <1>1, <1>2

\* A value never has two owners in programs that speculate and commit in full
\* mode, whatever blocks are nested, aborted or left by an error, as long as the
\* log can take a block back and no rollback has failed: an abort ends in the
\* very configuration that the values were distributed in when it began.
THEOREM SingleOwnerSpeculating ==
    ASSUME Restorable, CommitMode = "Full"
    PROVE  Spec => []OneOwner
<1> DEFINE Inv == ~faulted => AllSettled
<1>1. Positioned => TypeInv
  BY DEF Positioned
<1>2. Init => Inv
  BY InitSettled
<1>3. Positioned /\ Traceable /\ Inv /\ [Next]_vars => Inv'
  BY <1>1, FaultStays, AllSettledStep
<1>4. Positioned /\ Inv => OneOwner
  <2>1. faulted => OneOwner
    BY DEF OneOwner
  <2> QED
    BY <1>1, <2>1, SettledOnce
<1> QED
  BY <1>2, <1>3, <1>4, TraceableKept, PTL DEF Spec
=============================================================================
