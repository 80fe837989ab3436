----------------------------- MODULE BlockProofs -----------------------------
(***************************************************************************)
(* Proofs about anchors and blocks: what commits and aborts leave of the   *)
(* anchors of a timeline.                                                  *)
(***************************************************************************)
EXTENDS CausalProofs

-----------------------------------------------------------------------------
(* Which steps touch the anchors *)

\* Timeline t of the next state has the anchors and the commits it had.
AnchorsKept(t) == /\ timeline'[t].anchors = timeline[t].anchors
                  /\ timeline'[t].commits = timeline[t].commits

\* Binding a variable leaves anchors and commits alone.
LEMMA BindKeeps ==
    ASSUME NEW ts \in [Branch -> Timeline], NEW b \in Branch, NEW v \in Var,
           NEW x, NEW t \in Branch
    PROVE  LET bound == [ts EXCEPT ![b].arena[v] = x]
           IN  /\ bound[t].anchors = ts[t].anchors
               /\ bound[t].commits = ts[t].commits
  BY DEF Timeline

\* Of the statements only anchor sets one.
LEMMA StatementKeeps ==
    ASSUME TypeInv, NEW b \in Branch, Statement(b),
           ~(\E a \in AnchorName : SetAnchor(b, a)), NEW t \in Branch
    PROVE  AnchorsKept(t)
<1>1. timeline \in [Branch -> Timeline]
  BY DEF TypeInv, TypeOK
<1>2. ASSUME NEW v \in Var, \/ Assign(b, v)
                            \/ \E c \in Chan : ChannelSend(b, v, c)
                            \/ \E c \in Chan : ChannelReceive(b, v, c)
      PROVE  AnchorsKept(t)
  <2>1. \/ timeline' = timeline
        \/ \E x : timeline' = [timeline EXCEPT ![b].arena[v] = x]
    BY <1>2 DEF Assign, ChannelSend, ChannelReceive, Bind
  <2>2. CASE timeline' = timeline
    BY <2>2 DEF AnchorsKept
  <2>3. CASE \E x : timeline' = [timeline EXCEPT ![b].arena[v] = x]
    BY <1>1, <2>3, BindKeeps DEF AnchorsKept
  <2> QED
    BY <2>1, <2>2, <2>3
<1>3. ASSUME NEW v \in Var, NEW w \in Var, MoveLocal(b, w, v)
      PROVE  AnchorsKept(t)
  <2> DEFINE x == timeline[b].arena[w]
             taken == [timeline EXCEPT ![b].arena[w] = Consumed]
  <2>1. taken \in [Branch -> Timeline]
    BY <1>1, BindType DEF Binding
  <2>2. \/ timeline' = taken
        \/ timeline' = [taken EXCEPT ![b].arena[v] = x]
    BY <1>3 DEF MoveLocal, Bind
  <2>3. /\ taken[t].anchors = timeline[t].anchors
        /\ taken[t].commits = timeline[t].commits
    BY <1>1, BindKeeps
  <2> HIDE DEF taken, x
  <2>4. CASE timeline' = taken
    BY <2>3, <2>4 DEF AnchorsKept
  <2>5. CASE timeline' = [taken EXCEPT ![b].arena[v] = x]
    BY <2>1, <2>3, <2>5, BindKeeps DEF AnchorsKept
  <2> QED
    BY <2>2, <2>4, <2>5
<1>4. ASSUME NEW v \in Var, NEW u \in Branch \union {NoBranch}, Send(b, v, u)
      PROVE  AnchorsKept(t)
  <2> DEFINE x == timeline[b].arena[v]
             taken == [timeline EXCEPT ![b].arena[v] = Consumed]
  <2>1. taken \in [Branch -> Timeline]
    BY <1>1, BindType DEF Binding
  <2>2. \/ timeline' = taken
        \/ u \in Branch /\ timeline' = [taken EXCEPT ![u].arena[v] = x]
    BY <1>4 DEF Send
  <2>3. /\ taken[t].anchors = timeline[t].anchors
        /\ taken[t].commits = timeline[t].commits
    BY <1>1, BindKeeps
  <2> HIDE DEF taken, x
  <2>4. CASE timeline' = taken
    BY <2>3, <2>4 DEF AnchorsKept
  <2>5. CASE u \in Branch /\ timeline' = [taken EXCEPT ![u].arena[v] = x]
    BY <2>1, <2>3, <2>5, BindKeeps DEF AnchorsKept
  <2> QED
    BY <2>2, <2>4, <2>5
<1>5. CASE Slice(b)
  BY <1>1, <1>5 DEF Slice, AnchorsKept, Timeline
<1>6. CASE \/ \E c \in Chan : ChannelOpen(b, c)
           \/ \E a \in AnchorName : \/ Rewind(b, a)
                                   \/ \E u \in Branch : AcausalReset(b, u, a)
           \/ Tick(b) \/ CommitBegin(b) \/ SpeculateBegin(b)
  BY <1>6 DEF ChannelOpen, Tick, Rewind, AcausalReset, CommitBegin,
              SpeculateBegin, AnchorsKept
<1> QED
  BY <1>2, <1>3, <1>4, <1>5, <1>6 DEF Statement

\* Every anchor that the next state has for t, it had before: a rollback only
\* marks anchors stale.
NoNewAnchor(t) ==
    /\ timeline'[t].commits = timeline[t].commits
    /\ \A a \in AnchorName : timeline'[t].anchors[a] # NoAnchor =>
         /\ timeline[t].anchors[a] # NoAnchor
         /\ timeline'[t].anchors[a].index = timeline[t].anchors[a].index
         /\ timeline'[t].anchors[a].commits = timeline[t].anchors[a].commits

\* A restored branch has its old anchors, as stale as the program makes them.
LEMMA RestoredKeeps ==
    ASSUME TypeInv, NEW b \in Branch, NEW point, NEW a \in AnchorName,
           Restored(b, point).anchors[a] # NoAnchor
    PROVE  /\ timeline[b].anchors[a] # NoAnchor
           /\ Restored(b, point).anchors[a].index = timeline[b].anchors[a].index
           /\ Restored(b, point).anchors[a].commits
                = timeline[b].anchors[a].commits
<1> DEFINE old == timeline[b].anchors
           new == [n \in AnchorName |->
                     IF old[n] = NoAnchor THEN NoAnchor
                     ELSE [old[n] EXCEPT !.stale = OneShot]]
<1>1. timeline[b] \in Timeline
  BY DEF TypeInv, TypeOK
<1>2. Restored(b, point).anchors = new
  BY <1>1 DEF Restored, Timeline
<1>3. old[a] # NoAnchor /\ new[a] = [old[a] EXCEPT !.stale = OneShot]
  BY <1>2
<1>4. old[a] \in AnchorPoint
  BY <1>3, AnchorType
<1> HIDE DEF old, new
<1>5. new[a].index = old[a].index /\ new[a].commits = old[a].commits
  BY <1>3, <1>4 DEF AnchorPoint
<1> QED
  BY <1>2, <1>3, <1>5 DEF old

\* Neither the steps of a rollback nor its end set an anchor.
LEMMA RollbackKeeps ==
    ASSUME TypeInv, Rollback, NEW t \in Branch
    PROVE  NoNewAnchor(t)
<1>1. timeline \in [Branch -> Timeline]
  BY DEF TypeInv, TypeOK
<1>2. CASE timeline' = timeline
  BY <1>2 DEF NoNewAnchor
<1>3. CASE UndoMove
  <2>1. Event.var \in Var
    BY <1>3, UndoType, EventType DEF UndoMove, MoveEvent
  <2>2. \/ timeline' = timeline
        \/ /\ Event.target \in Branch
           /\ timeline' = [timeline EXCEPT
                             ![Event.target].arena[Event.var] = Absent]
    BY <1>3 DEF UndoMove, RollbackFails
  <2>3. CASE /\ Event.target \in Branch
             /\ timeline' = [timeline EXCEPT
                               ![Event.target].arena[Event.var] = Absent]
    <3>1. /\ timeline'[t].anchors = timeline[t].anchors
          /\ timeline'[t].commits = timeline[t].commits
      BY <1>1, <2>1, <2>3, BindKeeps
    <3> QED
      BY <3>1 DEF NoNewAnchor
  <2> QED
    BY <1>2, <2>2, <2>3
<1>4. CASE FinishRewind \/ FinishReset
  <2> DEFINE b == control.branch
             tl == Restored(b, control.resume.anchor)
  <2>1. b \in Branch
    BY <1>4, UndoneType DEF FinishRewind, FinishReset
  <2>2. /\ timeline' \in [Branch -> Timeline]
        /\ \/ timeline' = [timeline EXCEPT ![b] = tl]
           \/ timeline' = [timeline EXCEPT ![b] = [tl EXCEPT !.horizon = FALSE]]
    BY <1>4, FinishRewindType, FinishResetType
       DEF FinishRewind, FinishReset, TypeInv, TypeOK
  <2>3. CASE t # b
    BY <1>1, <2>1, <2>2, <2>3 DEF NoNewAnchor
  <2>4. CASE t = b
    <3>1. tl \in Timeline
      <4>1. control.resume.anchor \in AnchorPoint
        BY <1>4, AnchorResume DEF FinishRewind, FinishReset
      <4> QED
        BY <2>1, <4>1, RestoredType
    <3>2. tl.commits = timeline[b].commits
      BY <1>1, <2>1 DEF Restored, Timeline
    <3>3. timeline'[b].anchors = tl.anchors /\ timeline'[b].commits = tl.commits
      <4> HIDE DEF tl, b
      <4> QED
        BY <1>1, <2>1, <2>2, <3>1 DEF Timeline
    <3> QED
      BY <2>1, <2>4, <3>2, <3>3, RestoredKeeps DEF NoNewAnchor
  <2> QED
    BY <2>3, <2>4
<1> QED
  BY <1>2, <1>3, <1>4
     DEF Rollback, UndoOther, UndoSend, UndoRecv, FinishAbort, RollbackFails

-----------------------------------------------------------------------------
(* The stack of blocks *)

\* The positions of the stack when a block is entered.
LEMMA BlockEntered ==
    ASSUME TypeOK, NEW e \in SpeculateBlock \union CommitBlock,
           blocks' = Append(blocks, e)
    PROVE  /\ Len(blocks) \in Nat
           /\ DOMAIN blocks = 1 .. Len(blocks)
           /\ DOMAIN blocks' = 1 .. Len(blocks) + 1
           /\ \A i \in DOMAIN blocks : blocks'[i] = blocks[i]
           /\ blocks'[Len(blocks) + 1] = e
<1>1. blocks \in Seq(SpeculateBlock \union CommitBlock)
  BY DEF TypeOK
<1>2. /\ blocks' \in Seq(SpeculateBlock \union CommitBlock)
      /\ Len(blocks') = Len(blocks) + 1
  BY <1>1, PushProperties
<1> QED
  BY <1>1, <1>2, PushProperties, SeqElements

\* The positions of the stack when the innermost block is left.
LEMMA BlockLeft ==
    ASSUME TypeOK, blocks # <<>>, blocks' = Front(blocks)
    PROVE  /\ Len(blocks) \in Nat \ {0}
           /\ DOMAIN blocks = 1 .. Len(blocks)
           /\ DOMAIN blocks' = 1 .. Len(blocks) - 1
           /\ \A i \in DOMAIN blocks' : blocks'[i] = blocks[i]
           /\ Top = blocks[Len(blocks)]
<1>1. blocks \in Seq(SpeculateBlock \union CommitBlock)
  BY DEF TypeOK
<1>2. /\ blocks' \in Seq(SpeculateBlock \union CommitBlock)
      /\ Len(blocks') = Len(blocks) - 1
      /\ \A i \in 1 .. Len(blocks) - 1 : blocks'[i] = blocks[i]
  BY <1>1, FrontProperties
<1> QED
  BY <1>1, <1>2, LastProperties, SeqElements DEF Top

\* The step enters no speculation, though it may leave blocks.
NoNewSpeculation ==
    \A i \in DOMAIN blocks' : blocks'[i].kind = "speculate" =>
        i \in DOMAIN blocks /\ blocks'[i] = blocks[i]

\* Only speculate enters a speculation.
LEMMA SpeculationEntered ==
    ASSUME TypeInv, [Next]_vars, ~(\E b \in Branch : SpeculateBegin(b))
    PROVE  NoNewSpeculation
<1>1. CASE blocks' = blocks
  BY <1>1 DEF NoNewSpeculation
<1>2. CASE blocks # <<>> /\ blocks' = Front(blocks)
  <2>1. /\ Len(blocks) \in Nat /\ DOMAIN blocks = 1 .. Len(blocks)
        /\ DOMAIN blocks' = 1 .. Len(blocks) - 1
        /\ \A i \in DOMAIN blocks' : blocks'[i] = blocks[i]
    BY <1>2, BlockLeft DEF TypeInv
  <2> QED
    BY <2>1 DEF NoNewSpeculation
<1>3. ASSUME NEW b \in Branch, CommitBegin(b)
      PROVE  NoNewSpeculation
  <2> DEFINE block == [kind |-> "commit", branch |-> b]
  <2>1. /\ block \in SpeculateBlock \union CommitBlock
        /\ block.kind # "speculate"
    BY DEF CommitBlock
  <2>2. blocks' = Append(blocks, block)
    BY <1>3 DEF CommitBegin
  <2> HIDE DEF block
  <2>3. /\ Len(blocks) \in Nat /\ DOMAIN blocks = 1 .. Len(blocks)
        /\ DOMAIN blocks' = 1 .. Len(blocks) + 1
        /\ \A i \in DOMAIN blocks : blocks'[i] = blocks[i]
        /\ blocks'[Len(blocks) + 1] = block
    BY <2>1, <2>2, BlockEntered DEF TypeInv
  <2> QED
    BY <2>1, <2>3 DEF NoNewSpeculation
<1>4. ASSUME NEW b \in Branch, Statement(b), ~CommitBegin(b)
      PROVE  blocks' = blocks
  BY <1>4 DEF Statement, Assign, MoveLocal, Send, ChannelOpen, ChannelSend,
              ChannelReceive, Slice, Tick, SetAnchor, Rewind, AcausalReset,
              blockVars
<1>5. CASE CommitEnd \/ SpeculateEnd \/ Fail \/ Unwind
  BY <1>1, <1>2, <1>5
     DEF CommitEnd, SpeculateEnd, Fail, Unwind, Abort, PopSpeculation,
         TopBlock, blockVars
<1>6. CASE Rollback
  BY <1>1, <1>6 DEF Rollback, UndoOther, UndoSend, UndoRecv, UndoMove,
                    FinishRewind, FinishReset, FinishAbort, blockVars
<1>7. CASE UNCHANGED vars
  BY <1>1, <1>7 DEF vars, blockVars
<1> QED
  BY <1>1, <1>3, <1>4, <1>5, <1>6, <1>7 DEF Next

\* What speculate puts on the stack.
LEMMA SpeculateBeginBlock ==
    ASSUME TypeInv, NEW b \in Branch, SpeculateBegin(b)
    PROVE  /\ Len(blocks) \in Nat
           /\ DOMAIN blocks = 1 .. Len(blocks)
           /\ DOMAIN blocks' = 1 .. Len(blocks) + 1
           /\ \A i \in DOMAIN blocks : blocks'[i] = blocks[i]
           /\ blocks'[Len(blocks) + 1]
                = [kind |-> "speculate", branch |-> b, saved |-> timeline[b],
                   start |-> Len(history),
                   before |-> [timeline |-> timeline, channels |-> channels,
                               pending |-> pending]]
<1> DEFINE block == [kind |-> "speculate", branch |-> b, saved |-> timeline[b],
                     start |-> Len(history),
                     before |-> [timeline |-> timeline, channels |-> channels,
                                 pending |-> pending]]
<1>1. block \in SpeculateBlock \union CommitBlock
  <2>1. timeline[b] \in Timeline /\ Len(history) \in Nat
    BY SeqElements DEF TypeInv, TypeOK
  <2>2. [timeline |-> timeline, channels |-> channels, pending |-> pending]
          \in Configuration
    BY DEF TypeInv, TypeOK, Configuration
  <2> QED
    BY <2>1, <2>2 DEF SpeculateBlock
<1>2. blocks' = Append(blocks, block)
  BY DEF SpeculateBegin
<1> HIDE DEF block
<1>3. /\ Len(blocks) \in Nat
      /\ DOMAIN blocks = 1 .. Len(blocks)
      /\ DOMAIN blocks' = 1 .. Len(blocks) + 1
      /\ \A i \in DOMAIN blocks : blocks'[i] = blocks[i]
      /\ blocks'[Len(blocks) + 1] = block
  BY <1>1, <1>2, BlockEntered DEF TypeInv
<1> QED
  BY <1>3 DEF block

-----------------------------------------------------------------------------
(* The horizon *)

\* The anchors of a timeline are no older than its last commit.
Fresh(tl) == \A a \in AnchorName :
    tl.anchors[a] # NoAnchor => tl.anchors[a].commits = tl.commits

\* So are those of the timelines that an abort would bring back.
AnchorsFresh ==
    /\ \A b \in Branch : Fresh(timeline[b])
    /\ \A i \in DOMAIN blocks :
         blocks[i].kind = "speculate" => Fresh(blocks[i].saved)

\* A step that sets no anchor and enters no speculation.
LEMMA FreshFrame ==
    ASSUME AnchorsFresh, NoNewSpeculation,
           \A t \in Branch : AnchorsKept(t) \/ NoNewAnchor(t)
    PROVE  AnchorsFresh'
  BY DEF AnchorsFresh, Fresh, NoNewSpeculation, AnchorsKept, NoNewAnchor

\* An abort brings back a timeline whose anchors are fresh.
LEMMA FreshAbort ==
    ASSUME TypeInv, AnchorsFresh, NoNewSpeculation, blocks # <<>>,
           Top.kind = "speculate", Abort
    PROVE  AnchorsFresh'
<1>1. Top.branch \in Branch /\ Top.saved \in Timeline
  BY TopType DEF TypeInv, SpeculateBlock
<1>2. /\ timeline'[Top.branch] = Top.saved
      /\ \A t \in Branch \ {Top.branch} : timeline'[t] = timeline[t]
  BY <1>1 DEF Abort, TypeInv, TypeOK
<1>3. Fresh(Top.saved)
  <2>1. Len(blocks) \in DOMAIN blocks /\ Top = blocks[Len(blocks)]
    BY LastProperties, SeqElements DEF TypeInv, TypeOK, Top
  <2> QED
    BY <2>1 DEF AnchorsFresh
<1> QED
  BY <1>2, <1>3 DEF AnchorsFresh, Fresh, NoNewSpeculation

\* Every step keeps the anchors fresh, as long as no selective commit moves the
\* commits of a block into the timeline saved at its start.
LEMMA FreshStep ==
    ASSUME CommitMode = "Full" \/ NoSpeculation, TypeInv, AnchorsFresh,
           [Next]_vars
    PROVE  AnchorsFresh'
<1>1. ASSUME NEW b \in Branch, SpeculateBegin(b) PROVE AnchorsFresh'
  <2> DEFINE n == Len(blocks) + 1
  <2>1. /\ DOMAIN blocks' = 1 .. n
        /\ DOMAIN blocks = 1 .. n - 1
        /\ n \in Nat
        /\ \A i \in DOMAIN blocks : blocks'[i] = blocks[i]
        /\ blocks'[n].saved = timeline[b]
        /\ timeline' = timeline
    BY <1>1, SpeculateBeginBlock DEF SpeculateBegin
  <2> HIDE DEF n
  <2>2. ASSUME NEW i \in DOMAIN blocks', blocks'[i].kind = "speculate"
        PROVE  Fresh(blocks'[i].saved)
    <3>1. CASE i = n
      BY <2>1, <3>1 DEF AnchorsFresh
    <3>2. CASE i # n
      BY <2>1, <2>2, <3>2 DEF AnchorsFresh
    <3> QED
      BY <3>1, <3>2
  <2> QED
    BY <2>1, <2>2 DEF AnchorsFresh, Fresh
<1>2. CASE ~(\E b \in Branch : SpeculateBegin(b))
  <2>1. NoNewSpeculation
    BY <1>2, SpeculationEntered
  <2>2. ASSUME NEW b \in Branch, Statement(b) PROVE AnchorsFresh'
    <3>1. CASE \E a \in AnchorName : SetAnchor(b, a)
      <4>1. PICK a \in AnchorName : SetAnchor(b, a)
        BY <3>1
      <4> DEFINE point == [arena   |-> timeline[b].arena,
                           index   |-> Len(history),
                           commits |-> timeline[b].commits,
                           stale   |-> FALSE]
      <4>2. /\ point.commits = timeline[b].commits
            /\ timeline' = [timeline EXCEPT ![b].anchors[a] = point]
        BY <4>1 DEF SetAnchor
      <4> HIDE DEF point
      <4>3. /\ \A t \in Branch : timeline'[t].commits = timeline[t].commits
            /\ \A t \in Branch : \A n \in AnchorName :
                 \/ timeline'[t].anchors[n] = timeline[t].anchors[n]
                 \/ /\ timeline'[t].anchors[n] = point
                    /\ t = b
        BY <4>2 DEF TypeInv, TypeOK, Timeline
      <4> QED
        BY <2>1, <4>2, <4>3 DEF AnchorsFresh, Fresh, NoNewSpeculation
    <3>2. CASE ~(\E a \in AnchorName : SetAnchor(b, a))
      BY <2>1, <2>2, <3>2, StatementKeeps, FreshFrame
    <3> QED
      BY <3>1, <3>2
  <2>3. CASE CommitEnd
    <3>1. Top.branch \in Branch
      BY <2>3, TopType DEF CommitEnd, TopBlock, TypeInv
    <3>2. /\ \A a \in AnchorName :
                timeline'[Top.branch].anchors[a] = NoAnchor
          /\ \A t \in Branch \ {Top.branch} : timeline'[t] = timeline[t]
      BY <2>3, <3>1 DEF CommitEnd, TypeInv, TypeOK, Timeline
    <3> QED
      BY <2>1, <3>2 DEF AnchorsFresh, Fresh, NoNewSpeculation
  <2>4. CASE SpeculateEnd
    <3>1. blocks # <<>> /\ Top.kind = "speculate"
      BY <2>4 DEF SpeculateEnd, TopBlock, Top
    <3>2. CommitMode = "Full"
      BY <3>1, NoSpeculateBlock DEF TypeInv
    <3>3. CASE Abort
      BY <2>1, <3>1, <3>3, FreshAbort
    <3>4. CASE timeline' = [timeline EXCEPT ![Top.branch].horizon = TRUE]
      <4>1. \A t \in Branch : AnchorsKept(t)
        BY <3>4 DEF AnchorsKept, TypeInv, TypeOK, Timeline
      <4> QED
        BY <2>1, <4>1, FreshFrame
    <3> QED
      BY <2>4, <3>2, <3>3, <3>4 DEF SpeculateEnd
  <2>5. CASE UNCHANGED timeline
    <3>1. \A t \in Branch : AnchorsKept(t)
      BY <2>5 DEF AnchorsKept
    <3> QED
      BY <2>1, <3>1, FreshFrame
  <2>6. CASE Fail
    BY <2>5, <2>6 DEF Fail
  <2>7. CASE Unwind
    <3>1. CASE UNCHANGED timeline
      BY <2>5, <3>1
    <3>2. CASE blocks # <<>> /\ Top.kind = "speculate" /\ Abort
      BY <2>1, <3>2, FreshAbort
    <3> QED
      BY <2>7, <3>1, <3>2 DEF Unwind
  <2>8. CASE Rollback
    BY <2>1, <2>8, RollbackKeeps, FreshFrame
  <2>9. CASE UNCHANGED vars
    BY <2>5, <2>9 DEF vars
  <2> QED
    BY <2>2, <2>3, <2>4, <2>6, <2>7, <2>8, <2>9 DEF Next
<1> QED
  BY <1>1, <1>2

\* The initial state has no anchors and no blocks.
LEMMA InitFresh == Init => AnchorsFresh
<1> SUFFICES ASSUME Init PROVE AnchorsFresh
  OBVIOUS
<1>1. DOMAIN blocks = {}
  BY DEF Init
<1>2. \A b \in Branch, a \in AnchorName : timeline[b].anchors[a] = NoAnchor
  BY DEF Init, InitTimeline
<1> QED
  BY <1>1, <1>2 DEF AnchorsFresh, Fresh

\* A branch past a commit has no anchor from before it, in every program that
\* commits its speculations in full or does not speculate.  (A selective commit
\* brings the anchors from before the block back.)
THEOREM HorizonKept ==
    ASSUME CommitMode = "Full" \/ "speculate" \notin Stmts
    PROVE  Spec => []HorizonClosed
<1> DEFINE Inv == /\ TypeInv
                  /\ AnchorsFresh
                  /\ "speculate" \notin Stmts => NoSpeculation
<1>1. Init => Inv
  BY InitTypeInv, InitOutflow, InitFresh
<1>2. Inv /\ [Next]_vars => Inv'
  BY TypeInvStep, NoSpeculationStep, FreshStep
<1>3. Inv => HorizonClosed
  BY DEF AnchorsFresh, Fresh, HorizonClosed
<1> HIDE DEF Inv
<1> QED
  BY <1>1, <1>2, <1>3, PTL DEF Spec

-----------------------------------------------------------------------------
(* Positions in the log *)

\* The anchors of a timeline point into the first n events.
Inside(tl, n) == \A a \in AnchorName :
    tl.anchors[a] # NoAnchor => tl.anchors[a].index <= n

\* All open blocks belong to one branch.
OneBranch == \A i, j \in DOMAIN blocks : blocks[i].branch = blocks[j].branch

\* Speculation i started at or after those around it; the log before it is what
\* the anchors it saved point into, and those of every other branch.
BlockInside(i) ==
    /\ blocks[i].start <= Len(history)
    /\ Inside(blocks[i].saved, blocks[i].start)
    /\ \A t \in Branch \ {blocks[i].branch} :
         Inside(timeline[t], blocks[i].start)
    /\ \A j \in DOMAIN blocks :
         j < i /\ blocks[j].kind = "speculate" =>
             blocks[j].start <= blocks[i].start

\* A rollback that will cut the log leaves everything that points into it.
AbortInside ==
    /\ control.start <= Len(history)
    /\ \A t \in Branch : Inside(timeline[t], control.start)
    /\ \A i \in DOMAIN blocks : blocks[i].kind = "speculate" =>
         blocks[i].start <= control.start

Aborting == control.mode = "undo" /\ control.resume.kind = "abort"

AnchorsInside ==
    /\ \A t \in Branch : Inside(timeline[t], Len(history))
    /\ \A i \in DOMAIN blocks :
         blocks[i].kind = "speculate" => BlockInside(i)
    /\ Aborting => AbortInside

\* The branches of the blocks a step leaves open.
LEMMA OneBranchStep ==
    ASSUME Scoped, TypeInv, OneBranch, [Next]_vars
    PROVE  OneBranch'
<1>1. CASE blocks' = blocks
  BY <1>1 DEF OneBranch
<1>2. CASE blocks # <<>> /\ blocks' = Front(blocks)
  <2>1. /\ Len(blocks) \in Nat /\ DOMAIN blocks = 1 .. Len(blocks)
        /\ DOMAIN blocks' = 1 .. Len(blocks) - 1
        /\ \A i \in DOMAIN blocks' : blocks'[i] = blocks[i]
    BY <1>2, BlockLeft DEF TypeInv
  <2> QED
    BY <2>1 DEF OneBranch
<1>3. ASSUME NEW b \in Branch, CommitBegin(b) \/ SpeculateBegin(b)
      PROVE  OneBranch'
  <2>1. PICK block \in SpeculateBlock \union CommitBlock :
          block.branch = b /\ blocks' = Append(blocks, block)
    <3>1. CASE CommitBegin(b)
      <4>1. [kind |-> "commit", branch |-> b] \in CommitBlock
        BY DEF CommitBlock
      <4> QED
        BY <3>1, <4>1 DEF CommitBegin
    <3>2. CASE SpeculateBegin(b)
      <4>1. timeline[b] \in Timeline /\ Len(history) \in Nat
        BY SeqElements DEF TypeInv, TypeOK
      <4>2. [timeline |-> timeline, channels |-> channels, pending |-> pending]
              \in Configuration
        BY DEF TypeInv, TypeOK, Configuration
      <4>3. [kind |-> "speculate", branch |-> b, saved |-> timeline[b],
             start |-> Len(history),
             before |-> [timeline |-> timeline, channels |-> channels,
                         pending |-> pending]] \in SpeculateBlock
        BY <4>1, <4>2 DEF SpeculateBlock
      <4> QED
        BY <3>2, <4>3 DEF SpeculateBegin
    <3> QED
      BY <1>3, <3>1, <3>2
  <2>2. /\ Len(blocks) \in Nat
        /\ DOMAIN blocks = 1 .. Len(blocks)
        /\ DOMAIN blocks' = 1 .. Len(blocks) + 1
        /\ \A i \in DOMAIN blocks : blocks'[i] = blocks[i]
        /\ blocks'[Len(blocks) + 1] = block
    BY <2>1, BlockEntered DEF TypeInv
  <2>3. \A i \in DOMAIN blocks : blocks[i].branch = b
    <3>1. CASE blocks = <<>>
      BY <2>2, <3>1
    <3>2. CASE blocks # <<>>
      <4>1. Last(blocks).branch = b
        BY <1>3, <3>2 DEF CommitBegin, SpeculateBegin, Executes
      <4>2. Last(blocks) = blocks[Len(blocks)] /\ Len(blocks) \in DOMAIN blocks
        BY <2>2, <3>2, LastProperties DEF TypeInv, TypeOK
      <4> QED
        BY <4>1, <4>2 DEF OneBranch
    <3> QED
      BY <3>1, <3>2
  <2> QED
    BY <2>1, <2>2, <2>3 DEF OneBranch
<1>4. ASSUME NEW b \in Branch, Statement(b),
             ~(CommitBegin(b) \/ SpeculateBegin(b))
      PROVE  blocks' = blocks
  BY <1>4 DEF Statement, Assign, MoveLocal, Send, ChannelOpen, ChannelSend,
              ChannelReceive, Slice, Tick, SetAnchor, Rewind, AcausalReset,
              blockVars
<1>5. CASE CommitEnd \/ SpeculateEnd \/ Fail \/ Unwind
  BY <1>1, <1>2, <1>5
     DEF CommitEnd, SpeculateEnd, Fail, Unwind, Abort, PopSpeculation,
         TopBlock, blockVars
<1>6. CASE Rollback
  BY <1>1, <1>6 DEF Rollback, UndoOther, UndoSend, UndoRecv, UndoMove,
                    FinishRewind, FinishReset, FinishAbort, blockVars
<1>7. CASE UNCHANGED vars
  BY <1>1, <1>7 DEF vars, blockVars
<1> QED
  BY <1>1, <1>3, <1>4, <1>5, <1>6, <1>7 DEF Next

\* What points into n events points into more.
LEMMA InsideMore ==
    ASSUME NEW tl \in Timeline, NEW n \in Nat, NEW m \in Nat, n <= m,
           Inside(tl, n)
    PROVE  Inside(tl, m)
<1> SUFFICES ASSUME NEW a \in AnchorName, tl.anchors[a] # NoAnchor
             PROVE  tl.anchors[a].index <= m
  BY DEF Inside
<1>1. tl.anchors[a].index \in Nat
  BY DEF Timeline, AnchorPoint
<1>2. tl.anchors[a].index <= n
  BY DEF Inside
<1> QED
  BY <1>1, <1>2

\* The numbers of a speculate block.
LEMMA SpeculationType ==
    ASSUME TypeOK, NEW i \in DOMAIN blocks, blocks[i].kind = "speculate"
    PROVE  /\ blocks[i].start \in Nat
           /\ blocks[i].saved \in Timeline
           /\ blocks[i].before \in Configuration
           /\ blocks[i].branch \in Branch
<1>1. blocks[i] \in SpeculateBlock \union CommitBlock
  BY SeqElements DEF TypeOK
<1>2. blocks[i] \in SpeculateBlock
  BY <1>1 DEF CommitBlock
<1> QED
  BY <1>2 DEF SpeculateBlock

\* Timeline t of the next state points into the log no further than it did.
NoNewPosition(t) == \A a \in AnchorName :
    timeline'[t].anchors[a] # NoAnchor =>
        /\ timeline[t].anchors[a] # NoAnchor
        /\ timeline'[t].anchors[a].index = timeline[t].anchors[a].index

\* A step that sets no anchor, enters no speculation and does not cut the log.
LEMMA InsideFrame ==
    ASSUME TypeInv, TypeInv', AnchorsInside, NoNewSpeculation,
           Len(history) <= Len(history'),
           \A t \in Branch : NoNewPosition(t),
           Aborting' => Aborting /\ control'.start = control.start
    PROVE  AnchorsInside'
<1>1. /\ Len(history) \in Nat /\ Len(history') \in Nat
      /\ \A t \in Branch : timeline[t] \in Timeline /\ timeline'[t] \in Timeline
  BY SeqElements DEF TypeInv, TypeOK
<1>2. \A t \in Branch : \A n \in Nat : Inside(timeline[t], n)
                                      => Inside(timeline'[t], n)
  BY DEF NoNewPosition, Inside
<1>3. \A t \in Branch : Inside(timeline'[t], Len(history'))
  BY <1>1, <1>2, InsideMore DEF AnchorsInside
<1>4. ASSUME NEW i \in DOMAIN blocks', blocks'[i].kind = "speculate"
      PROVE  BlockInside(i)'
  <2>1. i \in DOMAIN blocks /\ blocks'[i] = blocks[i]
    BY <1>4 DEF NoNewSpeculation
  <2>2. BlockInside(i) /\ blocks[i].start \in Nat
    BY <1>4, <2>1, SpeculationType DEF AnchorsInside, TypeInv
  <2>3. blocks[i].start <= Len(history')
    BY <1>1, <2>2 DEF BlockInside
  <2>4. \A t \in Branch \ {blocks[i].branch} :
          Inside(timeline'[t], blocks[i].start)
    BY <1>2, <2>2 DEF BlockInside
  <2> QED
    BY <2>1, <2>2, <2>3, <2>4 DEF BlockInside, NoNewSpeculation
<1>5. Aborting' => AbortInside'
  <2> SUFFICES ASSUME Aborting' PROVE AbortInside'
    OBVIOUS
  <2>1. /\ AbortInside /\ control'.start = control.start
        /\ control.start \in Nat
    BY DEF AnchorsInside, Aborting, TypeInv, TypeOK, Control, Running
  <2>2. control.start <= Len(history')
    BY <1>1, <2>1 DEF AbortInside
  <2> QED
    BY <1>2, <2>1, <2>2 DEF AbortInside, NoNewSpeculation
<1> QED
  BY <1>3, <1>4, <1>5 DEF AnchorsInside

\* An abort goes back to a timeline from before the block, and the other
\* timelines have set no anchor since.
LEMMA InsideAbort ==
    ASSUME (Scoped /\ OneBranch) \/ NoSpeculation, TypeInv, TypeInv',
           AnchorsInside, NoNewSpeculation, blocks # <<>>,
           Top.kind = "speculate", Abort
    PROVE  AnchorsInside'
<1>1. OneBranch
  BY NoSpeculateBlock DEF TypeInv
<1> DEFINE n == Len(blocks)
           b == Top.branch
<1>2. /\ n \in Nat \ {0} /\ DOMAIN blocks = 1 .. n
      /\ DOMAIN blocks' = 1 .. n - 1
      /\ \A i \in DOMAIN blocks' : blocks'[i] = blocks[i]
      /\ Top = blocks[n]
  BY BlockLeft DEF Abort, PopSpeculation, TypeInv
<1>3. /\ BlockInside(n) /\ blocks[n].kind = "speculate"
      /\ Top.start \in Nat /\ Top.saved \in Timeline /\ b \in Branch
  BY <1>2, SpeculationType DEF AnchorsInside, TypeInv
<1>4. /\ timeline'[b] = Top.saved
      /\ \A t \in Branch \ {b} : timeline'[t] = timeline[t]
      /\ history' = history
      /\ control'.start = Top.start
  BY <1>3 DEF Abort, Undoing, TypeInv, TypeOK
<1>5. /\ Len(history) \in Nat /\ Top.start <= Len(history)
      /\ \A t \in Branch : timeline'[t] \in Timeline
  BY <1>2, <1>3, SeqElements DEF BlockInside, TypeInv, TypeOK
<1> HIDE DEF n, b
<1>6. \A t \in Branch : Inside(timeline'[t], Top.start)
  BY <1>2, <1>3, <1>4 DEF BlockInside, b
<1>7. \A t \in Branch : Inside(timeline'[t], Len(history'))
  BY <1>3, <1>4, <1>5, <1>6, InsideMore
<1>8. ASSUME NEW i \in DOMAIN blocks', blocks'[i].kind = "speculate"
      PROVE  BlockInside(i)' /\ blocks'[i].start <= Top.start
  <2>1. /\ i \in DOMAIN blocks /\ i < n /\ blocks'[i] = blocks[i]
        /\ blocks[i].branch = b
    BY <1>1, <1>2, <1>8 DEF OneBranch, b
  <2>2. BlockInside(i)
    BY <1>8, <2>1 DEF AnchorsInside
  <2>3. blocks[i].start <= Top.start
    BY <1>2, <1>3, <1>8, <2>1 DEF BlockInside
  <2>4. \A t \in Branch \ {blocks'[i].branch} :
          Inside(timeline'[t], blocks'[i].start)
    BY <1>4, <2>1, <2>2 DEF BlockInside
  <2>5. \A j \in DOMAIN blocks' :
          j < i /\ blocks'[j].kind = "speculate" =>
              blocks'[j].start <= blocks'[i].start
    BY <1>2, <2>1, <2>2 DEF BlockInside
  <2>6. /\ blocks'[i].start <= Len(history')
        /\ Inside(blocks'[i].saved, blocks'[i].start)
    BY <1>4, <2>1, <2>2 DEF BlockInside
  <2> QED
    BY <2>1, <2>3, <2>4, <2>5, <2>6 DEF BlockInside
<1>9. AbortInside'
  BY <1>4, <1>5, <1>6, <1>8 DEF AbortInside
<1> QED
  BY <1>7, <1>8, <1>9 DEF AnchorsInside

\* A statement that fails raises, and one that rewinds does not abort.
LEMMA StatementControl ==
    ASSUME NEW b \in Branch, Statement(b)
    PROVE  ~Aborting'
<1>1. \A e \in Errors : Raising(e).mode # "undo"
  BY RunningType
<1>2. CASE control' = Running
  BY <1>2, RunningType DEF Aborting
<1>3. CASE \E e \in Errors : control' = Raising(e)
  BY <1>1, <1>3 DEF Aborting
<1>4. CASE \E t, n, p, k : k \in {"rewind", "reset"}
              /\ control' = Undoing(t, n, [kind |-> k, anchor |-> p])
  BY <1>4 DEF Undoing, Aborting
<1>5. ASSUME NEW v \in Var, \E t \in Branch \union {NoBranch} : Send(b, v, t)
      PROVE  ~Aborting'
  BY <1>2, <1>3, <1>5 DEF Send, Errors
<1>6. ASSUME NEW v \in Var, \E c \in Chan : ChannelSend(b, v, c)
      PROVE  ~Aborting'
  BY <1>2, <1>3, <1>6 DEF ChannelSend, Executes, Errors
<1>7. ASSUME NEW a \in AnchorName, Rewind(b, a)
      PROVE  ~Aborting'
  BY <1>3, <1>4, <1>7 DEF Rewind, Errors
<1>8. ASSUME NEW a \in AnchorName, NEW t \in Branch, AcausalReset(b, t, a)
      PROVE  ~Aborting'
  BY <1>3, <1>4, <1>8 DEF AcausalReset, Errors
<1>9. ASSUME NEW v \in Var, \/ Assign(b, v)
                            \/ \E w \in Var : MoveLocal(b, w, v)
                            \/ \E c \in Chan : ChannelReceive(b, v, c)
      PROVE  ~Aborting'
  BY <1>2, <1>3, <1>9
     DEF Assign, MoveLocal, ChannelReceive, Bind, Executes, Errors
<1>10. CASE \/ \E c \in Chan : ChannelOpen(b, c)
            \/ \E a \in AnchorName : SetAnchor(b, a)
            \/ Slice(b) \/ Tick(b) \/ CommitBegin(b) \/ SpeculateBegin(b)
  BY <1>2, <1>10 DEF ChannelOpen, SetAnchor, Slice, Tick, CommitBegin,
                     SpeculateBegin, Executes
<1> QED
  BY <1>5, <1>6, <1>7, <1>8, <1>9, <1>10 DEF Statement

\* No statement shortens the log.
LEMMA StatementLog ==
    ASSUME TypeInv, NEW b \in Branch, Statement(b)
    PROVE  Len(history) \in Nat /\ Len(history) <= Len(history')
<1>1. Len(history) \in Nat
  BY SeqElements DEF TypeInv, TypeOK
<1>2. CASE history' = history
  BY <1>1, <1>2
<1>3. CASE \E e \in CausalEvent : history' = Append(history, e)
  BY <1>1, <1>3, AppendLog DEF TypeInv
<1>4. ASSUME NEW v \in Var, NEW t \in Branch \union {NoBranch}, Send(b, v, t)
      PROVE  \E e \in CausalEvent : history' = Append(history, e)
  <2>1. [kind |-> "move", branch |-> b, var |-> v, target |-> t]
          \in CausalEvent
    BY DEF CausalEvent, MoveEvent
  <2> QED
    BY <1>4, <2>1 DEF Send
<1>5. ASSUME NEW v \in Var, NEW c \in Chan, ChannelSend(b, v, c)
      PROVE  \E e \in CausalEvent : history' = Append(history, e)
  <2>1. [kind |-> "send", branch |-> b, chan |-> c, id |-> nextId]
          \in CausalEvent
    BY DEF CausalEvent, SendEvent, TypeInv, TypeOK
  <2> QED
    BY <1>5, <2>1 DEF ChannelSend
<1>6. ASSUME NEW v \in Var, NEW c \in Chan, ChannelReceive(b, v, c)
      PROVE  \E e \in CausalEvent : history' = Append(history, e)
  <2>1. Head(channels[c]) \in Message
    BY <1>6, HeadTailProperties DEF ChannelReceive, TypeInv, TypeOK
  <2>2. [kind |-> "recv", branch |-> b, chan |-> c,
         message |-> Head(channels[c])] \in CausalEvent
    BY <2>1 DEF CausalEvent, RecvEvent
  <2> QED
    BY <1>6, <2>2 DEF ChannelReceive
<1>7. ASSUME NEW v \in Var,
             Assign(b, v) \/ \E w \in Var : MoveLocal(b, w, v)
      PROVE  history' = history
  BY <1>7 DEF Assign, MoveLocal
<1>8. CASE \/ \E c \in Chan : ChannelOpen(b, c)
           \/ \E a \in AnchorName :
                \/ SetAnchor(b, a) \/ Rewind(b, a)
                \/ \E t \in Branch : AcausalReset(b, t, a)
           \/ Slice(b) \/ Tick(b) \/ CommitBegin(b) \/ SpeculateBegin(b)
  BY <1>2, <1>8 DEF ChannelOpen, SetAnchor, Rewind, AcausalReset, Slice, Tick,
                    CommitBegin, SpeculateBegin
<1> QED
  BY <1>2, <1>3, <1>4, <1>5, <1>6, <1>7, <1>8 DEF Statement

\* A step of a rollback keeps what the rollback is for.
LEMMA UndoKeeps ==
    ASSUME TypeInv, Rollback
    PROVE  /\ Aborting' => Aborting /\ control'.start = control.start
           /\ FinishAbort \/ history' = history
           /\ blocks' = blocks
<1>1. \A e \in Errors : Raising(e).mode # "undo"
  BY RunningType
<1>2. Undo /\ NextEvent
        => (Aborting' => Aborting /\ control'.start = control.start)
  <2> SUFFICES ASSUME Undo, NextEvent
               PROVE  Aborting' => Aborting /\ control'.start = control.start
    OBVIOUS
  <2>1. control \in [mode : {"undo"}, branch : Branch, at : Nat,
                     start : Nat, resume : Resume]
    BY DEF TypeInv, TypeOK, Control, Undo, Running
  <2>2. /\ control'.resume = control.resume
        /\ control'.start = control.start
        /\ control'.mode = control.mode
    BY <2>1 DEF NextEvent
  <2> QED
    BY <2>2 DEF Aborting
<1>3. (Undo /\ NextEvent) \/ ~Aborting'
  BY <1>1, RunningType
     DEF Rollback, UndoOther, UndoSend, UndoRecv, UndoMove, FinishRewind,
         FinishReset, FinishAbort, RollbackFails, Undone, Errors, Aborting
<1>4. FinishAbort \/ history' = history
  BY DEF Rollback, UndoOther, UndoSend, UndoRecv, UndoMove, FinishRewind,
         FinishReset
<1>5. blocks' = blocks
  BY DEF Rollback, UndoOther, UndoSend, UndoRecv, UndoMove, FinishRewind,
         FinishReset, FinishAbort, blockVars
<1> QED
  BY <1>2, <1>3, <1>4, <1>5

\* Every step keeps what points into the log inside of it.
LEMMA InsideStep ==
    ASSUME (Scoped /\ OneBranch) \/ NoSpeculation, TypeInv, TypeInv',
           AnchorsInside, [Next]_vars
    PROVE  AnchorsInside'
<1>1. /\ Len(history) \in Nat
      /\ \A t \in Branch : timeline[t] \in Timeline
  BY SeqElements DEF TypeInv, TypeOK
<1>2. ASSUME NEW b \in Branch, SpeculateBegin(b) PROVE AnchorsInside'
  <2> DEFINE n == Len(blocks) + 1
  <2>1. /\ DOMAIN blocks' = 1 .. n
        /\ DOMAIN blocks = 1 .. n - 1
        /\ n \in Nat
        /\ \A i \in DOMAIN blocks : blocks'[i] = blocks[i]
        /\ blocks'[n].saved = timeline[b]
        /\ blocks'[n].start = Len(history)
        /\ timeline' = timeline /\ history' = history
    BY <1>2, SpeculateBeginBlock DEF SpeculateBegin
  <2> HIDE DEF n
  <2>2. ASSUME NEW i \in DOMAIN blocks', blocks'[i].kind = "speculate"
        PROVE  BlockInside(i)'
    <3>1. CASE i = n
      <4>1. \A j \in DOMAIN blocks' :
              j < i /\ blocks'[j].kind = "speculate" =>
                  blocks'[j].start <= Len(history)
        BY <2>1, <3>1 DEF AnchorsInside, BlockInside
      <4> QED
        BY <1>1, <2>1, <3>1, <4>1 DEF AnchorsInside, BlockInside
    <3>2. CASE i # n
      <4>1. i \in DOMAIN blocks /\ blocks'[i] = blocks[i] /\ BlockInside(i)
        BY <2>1, <2>2, <3>2 DEF AnchorsInside
      <4>2. \A j \in DOMAIN blocks' : j < i =>
              j \in DOMAIN blocks /\ blocks'[j] = blocks[j]
        BY <2>1, <4>1
      <4> QED
        BY <2>1, <4>1, <4>2 DEF BlockInside
    <3> QED
      BY <3>1, <3>2
  <2>3. ~Aborting'
    <3>1. Statement(b)
      BY <1>2 DEF Statement
    <3> QED
      BY <3>1, StatementControl
  <2> QED
    BY <2>1, <2>2, <2>3 DEF AnchorsInside
<1>3. CASE ~(\E b \in Branch : SpeculateBegin(b))
  <2>1. NoNewSpeculation
    BY <1>3, SpeculationEntered
  <2>2. ASSUME NEW b \in Branch, NEW a \in AnchorName, SetAnchor(b, a)
        PROVE  AnchorsInside'
    <3> DEFINE point == [arena   |-> timeline[b].arena,
                         index   |-> Len(history),
                         commits |-> timeline[b].commits,
                         stale   |-> FALSE]
    <3>1. /\ point.index = Len(history)
          /\ timeline' = [timeline EXCEPT ![b].anchors[a] = point]
          /\ history' = history /\ blocks' = blocks
      BY <2>2 DEF SetAnchor, blockVars
    <3> HIDE DEF point
    <3>2. \A t \in Branch : \A n \in AnchorName :
             \/ timeline'[t].anchors[n] = timeline[t].anchors[n]
             \/ timeline'[t].anchors[n] = point /\ t = b
      BY <3>1 DEF TypeInv, TypeOK, Timeline
    <3>3. \A t \in Branch : Inside(timeline'[t], Len(history'))
      BY <1>1, <3>1, <3>2 DEF AnchorsInside, Inside
    <3>4. \A t \in Branch \ {b} : \A n \in Nat :
            Inside(timeline[t], n) => Inside(timeline'[t], n)
      BY <3>2 DEF Inside
    <3>5. ASSUME NEW i \in DOMAIN blocks, blocks[i].kind = "speculate"
          PROVE  BlockInside(i)'
      <4>1. blocks[i].branch = b
        <5>1. Scoped /\ OneBranch
          BY <3>5 DEF NoSpeculation
        <5>2. Last(blocks) = blocks[Len(blocks)] /\ Len(blocks) \in DOMAIN blocks
              /\ blocks # <<>>
          BY LastProperties, SeqElements DEF TypeInv, TypeOK
        <5>3. Last(blocks).branch = b
          BY <2>2, <5>1, <5>2 DEF SetAnchor, Executes
        <5> QED
          BY <5>1, <5>2, <5>3 DEF OneBranch
      <4>2. BlockInside(i) /\ blocks[i].start \in Nat
        BY <3>5, SpeculationType DEF AnchorsInside, TypeInv
      <4>3. \A t \in Branch \ {blocks[i].branch} :
              Inside(timeline'[t], blocks[i].start)
        BY <3>4, <4>1, <4>2 DEF BlockInside
      <4> QED
        BY <3>1, <4>2, <4>3 DEF BlockInside
    <3>6. ~Aborting'
      <4>1. Statement(b)
        BY <2>2 DEF Statement
      <4> QED
        BY <4>1, StatementControl
    <3> QED
      BY <3>1, <3>3, <3>5, <3>6 DEF AnchorsInside
  <2>3. ASSUME NEW b \in Branch, Statement(b),
               ~(\E a \in AnchorName : SetAnchor(b, a))
        PROVE  AnchorsInside'
    <3>1. \A t \in Branch : NoNewPosition(t)
      BY <2>3, StatementKeeps DEF AnchorsKept, NoNewPosition
    <3> QED
      BY <2>1, <2>3, <3>1, StatementLog, StatementControl, InsideFrame
  <2>4. CASE CommitEnd
    <3>1. Top.branch \in Branch
      BY <2>4, TopType DEF CommitEnd, TopBlock, TypeInv
    <3>2. \A t \in Branch : NoNewPosition(t)
      BY <2>4, <3>1
         DEF CommitEnd, NoNewPosition, TypeInv, TypeOK, Timeline
    <3>3. history' = history /\ ~Aborting'
      BY <2>4, RunningType DEF CommitEnd, TopBlock, Aborting
    <3> QED
      BY <1>1, <2>1, <3>2, <3>3, InsideFrame
  <2>5. CASE SpeculateEnd /\ ~Abort
    <3> DEFINE n == Len(blocks)
               b == Top.branch
    <3>1. /\ n \in Nat \ {0} /\ DOMAIN blocks = 1 .. n
          /\ DOMAIN blocks' = 1 .. n - 1
          /\ \A i \in DOMAIN blocks' : blocks'[i] = blocks[i]
          /\ Top = blocks[n] /\ Top.kind = "speculate"
      BY <2>5, BlockLeft
         DEF SpeculateEnd, PopSpeculation, TopBlock, Top, TypeInv
    <3>2. /\ BlockInside(n) /\ OneBranch
          /\ Top.start \in Nat /\ Top.saved \in Timeline /\ b \in Branch
      BY <3>1, SpeculationType DEF AnchorsInside, TypeInv, NoSpeculation
    <3>3. history' = history /\ ~Aborting'
      BY <2>5, RunningType DEF SpeculateEnd, TopBlock, Aborting, Errors
    <3>4. /\ \A t \in Branch \ {b} : timeline'[t] = timeline[t]
          /\ timeline'[b].anchors \in {timeline[b].anchors, Top.saved.anchors}
      <4>1. CASE timeline' = [timeline EXCEPT ![b].horizon = TRUE]
        BY <3>2, <4>1 DEF TypeInv, TypeOK, Timeline
      <4>2. CASE \E done :
                   \/ timeline' = [timeline EXCEPT ![b] = Exported(done)]
                   \/ timeline' = [timeline EXCEPT ![b] =
                                    [Exported(done) EXCEPT !.horizon = TRUE]]
        <5>1. PICK done :
                   \/ timeline' = [timeline EXCEPT ![b] = Exported(done)]
                   \/ timeline' = [timeline EXCEPT ![b] =
                                    [Exported(done) EXCEPT !.horizon = TRUE]]
          BY <4>2
        <5>2. /\ Exported(done) \in Timeline
              /\ Exported(done).anchors = Top.saved.anchors
          <6>1. Exported(done) \in Timeline
            BY <3>1, ExportedType DEF TypeInv
          <6> QED
            BY <3>2, <6>1 DEF Exported, Timeline
        <5> HIDE DEF b
        <5> QED
          BY <3>2, <5>1, <5>2 DEF TypeInv, TypeOK, Timeline
      <4> QED
        BY <2>5, <4>1, <4>2 DEF SpeculateEnd
    <3>5. \A t \in Branch : Inside(timeline'[t], Len(history'))
      <4>1. Inside(Top.saved, Len(history))
        <5>1. Inside(Top.saved, Top.start) /\ Top.start <= Len(history)
          BY <3>1, <3>2 DEF BlockInside
        <5> QED
          BY <1>1, <3>2, <5>1, InsideMore
      <4> QED
        BY <3>3, <3>4, <4>1 DEF AnchorsInside, Inside
    <3>6. ASSUME NEW i \in DOMAIN blocks', blocks'[i].kind = "speculate"
          PROVE  BlockInside(i)'
      <4>1. /\ i \in DOMAIN blocks /\ blocks'[i] = blocks[i]
            /\ blocks[i].branch = b /\ BlockInside(i)
        BY <3>1, <3>2, <3>6 DEF OneBranch, AnchorsInside
      <4>2. \A j \in DOMAIN blocks' :
              j \in DOMAIN blocks /\ blocks'[j] = blocks[j]
        BY <3>1
      <4> HIDE DEF b, n
      <4> QED
        BY <3>3, <3>4, <4>1, <4>2 DEF BlockInside
    <3> QED
      BY <3>3, <3>5, <3>6 DEF AnchorsInside
  <2>6. ASSUME blocks # <<>>, Top.kind = "speculate", Abort
        PROVE  AnchorsInside'
    BY <2>1, <2>6, InsideAbort
  <2>7. CASE timeline' = timeline /\ history' = history
             /\ (control' = control \/ control'.mode # "undo")
    <3>1. \A t \in Branch : NoNewPosition(t)
      BY <2>7 DEF NoNewPosition
    <3>2. Aborting' => Aborting /\ control'.start = control.start
      BY <2>7 DEF Aborting
    <3> QED
      BY <1>1, <2>1, <2>7, <3>1, <3>2, InsideFrame
  <2>8. CASE Fail
    BY <2>7, <2>8, RunningType DEF Fail, Errors
  <2>9. CASE Unwind
    BY <2>6, <2>7, <2>9, RunningType DEF Unwind
  <2>10. CASE Rollback /\ ~FinishAbort
    <3>1. \A t \in Branch : NoNewPosition(t)
      BY <2>10, RollbackKeeps DEF NoNewAnchor, NoNewPosition
    <3> QED
      BY <1>1, <2>1, <2>10, <3>1, UndoKeeps, InsideFrame
  <2>11. CASE FinishAbort
    <3>1. AbortInside /\ control.start \in Nat
      BY <2>11, UndoneType DEF FinishAbort, Undone, AnchorsInside, Aborting
    <3>2. Len(history') = control.start
      <4>1. history \in Seq(CausalEvent)
        BY DEF TypeInv, TypeOK
      <4> QED
        BY <1>1, <2>11, <3>1, <4>1, TruncateProperties
           DEF FinishAbort, AbortInside
    <3>3. /\ timeline' = timeline /\ blocks' = blocks /\ ~Aborting'
      BY <2>11, RunningType DEF FinishAbort, Undone, blockVars, Aborting
    <3> QED
      BY <3>1, <3>2, <3>3 DEF AnchorsInside, AbortInside, BlockInside
  <2>12. CASE UNCHANGED vars
    BY <2>7, <2>12 DEF vars
  <2> QED
    BY <2>2, <2>3, <2>4, <2>5, <2>6, <2>8, <2>9, <2>10, <2>11, <2>12
       DEF Next, SpeculateEnd, TopBlock, Top
<1> QED
  BY <1>2, <1>3

\* Nothing points into the empty log of the initial state.
LEMMA InitInside == Init => AnchorsInside /\ OneBranch
<1> SUFFICES ASSUME Init PROVE AnchorsInside /\ OneBranch
  OBVIOUS
<1>1. DOMAIN blocks = {} /\ ~Aborting
  BY RunningType DEF Init, Aborting
<1>2. \A b \in Branch, a \in AnchorName : timeline[b].anchors[a] = NoAnchor
  BY DEF Init, InitTimeline
<1> QED
  BY <1>1, <1>2 DEF AnchorsInside, Inside, OneBranch

\* What the machine keeps of positions in the log, if the statements in a block
\* are those of its branch or nothing aborts.
Positioned == /\ TypeInv
              /\ AnchorsInside
              /\ Scoped => OneBranch
              /\ "speculate" \notin Stmts => NoSpeculation

\* Every stored anchor, those saved for an abort included, points into the part
\* of the log that an abort leaves.
LEMMA PositionsKept ==
    ASSUME Scoped \/ "speculate" \notin Stmts
    PROVE  Spec => []Positioned
<1>1. Init => Positioned
  BY InitTypeInv, InitOutflow, InitInside DEF Positioned
<1>2. Positioned /\ [Next]_vars => Positioned'
  <2> SUFFICES ASSUME Positioned, [Next]_vars PROVE Positioned'
    OBVIOUS
  <2>1. TypeInv /\ TypeInv'
    BY TypeInvStep DEF Positioned
  <2>2. (Scoped => OneBranch)'
    BY OneBranchStep DEF Positioned
  <2>3. ("speculate" \notin Stmts => NoSpeculation)'
    BY NoSpeculationStep DEF Positioned
  <2> QED
    BY <2>1, <2>2, <2>3, InsideStep DEF Positioned
<1> QED
  BY <1>1, <1>2, PTL DEF Spec

\* An anchor never points past the end of the log, in every program whose blocks
\* hold statements of their own branch only, or that does not speculate.
THEOREM AnchorsValid ==
    ASSUME Scoped \/ "speculate" \notin Stmts
    PROVE  Spec => []AnchorInLog
<1>1. Positioned => AnchorInLog
  BY DEF Positioned, AnchorsInside, Inside, AnchorInLog
<1> QED
  BY <1>1, PositionsKept, PTL
=============================================================================
