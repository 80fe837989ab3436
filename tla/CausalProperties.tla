-------------------------- MODULE CausalProperties --------------------------
(***************************************************************************)
(* What the causal core promises, stated over the state of CausalVm.       *)
(***************************************************************************)
EXTENDS CausalVm

\* Every variable of the machine keeps its type.
TypeOK ==
    /\ timeline \in [Branch -> Timeline]
    /\ opened \subseteq Chan
    /\ channels \in [Chan -> Seq(Message)]
    /\ pending \in [Chan -> Seq(Message)]
    /\ history \in Seq(CausalEvent)
    /\ nextId \in Nat
    /\ nextValue \in Value
    /\ blocks \in Seq(SpeculateBlock \union CommitBlock)
    /\ contexts \in Seq(Context)
    /\ control \in Control
    /\ unsent \subseteq Nat
    /\ faulted \in BOOLEAN

Queued(c, id) == InQueue(channels[c], id) \/ InQueue(pending[c], id)

Received(id) == \E j \in DOMAIN history : /\ history[j].kind = "recv"
                                          /\ history[j].message.id = id

-----------------------------------------------------------------------------
(* Messages *)

\* Causal outflow locking: a message that a rollback has taken back never
\* reaches a receiver, neither one that already had it nor a later one.
UnsentNeverSurfaces ==
    \A id \in unsent : ~Received(id) /\ \A c \in Chan : ~Queued(c, id)

\* A message waiting in a queue can be traced to the send that put it there,
\* so a rollback of its sender still finds it.
QueuedWasSent ==
    \A c \in Chan : \A queue \in {channels[c], pending[c]} :
        \A p \in DOMAIN queue : \E i \in DOMAIN history :
            history[i] = [kind |-> "send", branch |-> queue[p].sender,
                          chan |-> c, id |-> queue[p].id]

\* A completed rewind or reset has given back every message its branch had
\* received since the anchor, taken back every one it had sent, and no other
\* branch still holds a binding it had moved there.
RewindUndoesAll ==
    [][Undone("rewind") \/ Undone("reset")
         => \A i \in control.resume.anchor.index + 1 .. Len(history) :
              history[i].branch = control.branch
                => LET e == history[i]
                   IN  /\ e.kind = "recv" => InQueue(channels[e.chan],
                                                     e.message.id)
                       /\ e.kind = "send" => ~Queued(e.chan, e.id)
                       /\ e.kind = "move" /\ e.target # e.branch =>
                            ~IsValid(timeline[e.target].arena[e.var])]_vars

\* A queue never holds two copies of one message.
SingleDelivery ==
    control = Running /\ ~faulted =>
        \A c \in Chan : \A p, q \in DOMAIN channels[c] :
            channels[c][p].id = channels[c][q].id => p = q

\* The deliveries in the log.
Deliveries ==
    {<<history[j].chan, history[j].message>> :
        j \in {i \in DOMAIN history : history[i].kind = "recv"}}

Channels ==
    INSTANCE CausalChannels
        WITH offered <- channels, waiting <- pending, taken <- Deliveries,
             withdrawn <- unsent, next <- nextId

\* The causal core without speculation implements its channels: whatever order
\* sends, ticks, receives and the steps of interleaved rollbacks come in, each
\* of them is a step of a channel or none (docs/spec/ictl_spec_semantics.md:59).
ImplementsChannels == Channels!Spec

-----------------------------------------------------------------------------
(* Values *)

InQueues(x) ==
    UNION {{<<c, "channel", p>> : p \in {q \in DOMAIN channels[c] :
                                           channels[c][q].payload = x}}
           \union {<<c, "pending", p>> : p \in {q \in DOMAIN pending[c] :
                                           pending[c][q].payload = x}}
           : c \in Chan}

InArenas(x) == {bv \in Branch \X Var : timeline[bv[1]].arena[bv[2]] = x}

\* Single ownership: as long as no rollback has failed, a value has at most one
\* owner, a binding of one timeline or a message in one queue.
OneOwner ==
    control = Running /\ ~faulted =>
        \A x \in 1 .. nextValue - 1 :
            Cardinality(InArenas(x)) + Cardinality(InQueues(x)) <= 1

-----------------------------------------------------------------------------
(* Speculation and commit *)

\* An aborted speculation leaves the configuration it started from.
AbortRestores ==
    [][Undone("abort")
         => [timeline |-> timeline, channels |-> channels, pending |-> pending]
              = control.resume.before]_vars

\* A branch past a commit has no anchor from before it.
HorizonClosed ==
    control = Running =>
        \A b \in Branch, a \in AnchorName :
            timeline[b].anchors[a] # NoAnchor
              => timeline[b].anchors[a].commits = timeline[b].commits

\* An anchor never points past the end of the log.
AnchorInLog ==
    control = Running =>
        \A b \in Branch, a \in AnchorName :
            timeline[b].anchors[a] # NoAnchor
              => timeline[b].anchors[a].index <= Len(history)

-----------------------------------------------------------------------------
(* A rollback or an error, once begun, ends and the program goes on. *)
RollbackEnds == control # Running ~> control = Running
=============================================================================
