---------------------------- MODULE CausalChannels ----------------------------
(***************************************************************************)
(* What the causal core promises of its channels, with timelines, anchors  *)
(* and the log left out: messages are published by ticks and taken in      *)
(* order, a message is given back only if it was taken, and withdrawn only *)
(* if it never was.  A rewind is any number of the last two.               *)
(***************************************************************************)
EXTENDS Integers, SequencesExt

CONSTANT Chan

VARIABLES
    opened,     \* the channels that exist
    offered,    \* the messages a receiver may take, by channel
    waiting,    \* the messages that wait for a tick
    taken,      \* channel and message of everything ever taken
    withdrawn,  \* ids of the messages taken back by their sender
    next        \* the id of the next message

vars == <<opened, offered, waiting, taken, withdrawn, next>>

Init ==
    /\ opened = {}
    /\ offered = [c \in Chan |-> <<>>]
    /\ waiting = [c \in Chan |-> <<>>]
    /\ taken = {}
    /\ withdrawn = {}
    /\ next = 0

\* An open channel is emptied.
Open(c) ==
    /\ opened' = opened \union {c}
    /\ offered' = [offered EXCEPT ![c] = <<>>]
    /\ waiting' = [waiting EXCEPT ![c] = <<>>]
    /\ UNCHANGED <<taken, withdrawn, next>>

\* Every send has a number of its own, also one that reaches no channel.
Numbered ==
    /\ next' = next + 1
    /\ UNCHANGED <<opened, taken, withdrawn>>

Lose ==
    /\ Numbered
    /\ UNCHANGED <<offered, waiting>>

Offer(c) ==
    /\ c \in opened
    /\ Numbered
    /\ \E m \in ToSet(offered'[c]) :
          m.id = next /\ offered' = [offered EXCEPT ![c] = Append(@, m)]
    /\ UNCHANGED waiting

Defer(c) ==
    /\ c \in opened
    /\ Numbered
    /\ \E m \in ToSet(waiting'[c]) :
          m.id = next /\ waiting' = [waiting EXCEPT ![c] = Append(@, m)]
    /\ UNCHANGED offered

Publish ==
    /\ offered' = [c \in Chan |-> offered[c] \o waiting[c]]
    /\ waiting' = [c \in Chan |-> <<>>]
    /\ UNCHANGED <<opened, taken, withdrawn, next>>

Take(c) ==
    /\ offered[c] # <<>>
    /\ offered' = [offered EXCEPT ![c] = Tail(@)]
    /\ taken' = taken \union {<<c, Head(offered[c])>>}
    /\ UNCHANGED <<opened, waiting, withdrawn, next>>

\* A rewound receiver gives a message back to the front.
GiveBack(delivery) ==
    /\ offered' = [offered EXCEPT ![delivery[1]] = <<delivery[2]>> \o @]
    /\ UNCHANGED <<opened, waiting, taken, withdrawn, next>>

\* A rewound sender takes a message back that nobody has ever taken.
Withdraw(m) ==
    /\ \A delivery \in taken : delivery[2].id # m.id
    /\ withdrawn' = withdrawn \union {m.id}
    /\ UNCHANGED <<opened, taken, next>>

WithdrawOffered(c) ==
    \E p \in DOMAIN offered[c] :
        /\ Withdraw(offered[c][p])
        /\ offered' = [offered EXCEPT ![c] = RemoveAt(@, p)]
        /\ UNCHANGED waiting

WithdrawWaiting(c) ==
    \E p \in DOMAIN waiting[c] :
        /\ Withdraw(waiting[c][p])
        /\ waiting' = [waiting EXCEPT ![c] = RemoveAt(@, p)]
        /\ UNCHANGED offered

Next ==
    \/ \E c \in Chan : Open(c) \/ Offer(c) \/ Defer(c) \/ Take(c)
                       \/ WithdrawOffered(c) \/ WithdrawWaiting(c)
    \/ Lose \/ Publish
    \/ \E delivery \in taken : GiveBack(delivery)

Spec == Init /\ [][Next]_vars
=============================================================================
