---------------------------- MODULE OwnershipProofs ----------------------------
(***************************************************************************)
(* Proof that a value has one owner in programs that use an anchor once.   *)
(* What a rollback may bring back (a claim) must not be owned by anybody   *)
(* else by then; the proof follows the claims of all branches.             *)
(***************************************************************************)
EXTENDS BlockProofs, FiniteSetTheorems

-----------------------------------------------------------------------------
(* Queues and the values in them *)

\* Message m is in a queue.
Among(s, m) == \E i \in DOMAIN s : s[i] = m

\* No value is in the queue twice.
Lone(s) == \A i, j \in DOMAIN s : s[i].payload = s[j].payload => i = j

\* No value is in these queues twice.
Single(q) ==
    /\ \A c \in Chan : Lone(q[c])
    /\ \A c, d \in Chan : \A m, n :
         Among(q[c], m) /\ Among(q[d], n) /\ c # d => m.payload # n.payload

\* No value is in queues of both.
Disjoint(q, r) ==
    \A c, d \in Chan : \A m, n :
        Among(q[c], m) /\ Among(r[d], n) => m.payload # n.payload

\* r is q with another queue for channel c.
Replaced(q, c, s, r) == /\ r[c] = s
                        /\ \A d \in Chan \ {c} : r[d] = q[d]

\* remove leaves the other messages.
LEMMA LoneRemove ==
    ASSUME NEW s \in Seq(Message), NEW p \in DOMAIN s
    PROVE  /\ Lone(s) => Lone(RemoveAt(s, p))
           /\ \A m : Among(RemoveAt(s, p), m) => Among(s, m)
<1> DEFINE t == RemoveAt(s, p)
           old(i) == IF i < p THEN i ELSE i + 1
<1>1. Len(s) \in Nat /\ DOMAIN s = 1 .. Len(s) /\ p \in 1 .. Len(s)
  BY SeqElements
<1>2. /\ t \in Seq(Message) /\ Len(t) = Len(s) - 1
      /\ \A i \in 1 .. Len(s) - 1 : t[i] = IF i < p THEN s[i] ELSE s[i + 1]
  BY <1>1, RemoveAtProperties
<1> HIDE DEF t
<1>3. DOMAIN t = 1 .. Len(s) - 1
  BY <1>2, SeqElements
<1>4. \A i \in DOMAIN t : old(i) \in DOMAIN s /\ t[i] = s[old(i)]
  BY <1>1, <1>2, <1>3
<1>5. \A i, j \in DOMAIN t : old(i) = old(j) => i = j
  BY <1>1, <1>3
<1> HIDE DEF old
<1>6. (Lone(s) => Lone(t)) /\ \A m : Among(t, m) => Among(s, m)
  BY <1>4, <1>5 DEF Lone, Among
<1> QED
  BY <1>6 DEF t

\* pop_front takes the value of the first message out of the queue.
LEMMA LonePop ==
    ASSUME NEW s \in Seq(Message), s # <<>>
    PROVE  /\ Among(s, Head(s)) /\ Head(s) \in Message
           /\ \A m : Among(Tail(s), m) => Among(s, m)
           /\ Lone(s) => /\ Lone(Tail(s))
                         /\ \A m : Among(Tail(s), m) =>
                              m.payload # Head(s).payload
<1> DEFINE t == Tail(s)
           h == Head(s)
<1>1. Len(s) \in Nat \ {0} /\ DOMAIN s = 1 .. Len(s)
  BY SeqElements, LastProperties
<1>2. /\ t \in Seq(Message) /\ Len(t) = Len(s) - 1
      /\ \A i \in 1 .. Len(t) : t[i] = s[i + 1]
      /\ h \in Message /\ h = s[1]
  BY HeadTailProperties
<1> HIDE DEF t, h
<1>3. DOMAIN t = 1 .. Len(s) - 1
  BY <1>2, SeqElements
<1>4. \A i \in DOMAIN t : i + 1 \in DOMAIN s /\ t[i] = s[i + 1] /\ i + 1 # 1
  BY <1>1, <1>2, <1>3
<1>5. \A i, j \in DOMAIN t : i + 1 = j + 1 => i = j
  BY <1>1, <1>3
<1>6. Among(s, h) /\ \A m : Among(t, m) => Among(s, m)
  BY <1>1, <1>2, <1>4 DEF Among
<1>7. ASSUME Lone(s) PROVE Lone(t)
  BY <1>4, <1>5, <1>7 DEF Lone
<1>8. ASSUME Lone(s) PROVE \A m : Among(t, m) => m.payload # h.payload
  BY <1>1, <1>2, <1>4, <1>8 DEF Lone, Among
<1>9. h \in Message
  BY <1>2
<1> QED
  BY <1>6, <1>7, <1>8, <1>9 DEF t, h

\* push_back adds one message.
LEMMA LonePush ==
    ASSUME NEW s \in Seq(Message), NEW m \in Message
    PROVE  /\ Lone(s) /\ (\A n : Among(s, n) => n.payload # m.payload)
              => Lone(Append(s, m))
           /\ \A n : Among(Append(s, m), n) => Among(s, n) \/ n = m
<1> DEFINE t == Append(s, m)
           L == Len(s)
<1>1. L \in Nat /\ DOMAIN s = 1 .. L
  BY SeqElements
<1>2. /\ t \in Seq(Message) /\ Len(t) = L + 1
      /\ \A i \in 1 .. L : t[i] = s[i]
      /\ t[L + 1] = m
  BY PushProperties
<1> HIDE DEF t
<1>3. DOMAIN t = 1 .. L + 1
  BY <1>2, SeqElements
<1>4. \A i \in DOMAIN t : \/ i \in DOMAIN s /\ t[i] = s[i]
                          \/ i = L + 1 /\ t[i] = m
  BY <1>1, <1>2, <1>3
<1> HIDE DEF L
<1>5. \A n : Among(t, n) => Among(s, n) \/ n = m
  BY <1>4 DEF Among
<1>6. ASSUME Lone(s), \A n : Among(s, n) => n.payload # m.payload
      PROVE  Lone(t)
  <2>1. \A i \in DOMAIN s : s[i].payload # m.payload
    BY <1>6 DEF Among
  <2> QED
    BY <1>4, <1>6, <2>1 DEF Lone
<1> QED
  BY <1>5, <1>6 DEF t

\* push_front adds one message.
LEMMA LonePushFront ==
    ASSUME NEW s \in Seq(Message), NEW m \in Message
    PROVE  /\ Lone(s) /\ (\A n : Among(s, n) => n.payload # m.payload)
              => Lone(<<m>> \o s)
           /\ \A n : Among(<<m>> \o s, n) => Among(s, n) \/ n = m
<1> DEFINE t == <<m>> \o s
           L == Len(s)
<1>1. L \in Nat /\ DOMAIN s = 1 .. L
  BY SeqElements
<1>2. /\ t \in Seq(Message) /\ Len(t) = L + 1
      /\ \A i \in 1 .. L + 1 : t[i] = IF i = 1 THEN m ELSE s[i - 1]
  BY PushFrontProperties
<1> HIDE DEF t
<1>3. DOMAIN t = 1 .. L + 1
  BY <1>2, SeqElements
<1>4. \A i \in DOMAIN t : \/ i - 1 \in DOMAIN s /\ t[i] = s[i - 1]
                          \/ i = 1 /\ t[i] = m
  BY <1>1, <1>2, <1>3
<1>5. \A i, j \in DOMAIN t : i - 1 = j - 1 => i = j
  BY <1>1, <1>3
<1> HIDE DEF L
<1>6. \A n : Among(t, n) => Among(s, n) \/ n = m
  BY <1>4 DEF Among
<1>7. ASSUME Lone(s), \A n : Among(s, n) => n.payload # m.payload
      PROVE  Lone(t)
  <2>1. \A i \in DOMAIN s : s[i].payload # m.payload
    BY <1>7 DEF Among
  <2> QED
    BY <1>4, <1>5, <1>7, <2>1 DEF Lone
<1> QED
  BY <1>6, <1>7 DEF t

\* append.
LEMMA LoneConcat ==
    ASSUME NEW s \in Seq(Message), NEW t \in Seq(Message)
    PROVE  /\ /\ Lone(s) /\ Lone(t)
              /\ \A m, n : Among(s, m) /\ Among(t, n) => m.payload # n.payload
              => Lone(s \o t)
           /\ \A m : Among(s \o t, m) => Among(s, m) \/ Among(t, m)
<1> DEFINE r == s \o t
           L == Len(s)
<1>1. \A i \in DOMAIN r : /\ i \in Nat /\ L \in Nat
                          /\ i <= L => i \in DOMAIN s /\ r[i] = s[i]
                          /\ i > L => i - L \in DOMAIN t /\ r[i] = t[i - L]
  BY AppendAllProperties
<1> HIDE DEF r
<1>2. \A i \in DOMAIN r : \/ i <= L /\ i \in DOMAIN s /\ r[i] = s[i]
                          \/ i > L /\ i - L \in DOMAIN t /\ r[i] = t[i - L]
  BY <1>1
<1>3. \A i, j \in DOMAIN r : i - L = j - L => i = j
  BY <1>1
<1> HIDE DEF L
<1>4. \A m : Among(r, m) => Among(s, m) \/ Among(t, m)
  BY <1>2 DEF Among
<1>5. ASSUME Lone(s), Lone(t),
             \A m, n : Among(s, m) /\ Among(t, n) => m.payload # n.payload
      PROVE  Lone(r)
  <2>1. \A i \in DOMAIN s, j \in DOMAIN t : s[i].payload # t[j].payload
    BY <1>5 DEF Among
  <2> QED
    BY <1>2, <1>3, <1>5, <2>1 DEF Lone
<1> QED
  BY <1>4, <1>5 DEF r

\* One queue that loses messages.
LEMMA Thinned ==
    ASSUME NEW q, NEW r, NEW c \in Chan, NEW s, Replaced(q, c, s, r),
           Single(q), Lone(q[c]) => Lone(s),
           \A m : Among(s, m) => Among(q[c], m)
    PROVE  /\ Single(r)
           /\ \A d \in Chan : \A m : Among(r[d], m) => Among(q[d], m)
<1>1. \A d \in Chan : /\ Lone(r[d])
                      /\ \A m : Among(r[d], m) => Among(q[d], m)
  BY DEF Replaced, Single
<1> QED
  BY <1>1 DEF Single

\* One queue that gains a message of a value that is nowhere in them.
LEMMA Grown ==
    ASSUME NEW q, NEW r, NEW c \in Chan, NEW s, NEW m, Replaced(q, c, s, r),
           Single(q), Lone(q[c]) => Lone(s),
           \A n : Among(s, n) => Among(q[c], n) \/ n = m,
           \A d \in Chan : \A n : Among(q[d], n) => n.payload # m.payload
    PROVE  /\ Single(r)
           /\ \A d \in Chan : \A n : Among(r[d], n) =>
                Among(q[d], n) \/ (d = c /\ n = m)
<1>1. \A d \in Chan : /\ Lone(r[d])
                      /\ \A n : Among(r[d], n) =>
                           Among(q[d], n) \/ (d = c /\ n = m)
  BY DEF Replaced, Single
<1> QED
  BY <1>1 DEF Single

\* Queues that shrink stay apart.
LEMMA StillDisjoint ==
    ASSUME NEW q, NEW r, NEW qq, NEW rr, Disjoint(q, r),
           \A d \in Chan : \A m : Among(qq[d], m) => Among(q[d], m),
           \A d \in Chan : \A m : Among(rr[d], m) => Among(r[d], m)
    PROVE  Disjoint(qq, rr)
  BY DEF Disjoint

\* What a tick publishes.
LEMMA Published ==
    ASSUME NEW q \in [Chan -> Seq(Message)], NEW r \in [Chan -> Seq(Message)],
           NEW s, \A c \in Chan : s[c] = q[c] \o r[c],
           Single(q), Single(r), Disjoint(q, r)
    PROVE  /\ Single(s)
           /\ \A d \in Chan : \A m :
                Among(s[d], m) => Among(q[d], m) \/ Among(r[d], m)
<1>1. ASSUME NEW d \in Chan
      PROVE  /\ Lone(s[d])
             /\ \A m : Among(s[d], m) => Among(q[d], m) \/ Among(r[d], m)
  <2>1. /\ q[d] \in Seq(Message) /\ r[d] \in Seq(Message)
        /\ Lone(q[d]) /\ Lone(r[d])
        /\ \A m, n : Among(q[d], m) /\ Among(r[d], n) => m.payload # n.payload
    BY DEF Single, Disjoint
  <2>2. Lone(q[d] \o r[d]) /\ \A m : Among(q[d] \o r[d], m) =>
                                       Among(q[d], m) \/ Among(r[d], m)
    BY <2>1, LoneConcat
  <2> QED
    BY <2>2
<1>2. ASSUME NEW c \in Chan, NEW d \in Chan, NEW m, NEW n,
             Among(s[c], m), Among(s[d], n), c # d
      PROVE  m.payload # n.payload
  <2>1. /\ Among(q[c], m) \/ Among(r[c], m)
        /\ Among(q[d], n) \/ Among(r[d], n)
    BY <1>1, <1>2
  <2> QED
    BY <1>2, <2>1 DEF Single, Disjoint
<1> QED
  BY <1>1, <1>2 DEF Single

-----------------------------------------------------------------------------
(* Owners and claims *)

\* Timeline t is being rolled back: its arena is about to be replaced.
Walking(t) == control.mode = "undo" /\ control.branch = t

\* The value of variable v of t is x.
Held(t, v, x) == timeline[t].arena[v] = x /\ ~Walking(t)
Holds(t, x) == \E v \in Var : Held(t, v, x)

\* P is an anchor that t may still return to.
Live(t, P) ==
    IF Walking(t) THEN P = control.resume.anchor
    ELSE \E a \in AnchorName : /\ P = timeline[t].anchors[a]
                               /\ P # NoAnchor
                               /\ ~P.stale

\* Going back to position k of the log would give x back to t: because x is in
\* the arena of an anchor at k, or because the receive at k would be undone and
\* the receiver could have received x again.
Claim(t, k, x) ==
    \/ \E P : /\ Live(t, P) /\ P.index = k
              /\ \E v \in Var : P.arena[v] = x
    \/ /\ k \in DOMAIN history
       /\ history[k].kind = "recv" /\ history[k].branch = t
       /\ history[k].message.payload = x
       /\ \E P : Live(t, P) /\ P.index < k
       /\ Walking(t) => k <= control.at

\* A send by t after position k.
SentAfter(t, k, id) ==
    \E i \in DOMAIN history : /\ i > k /\ history[i].kind = "send"
                              /\ history[i].branch = t /\ history[i].id = id

\* Going back to k fails: somebody received what t sent since.
Spoilt(t, k) == \E id : SentAfter(t, k, id) /\ Received(id)

Standing(t, k, x) == Claim(t, k, x) /\ ~Spoilt(t, k)

\* Nobody can own x but t, or a queue that t can take it out of.
Safe(t, k, x) ==
    /\ \A u \in Branch : Holds(u, x) => u = t
    /\ \A c \in Chan : \A m :
         Waiting(c, m) /\ m.payload = x => SentAfter(t, k, m.id)
    /\ \A j \in DOMAIN history :
         j > k /\ history[j].kind = "recv" => history[j].message.payload # x
    /\ \A u \in Branch : \A l \in Nat : Standing(u, l, x) => u = t

ClaimsSafe == \A t \in Branch : \A k \in Nat : \A x \in Value :
                 Standing(t, k, x) => Safe(t, k, x)

\* One binding of one branch has the value.
OneHolder == \A t, u \in Branch : \A v, w \in Var : \A x \in Value :
                Held(t, v, x) /\ Held(u, w, x) => t = u /\ v = w

\* A value that is held is not in a queue.
NoneBoth == \A t \in Branch : \A x \in Value : Holds(t, x) =>
               \A c \in Chan : \A m : Waiting(c, m) => m.payload # x

OnePlace == Single(channels) /\ Single(pending) /\ Disjoint(channels, pending)

\* An anchor binds a value to one variable.
LiveOnce == \A t \in Branch : \A P : Live(t, P) =>
               \A v, w \in Var : P.arena[v] \in Value /\ P.arena[v] = P.arena[w]
                                   => v = w

\* The sends that the walk has passed are taken back.
WalkUnsent == control.mode = "undo" => \A i \in DOMAIN history :
    i > control.at /\ history[i].kind = "send"
      /\ history[i].branch = control.branch => history[i].id \in unsent

Owned == /\ OneHolder
         /\ NoneBoth
         /\ OnePlace
         /\ LiveOnce
         /\ ClaimsSafe
         /\ WalkUnsent

\* A value that exists was created by an assignment.
Seen(x) == x \in Value => x < nextValue
Known ==
    /\ \A t \in Branch, v \in Var : Seen(timeline[t].arena[v])
    /\ \A t \in Branch, a \in AnchorName :
         timeline[t].anchors[a] # NoAnchor =>
           \A v \in Var : Seen(timeline[t].anchors[a].arena[v])
    /\ control.mode = "undo" =>
         \A v \in Var : Seen(control.resume.anchor.arena[v])
    /\ \A c \in Chan : \A m : Waiting(c, m) => Seen(m.payload)
    /\ \A j \in DOMAIN history :
         history[j].kind = "recv" => Seen(history[j].message.payload)

\* No program without send statements logs a move.
NoMoves == \A i \in DOMAIN history : history[i].kind # "move"

\* What the proof takes from the others.
Base == TypeInv /\ NoSpeculation /\ Traced /\ Positioned /\ UndoneSoFar

-----------------------------------------------------------------------------
(* Claims over a log that grows *)

\* The log of the next state is an extension of this one's.
LogKept == \A i \in DOMAIN history : i \in DOMAIN history'
                                     /\ history'[i] = history[i]

\* What was received stays received, so a spoilt claim stays spoilt.
LEMMA SpoiltForGood ==
    ASSUME LogKept
    PROVE  /\ \A t, k, id : SentAfter(t, k, id) => SentAfter(t, k, id)'
           /\ \A id : Received(id) => Received(id)'
           /\ \A t, k : Spoilt(t, k) => Spoilt(t, k)'
<1>1. \A t, k, id : SentAfter(t, k, id) => SentAfter(t, k, id)'
  BY DEF LogKept, SentAfter
<1>2. \A id : Received(id) => Received(id)'
  BY DEF LogKept, Received
<1> QED
  BY <1>1, <1>2 DEF Spoilt

\* A claim stays safe if nobody else comes to own, receive or claim its value.
LEMMA SafeKept ==
    ASSUME LogKept, NEW t \in Branch, NEW k \in Nat, NEW x, Safe(t, k, x),
           \A u \in Branch : Holds(u, x)' => Holds(u, x) \/ u = t,
           \A c \in Chan : \A m : Waiting(c, m)' /\ m.payload = x =>
              Waiting(c, m) \/ SentAfter(t, k, m.id)',
           \A j \in DOMAIN history' :
              j > k /\ history'[j].kind = "recv"
                    /\ history'[j].message.payload = x => j \in DOMAIN history,
           \A u \in Branch : \A l \in Nat :
              Standing(u, l, x)' => Standing(u, l, x) \/ u = t
    PROVE  Safe(t, k, x)'
<1>1. \A u \in Branch : Holds(u, x)' => u = t
  BY DEF Safe
<1>2. \A c \in Chan : \A m :
         Waiting(c, m)' /\ m.payload = x => SentAfter(t, k, m.id)'
  BY SpoiltForGood DEF Safe
<1>3. \A j \in DOMAIN history' :
         j > k /\ history'[j].kind = "recv" => history'[j].message.payload # x
  BY DEF Safe, LogKept
<1>4. \A u \in Branch : \A l \in Nat : Standing(u, l, x)' => u = t
  BY DEF Safe
<1> QED
  BY <1>1, <1>2, <1>3, <1>4 DEF Safe

\* Claims that stand after a step over a log that grows, unless the step makes
\* new ones, stood before it.
LEMMA StandingBefore ==
    ASSUME LogKept, NEW t, NEW k, NEW x,
           Claim(t, k, x)' => Claim(t, k, x), Standing(t, k, x)'
    PROVE  Standing(t, k, x)
  BY SpoiltForGood DEF Standing

\* A step that logs nothing and takes anchors away makes no claim.
LEMMA ClaimsShrink ==
    ASSUME history' = history, NEW t \in Branch,
           \A P : Live(t, P)' => Live(t, P),
           \A P : Live(t, P)' /\ Walking(t) =>
              /\ Walking(t)'
              /\ \A k \in DOMAIN history : k <= control'.at => k <= control.at
    PROVE  \A k, x : Claim(t, k, x)' => Claim(t, k, x)
<1> SUFFICES ASSUME NEW k, NEW x, Claim(t, k, x)' PROVE Claim(t, k, x)
  OBVIOUS
<1>1. CASE \E P : /\ Live(t, P)' /\ P.index = k
                  /\ \E v \in Var : P.arena[v] = x
  BY <1>1 DEF Claim
<1>2. CASE /\ k \in DOMAIN history'
           /\ history'[k].kind = "recv" /\ history'[k].branch = t
           /\ history'[k].message.payload = x
           /\ \E P : Live(t, P)' /\ P.index < k
           /\ Walking(t)' => k <= control'.at
  <2>1. PICK P : Live(t, P)' /\ P.index < k
    BY <1>2
  <2>2. Live(t, P) /\ (Walking(t) => k <= control.at)
    BY <1>2, <2>1
  <2> QED
    BY <1>2, <2>1, <2>2 DEF Claim
<1> QED
  BY <1>1, <1>2 DEF Claim

\* Claims stay safe in a step that logs nothing and makes no owner and no claim.
LEMMA ClaimsFrame ==
    ASSUME history' = history, ClaimsSafe,
           \A u \in Branch : \A x \in Value : Holds(u, x)' => Holds(u, x),
           \A c \in Chan : \A m : Waiting(c, m)' => Waiting(c, m),
           \A u \in Branch : \A k, x : Claim(u, k, x)' => Claim(u, k, x)
    PROVE  ClaimsSafe'
<1> SUFFICES ASSUME NEW t \in Branch, NEW k \in Nat, NEW x \in Value,
                    Standing(t, k, x)'
             PROVE  Safe(t, k, x)'
  BY DEF ClaimsSafe
<1>1. LogKept
  BY DEF LogKept
<1>2. \A u \in Branch : \A l \in Nat : Standing(u, l, x)' => Standing(u, l, x)
  BY <1>1, StandingBefore
<1>3. Safe(t, k, x)
  BY <1>2 DEF ClaimsSafe
<1> QED
  BY <1>1, <1>2, <1>3, SafeKept

\* Such a step keeps all of ownership if it adds nothing to any binding, queue
\* or anchor.
LEMMA ThinStep ==
    ASSUME Owned, history' = history, OnePlace', WalkUnsent',
           \A u \in Branch : \A v \in Var : \A x \in Value :
              Held(u, v, x)' => Held(u, v, x),
           \A c \in Chan : \A m : Waiting(c, m)' => Waiting(c, m),
           \A u \in Branch : \A P : Live(u, P)' => Live(u, P),
           \A u \in Branch : \A k, x : Claim(u, k, x)' => Claim(u, k, x)
    PROVE  Owned'
<1>1. \A u \in Branch : \A x \in Value : Holds(u, x)' => Holds(u, x)
  BY DEF Holds
<1>2. OneHolder'
  BY DEF Owned, OneHolder
<1>3. NoneBoth'
  BY <1>1 DEF Owned, NoneBoth
<1>4. LiveOnce'
  BY DEF Owned, LiveOnce
<1>5. ClaimsSafe'
  BY <1>1, ClaimsFrame DEF Owned
<1> QED
  BY <1>2, <1>3, <1>4, <1>5 DEF Owned

\* A step between running and raising that leaves the timelines, the queues and
\* the log alone.
LEMMA CalmStep ==
    ASSUME Owned, history' = history, channels' = channels,
           pending' = pending, control.mode # "undo", control'.mode # "undo",
           \A u \in Branch : \A v \in Var : \A x \in Value :
              timeline'[u].arena[v] = x => timeline[u].arena[v] = x,
           \A u \in Branch : \A a \in AnchorName :
              \/ timeline'[u].anchors[a] = NoAnchor
              \/ timeline'[u].anchors[a] = timeline[u].anchors[a]
    PROVE  Owned'
<1>1. \A u : ~Walking(u) /\ ~Walking(u)'
  BY DEF Walking
<1>2. \A u \in Branch : \A v \in Var : \A x \in Value :
         Held(u, v, x)' => Held(u, v, x)
  BY <1>1 DEF Held
<1>3. \A u \in Branch : \A P : Live(u, P)' => Live(u, P)
  BY <1>1 DEF Live
<1>4. \A u \in Branch : \A k, x : Claim(u, k, x)' => Claim(u, k, x)
  BY <1>1, <1>3, ClaimsShrink
<1>5. OnePlace' /\ WalkUnsent'
  BY DEF Owned, OnePlace, WalkUnsent
<1>6. \A c \in Chan : \A m : Waiting(c, m)' => Waiting(c, m)
  BY DEF Waiting
<1> QED
  BY <1>2, <1>3, <1>4, <1>5, <1>6, ThinStep

-----------------------------------------------------------------------------
(* Statements on values *)

\* The next state has value y for variable v of b and all other bindings and
\* anchors as they were.
Bound(b, v, y) == \A u \in Branch :
    /\ timeline'[u].anchors = timeline[u].anchors
    /\ \A w \in Var : timeline'[u].arena[w] = IF u = b /\ w = v THEN y
                                              ELSE timeline[u].arena[w]

\* What replacing one binding does.
LEMMA BoundBy ==
    ASSUME TypeInv, NEW b \in Branch, NEW v \in Var, NEW y,
           timeline' = [timeline EXCEPT ![b].arena[v] = y]
    PROVE  Bound(b, v, y)
  BY DEF TypeInv, TypeOK, Timeline, Arena, Bound

\* The same, or the binding is as it was.
MayBind(b, v, y) == \A u \in Branch :
    /\ timeline'[u].anchors = timeline[u].anchors
    /\ \A w \in Var : \/ timeline'[u].arena[w] = timeline[u].arena[w]
                      \/ u = b /\ w = v /\ timeline'[u].arena[w] = y

\* What a binding that finds room or not does, and that it starts no rollback.
LEMMA MayBindBy ==
    ASSUME TypeInv, control = Running, NEW b \in Branch, NEW v \in Var, NEW y,
           Bind(b, v, y, timeline)
    PROVE  MayBind(b, v, y) /\ control'.mode # "undo"
<1>1. control'.mode # "undo"
  BY RunningType DEF Bind, Errors
<1>2. CASE timeline' = timeline
  BY <1>1, <1>2 DEF MayBind
<1>3. CASE timeline' = [timeline EXCEPT ![b].arena[v] = y]
  BY <1>1, <1>3, BoundBy DEF Bound, MayBind
<1> QED
  BY <1>2, <1>3 DEF Bind

\* Outside of a rollback the claims of a branch follow from its anchors.
LEMMA SameClaims ==
    ASSUME control.mode # "undo", control'.mode # "undo",
           NEW u \in Branch, timeline'[u].anchors = timeline[u].anchors,
           LogKept, \A j \in DOMAIN history' :
                       history'[j].kind = "recv" => j \in DOMAIN history
    PROVE  /\ \A P : Live(u, P)' <=> Live(u, P)
           /\ \A k, x : Claim(u, k, x)' => Claim(u, k, x)
<1>1. ~Walking(u) /\ ~Walking(u)'
  BY DEF Walking
<1>2. \A P : Live(u, P)' <=> Live(u, P)
  BY <1>1 DEF Live
<1> QED
  BY <1>1, <1>2 DEF Claim, LogKept

\* A value that is nowhere has no claims.
LEMMA Unclaimed ==
    ASSUME Known, NEW x \in Value, ~(x < nextValue)
    PROVE  /\ \A u \in Branch : \A k : ~Claim(u, k, x)
           /\ \A u \in Branch : ~Holds(u, x)
           /\ \A c \in Chan : \A m : Waiting(c, m) => m.payload # x
<1>1. ~Seen(x)
  BY DEF Seen
<1>2. \A u \in Branch : \A P : Live(u, P) => \A v \in Var : P.arena[v] # x
  BY <1>1 DEF Live, Walking, Known
<1> QED
  BY <1>1, <1>2 DEF Known, Claim, Holds, Held

\* An assignment creates a value that nobody claims.
LEMMA OwnedAssign ==
    ASSUME TypeInv, Known, Owned, NEW b \in Branch, NEW v \in Var, Assign(b, v)
    PROVE  Owned'
<1>1. PICK y \in Value : y = nextValue /\ ~(y < nextValue)
  BY DEF TypeInv, TypeOK, Value
<1>2. /\ Bound(b, v, y)
      /\ UNCHANGED <<channels, pending, history>>
      /\ control.mode # "undo" /\ control'.mode # "undo"
  BY <1>1, BoundBy, RunningType DEF Assign, Executes, queueVars
<1>3. LogKept /\ \A u : ~Walking(u) /\ ~Walking(u)'
  BY <1>2 DEF LogKept, Walking
<1>4. /\ \A u \in Branch : \A k : ~Claim(u, k, y)
      /\ \A u \in Branch : ~Holds(u, y)
      /\ \A c \in Chan : \A m : Waiting(c, m) => m.payload # y
  BY <1>1, Unclaimed
<1>5. \A u \in Branch : \A w \in Var : \A x \in Value :
         Held(u, w, x)' => Held(u, w, x) \/ (u = b /\ w = v /\ x = y)
  BY <1>2, <1>3 DEF Held, Bound
<1>6. \A c \in Chan : \A m : Waiting(c, m)' => Waiting(c, m)
  BY <1>2 DEF Waiting
<1>7. \A u \in Branch : /\ \A P : Live(u, P)' <=> Live(u, P)
                        /\ \A k, x : Claim(u, k, x)' => Claim(u, k, x)
  BY <1>2, <1>3, SameClaims DEF Bound
<1>8. OneHolder'
  BY <1>4, <1>5 DEF Owned, OneHolder, Holds
<1>9. NoneBoth'
  BY <1>4, <1>5, <1>6 DEF Owned, NoneBoth, Holds
<1>10. LiveOnce'
  BY <1>7 DEF Owned, LiveOnce
<1>11. OnePlace' /\ WalkUnsent'
  BY <1>2 DEF Owned, OnePlace, WalkUnsent
<1>12. ASSUME NEW t \in Branch, NEW k \in Nat, NEW x \in Value,
              Standing(t, k, x)'
       PROVE  Safe(t, k, x)'
  <2>1. \A u \in Branch : \A l \in Nat :
           Standing(u, l, x)' => Standing(u, l, x)
    BY <1>3, <1>7, StandingBefore
  <2>2. Safe(t, k, x) /\ x # y
    BY <1>4, <1>12, <2>1 DEF Owned, ClaimsSafe, Standing
  <2>3. \A u \in Branch : Holds(u, x)' => Holds(u, x)
    BY <1>5, <2>2 DEF Holds
  <2> QED
    BY <1>2, <1>3, <1>6, <2>1, <2>2, <2>3, SafeKept
<1> QED
  BY <1>8, <1>9, <1>10, <1>11, <1>12 DEF Owned, ClaimsSafe

\* The next state has Consumed for variable w of b, has y or the old binding for
\* v, and all other bindings and anchors as they were.
Moved(b, w, v, y) == \A u \in Branch :
    /\ timeline'[u].anchors = timeline[u].anchors
    /\ \A z \in Var : IF u = b /\ z = w
                       THEN timeline'[u].arena[z] = Consumed
                       ELSE \/ timeline'[u].arena[z] = timeline[u].arena[z]
                            \/ u = b /\ z = v /\ timeline'[u].arena[z] = y

\* What a move does whose target finds room or not.
LEMMA MovedBy ==
    ASSUME TypeInv, NEW b \in Branch, NEW v \in Var, NEW w \in Var,
           MoveLocal(b, w, v)
    PROVE  Moved(b, w, v, timeline[b].arena[w]) /\ control'.mode # "undo"
<1> DEFINE y == timeline[b].arena[w]
           taken == [timeline EXCEPT ![b].arena[w] = Consumed]
<1>1. v # w /\ control = Running /\ Bind(b, v, y, taken)
  BY DEF MoveLocal, Executes
<1>2. control'.mode # "undo"
  BY <1>1, RunningType DEF Bind, Errors
<1>3. CASE timeline' = taken
  BY <1>2, <1>3 DEF Moved, TypeInv, TypeOK, Timeline, Arena
<1>4. CASE timeline' = [taken EXCEPT ![b].arena[v] = y]
  BY <1>1, <1>2, <1>4 DEF Moved, TypeInv, TypeOK, Timeline, Arena
<1> QED
  BY <1>1, <1>3, <1>4 DEF Bind

\* A move within a branch gives the value another name.
LEMMA OwnedMoveLocal ==
    ASSUME TypeInv, Owned, NEW b \in Branch, NEW v \in Var, NEW w \in Var,
           MoveLocal(b, w, v)
    PROVE  Owned'
<1>1. PICK y \in Value : y = timeline[b].arena[w]
  BY ValidIsValue DEF MoveLocal, TypeInv
<1>2. /\ Moved(b, w, v, y)
      /\ UNCHANGED <<channels, pending, history>>
      /\ control.mode # "undo" /\ control'.mode # "undo"
  BY <1>1, MovedBy, RunningType DEF MoveLocal, Executes, queueVars
<1>3. LogKept /\ \A u : ~Walking(u) /\ ~Walking(u)'
  BY <1>2 DEF LogKept, Walking
<1>4. \A u \in Branch : \A z \in Var : \A x \in Value :
         Held(u, z, x)' => /\ ~(u = b /\ z = w)
                           /\ \/ Held(u, z, x)
                              \/ u = b /\ z = v /\ x = y
  <2>1. Consumed \notin Value
    BY ConstantsAssumption DEF Value
  <2> QED
    BY <1>2, <1>3, <2>1 DEF Held, Moved
<1>5. Held(b, w, y)
  BY <1>1, <1>3 DEF Held
<1>6. \A u \in Branch : \A x \in Value : Holds(u, x)' => Holds(u, x)
  BY <1>4, <1>5 DEF Holds
<1>7. \A c \in Chan : \A m : Waiting(c, m)' => Waiting(c, m)
  BY <1>2 DEF Waiting
<1>8. \A u \in Branch : /\ \A P : Live(u, P)' <=> Live(u, P)
                        /\ \A k, x : Claim(u, k, x)' => Claim(u, k, x)
  BY <1>2, <1>3, SameClaims DEF Moved
<1>9. OneHolder'
  <2> SUFFICES ASSUME NEW t \in Branch, NEW u \in Branch, NEW i \in Var,
                      NEW j \in Var, NEW x \in Value,
                      Held(t, i, x)', Held(u, j, x)'
               PROVE  t = u /\ i = j
    BY DEF OneHolder
  <2> QED
    BY <1>4, <1>5 DEF Owned, OneHolder
<1>10. NoneBoth'
  BY <1>6, <1>7 DEF Owned, NoneBoth
<1>11. LiveOnce'
  BY <1>8 DEF Owned, LiveOnce
<1>12. OnePlace' /\ WalkUnsent'
  BY <1>2 DEF Owned, OnePlace, WalkUnsent
<1>13. ClaimsSafe'
  BY <1>2, <1>6, <1>7, <1>8, ClaimsFrame DEF Owned
<1> QED
  BY <1>9, <1>10, <1>11, <1>12, <1>13 DEF Owned

-----------------------------------------------------------------------------
(* Channels *)

\* The messages of the queues of a channel, as the lemmas on queues have them.
LEMMA WaitingAmong ==
    /\ \A c \in Chan : \A m :
         Waiting(c, m) <=> Among(channels[c], m) \/ Among(pending[c], m)
    /\ \A c \in Chan : \A m :
         Waiting(c, m)' <=> Among(channels'[c], m) \/ Among(pending'[c], m)
  BY DEF Waiting, Among

\* A queue map with one queue replaced.
LEMMA ReplacedBy ==
    ASSUME NEW q \in [Chan -> Seq(Message)], NEW c \in Chan, NEW s, NEW r,
           r = [q EXCEPT ![c] = s]
    PROVE  Replaced(q, c, s, r)
  BY DEF Replaced

\* A message of a value that no queue has goes to the back of one.
LEMMA PushedPlace ==
    ASSUME TypeInv, OnePlace, NEW c \in Chan, NEW m \in Message,
           \A d \in Chan : \A n : Waiting(d, n) => n.payload # m.payload,
           \/ /\ channels' = [channels EXCEPT ![c] = Append(@, m)]
              /\ pending' = pending
           \/ /\ channels' = [channels EXCEPT ![c] = <<m>> \o @]
              /\ pending' = pending
           \/ /\ pending' = [pending EXCEPT ![c] = Append(@, m)]
              /\ channels' = channels
    PROVE  /\ OnePlace'
           /\ \A d \in Chan : \A n : Waiting(d, n)' =>
                Waiting(d, n) \/ (d = c /\ n = m)
<1>1. /\ channels \in [Chan -> Seq(Message)] /\ channels[c] \in Seq(Message)
      /\ pending \in [Chan -> Seq(Message)] /\ pending[c] \in Seq(Message)
  BY DEF TypeInv, TypeOK
<1>2. /\ \A d \in Chan : \A n : Among(channels[d], n) => n.payload # m.payload
      /\ \A d \in Chan : \A n : Among(pending[d], n) => n.payload # m.payload
  BY WaitingAmong
<1>3. ASSUME NEW q \in [Chan -> Seq(Message)], NEW r, NEW s,
             q[c] \in Seq(Message), r = [q EXCEPT ![c] = s],
             s = Append(q[c], m) \/ s = <<m>> \o q[c], Single(q),
             \A d \in Chan : \A n : Among(q[d], n) => n.payload # m.payload
      PROVE  /\ Single(r)
             /\ \A d \in Chan : \A n : Among(r[d], n) =>
                  Among(q[d], n) \/ (d = c /\ n = m)
  <2>1. Replaced(q, c, s, r)
    BY <1>3, ReplacedBy
  <2>2. /\ Lone(q[c]) => Lone(s)
        /\ \A n : Among(s, n) => Among(q[c], n) \/ n = m
    BY <1>3, LonePush, LonePushFront
  <2> QED
    BY <1>3, <2>1, <2>2, Grown
<1>4. /\ \A d \in Chan : \A n :
           Among(channels'[d], n) => Among(channels[d], n) \/ (d = c /\ n = m)
      /\ \A d \in Chan : \A n :
           Among(pending'[d], n) => Among(pending[d], n) \/ (d = c /\ n = m)
      /\ Single(channels') /\ Single(pending')
      /\ channels' = channels \/ pending' = pending
  <2>1. CASE /\ \/ channels' = [channels EXCEPT ![c] = Append(@, m)]
                \/ channels' = [channels EXCEPT ![c] = <<m>> \o @]
             /\ pending' = pending
    <3>1. PICK q \in [Chan -> Seq(Message)] : q = channels
      BY <1>1
    <3>2. PICK s : /\ channels' = [q EXCEPT ![c] = s]
                   /\ s = Append(q[c], m) \/ s = <<m>> \o q[c]
      BY <2>1, <3>1
    <3>3. PICK r : r = channels'
      OBVIOUS
    <3>4. Single(q) /\ q[c] \in Seq(Message)
      BY <1>1, <3>1 DEF OnePlace
    <3>5. \A d \in Chan : \A n : Among(q[d], n) => n.payload # m.payload
      BY <1>2, <3>1
    <3>6. r = [q EXCEPT ![c] = s]
      BY <3>2, <3>3
    <3>7. /\ Single(r)
          /\ \A d \in Chan : \A n : Among(r[d], n) =>
                  Among(q[d], n) \/ (d = c /\ n = m)
      BY <1>3, <3>2, <3>4, <3>5, <3>6
    <3> QED
      BY <2>1, <3>1, <3>3, <3>7 DEF OnePlace
  <2>2. CASE /\ pending' = [pending EXCEPT ![c] = Append(@, m)]
             /\ channels' = channels
    <3>1. PICK q \in [Chan -> Seq(Message)] : q = pending
      BY <1>1
    <3>2. PICK s : pending' = [q EXCEPT ![c] = s] /\ s = Append(q[c], m)
      BY <2>2, <3>1
    <3>3. PICK r : r = pending'
      OBVIOUS
    <3>4. Single(q) /\ q[c] \in Seq(Message)
      BY <1>1, <3>1 DEF OnePlace
    <3>5. \A d \in Chan : \A n : Among(q[d], n) => n.payload # m.payload
      BY <1>2, <3>1
    <3>6. r = [q EXCEPT ![c] = s]
      BY <3>2, <3>3
    <3>7. /\ Single(r)
          /\ \A d \in Chan : \A n : Among(r[d], n) =>
                  Among(q[d], n) \/ (d = c /\ n = m)
      BY <1>3, <3>2, <3>4, <3>5, <3>6
    <3> QED
      BY <2>2, <3>1, <3>3, <3>7 DEF OnePlace
  <2> QED
    BY <2>1, <2>2
<1>5. Disjoint(channels', pending')
  BY <1>2, <1>4 DEF OnePlace, Disjoint
<1> QED
  BY <1>4, <1>5, WaitingAmong DEF OnePlace

\* A claim outside of a rollback is to a position of the log.
LEMMA ClaimInLog ==
    ASSUME Positioned, control.mode # "undo", NEW u \in Branch, NEW k, NEW x,
           Claim(u, k, x)
    PROVE  k <= Len(history)
<1>1. ~Walking(u) /\ DOMAIN history = 1 .. Len(history)
      /\ Len(history) \in Nat
  BY Positions DEF Walking, Positioned, TypeInv
<1>2. \A P : Live(u, P) => P.index <= Len(history)
  BY <1>1 DEF Live, Positioned, AnchorsInside, Inside
<1> QED
  BY <1>1, <1>2 DEF Claim

\* A sent value leaves its holder, and the message can be taken back by a
\* rollback of the sender to any claim it has.
LEMMA OwnedChannelSend ==
    ASSUME Base, Owned, NEW b \in Branch, NEW v \in Var, NEW c \in Chan,
           ChannelSend(b, v, c)
    PROVE  Owned'
<1>1. PICK y \in Value : y = timeline[b].arena[v]
  BY ValidIsValue DEF ChannelSend, TypeInv, Base
<1>2. PICK m \in Message : m = [id |-> nextId, sender |-> b, payload |-> y]
  BY DEF Message, Base, TypeInv, TypeOK
<1>3. PICK e \in CausalEvent :
         /\ e = [kind |-> "send", branch |-> b, chan |-> c, id |-> nextId]
         /\ history' = Append(history, e)
  BY DEF CausalEvent, SendEvent, Base, TypeInv, TypeOK, ChannelSend
<1> DEFINE L == Len(history)
<1>4. /\ DOMAIN history' = 1 .. L + 1 /\ L \in Nat /\ DOMAIN history = 1 .. L
      /\ \A i \in DOMAIN history : history'[i] = history[i]
      /\ history'[L + 1] = e
  BY <1>3, LogGrows, Positions DEF Base, TypeInv
<1>5. /\ control.mode # "undo" /\ control'.mode # "undo"
      /\ Bound(b, v, Consumed)
  <2>1. "ChannelFault" \in Errors
    BY DEF Errors
  <2> QED
    BY <2>1, BoundBy, RunningType DEF ChannelSend, Executes, Base
<1>6. /\ LogKept /\ \A u : ~Walking(u) /\ ~Walking(u)'
      /\ \A j \in DOMAIN history' :
           history'[j].kind = "recv" => j \in DOMAIN history
  BY <1>3, <1>4, <1>5 DEF LogKept, Walking
<1>7. \A u \in Branch : \A w \in Var : \A x \in Value :
         Held(u, w, x)' => Held(u, w, x) /\ ~(u = b /\ w = v)
  <2>1. Consumed \notin Value
    BY ConstantsAssumption DEF Value
  <2> QED
    BY <1>5, <1>6, <2>1 DEF Held, Bound
<1>8. Held(b, v, y) /\ Holds(b, y)
  BY <1>1, <1>6 DEF Held, Holds
<1>9. /\ \A u \in Branch : ~Holds(u, y)'
      /\ \A u \in Branch : \A x \in Value : Holds(u, x)' => Holds(u, x)
  BY <1>7, <1>8 DEF Owned, OneHolder, Holds
<1>10. \A d \in Chan : \A n : Waiting(d, n) => n.payload # m.payload
  BY <1>2, <1>8 DEF Owned, NoneBoth
<1>11. /\ OnePlace'
       /\ \A d \in Chan : \A n : Waiting(d, n)' =>
            Waiting(d, n) \/ (d = c /\ n = m)
  <2>1. CASE UNCHANGED <<channels, pending>>
    BY <2>1 DEF Owned, OnePlace, Waiting
  <2>2. CASE /\ channels' = [channels EXCEPT ![c] = Append(@, m)]
             /\ pending' = pending
    BY <1>10, <2>2, PushedPlace DEF Owned, Base
  <2>3. CASE /\ pending' = [pending EXCEPT ![c] = Append(@, m)]
             /\ channels' = channels
    BY <1>10, <2>3, PushedPlace DEF Owned, Base
  <2> QED
    BY <1>1, <1>2, <2>1, <2>2, <2>3 DEF ChannelSend
<1>12. \A u \in Branch : /\ \A P : Live(u, P)' <=> Live(u, P)
                         /\ \A k, x : Claim(u, k, x)' => Claim(u, k, x)
  BY <1>5, <1>6, SameClaims DEF Bound
<1>13. OneHolder'
  BY <1>7 DEF Owned, OneHolder
<1>14. NoneBoth'
  BY <1>2, <1>9, <1>11 DEF Owned, NoneBoth
<1>15. LiveOnce' /\ WalkUnsent'
  BY <1>5, <1>12 DEF Owned, LiveOnce, WalkUnsent
<1>16. ASSUME NEW t \in Branch, NEW k \in Nat, NEW x \in Value,
              Standing(t, k, x)'
       PROVE  Safe(t, k, x)'
  <2>1. \A u \in Branch : \A l \in Nat :
           Standing(u, l, x)' => Standing(u, l, x)
    BY <1>6, <1>12, StandingBefore
  <2>2. Safe(t, k, x) /\ k <= L
    BY <1>5, <1>16, <2>1, ClaimInLog DEF Owned, ClaimsSafe, Standing, Base
  <2>3. ASSUME x = y PROVE SentAfter(t, k, m.id)'
    <3>1. b = t
      BY <1>8, <2>2, <2>3 DEF Safe
    <3>2. /\ L + 1 \in DOMAIN history' /\ L + 1 > k
          /\ history'[L + 1].kind = "send"
          /\ history'[L + 1].branch = t /\ history'[L + 1].id = m.id
      BY <1>2, <1>3, <1>4, <2>2, <3>1
    <3> QED
      BY <3>2 DEF SentAfter
  <2>4. \A d \in Chan : \A n : Waiting(d, n)' /\ n.payload = x =>
           Waiting(d, n) \/ SentAfter(t, k, n.id)'
    BY <1>2, <1>11, <2>3
  <2> QED
    BY <1>6, <1>9, <2>1, <2>2, <2>4, SafeKept
<1> QED
  BY <1>11, <1>13, <1>14, <1>15, <1>16 DEF Owned, ClaimsSafe

\* A received value leaves the queues; a claim of its sender's is spoilt by the
\* receive, and its receiver is the only one to claim it from now on.
LEMMA OwnedReceive ==
    ASSUME Base, Owned, NEW b \in Branch, NEW v \in Var, NEW c \in Chan,
           ChannelReceive(b, v, c)
    PROVE  Owned'
<1>1. PICK m \in Message : m = Head(channels[c]) /\ Waiting(c, m)
  <2>1. channels[c] \in Seq(Message) /\ channels[c] # <<>>
    BY DEF ChannelReceive, Base, TypeInv, TypeOK
  <2> QED
    BY <2>1, LonePop, WaitingAmong
<1>2. PICK y \in Value : y = m.payload
  BY DEF Message
<1>3. PICK e \in CausalEvent :
         /\ e = [kind |-> "recv", branch |-> b, chan |-> c, message |-> m]
         /\ history' = Append(history, e)
  BY <1>1 DEF CausalEvent, RecvEvent, Base, TypeInv, TypeOK, ChannelReceive
<1> DEFINE L == Len(history)
<1>4. /\ DOMAIN history' = 1 .. L + 1 /\ L \in Nat /\ DOMAIN history = 1 .. L
      /\ \A i \in DOMAIN history : history'[i] = history[i]
      /\ history'[L + 1] = e
  BY <1>3, LogGrows, Positions DEF Base, TypeInv
<1>5. /\ control.mode # "undo" /\ control'.mode # "undo"
      /\ MayBind(b, v, y)
  BY <1>1, <1>2, MayBindBy, RunningType DEF ChannelReceive, Executes, Base
<1>6. LogKept /\ \A u : ~Walking(u) /\ ~Walking(u)'
  BY <1>3, <1>4, <1>5 DEF LogKept, Walking
<1>7. \A u \in Branch : \A w \in Var : \A x \in Value :
         Held(u, w, x)' => \/ Held(u, w, x) /\ x # y
                           \/ u = b /\ w = v /\ x = y
  <2>1. \A u \in Branch : \A w \in Var : ~Held(u, w, y)
    BY <1>1, <1>2 DEF Owned, NoneBoth, Holds
  <2> QED
    BY <1>5, <1>6, <2>1 DEF Held, MayBind
<1>8. /\ OnePlace'
      /\ \A d \in Chan : \A n : Waiting(d, n)' =>
           Waiting(d, n) /\ n.payload # y
  <2>1. /\ channels \in [Chan -> Seq(Message)] /\ channels[c] \in Seq(Message)
        /\ channels[c] # <<>>
        /\ channels' = [channels EXCEPT ![c] = Tail(channels[c])]
        /\ pending' = pending
    BY DEF ChannelReceive, Base, TypeInv, TypeOK
  <2>2. /\ Among(channels[c], m)
        /\ \A n : Among(Tail(channels[c]), n) => Among(channels[c], n)
        /\ Lone(channels[c]) =>
             /\ Lone(Tail(channels[c]))
             /\ \A n : Among(Tail(channels[c]), n) => n.payload # y
    BY <1>1, <1>2, <2>1, LonePop
  <2>3. Replaced(channels, c, Tail(channels[c]), channels')
    BY <2>1 DEF Replaced
  <2>4. Single(channels) /\ Lone(channels[c])
    BY DEF Owned, OnePlace, Single
  <2>5. /\ Single(channels')
        /\ \A d \in Chan : \A n :
             Among(channels'[d], n) => Among(channels[d], n)
    <3>1. PICK q, r, s : /\ q = channels /\ r = channels'
                         /\ s = Tail(channels[c])
      OBVIOUS
    <3>2. /\ Replaced(q, c, s, r) /\ Single(q) /\ (Lone(q[c]) => Lone(s))
          /\ \A n : Among(s, n) => Among(q[c], n)
      BY <2>2, <2>3, <2>4, <3>1
    <3> QED
      BY <3>1, <3>2, Thinned
  <2>6. \A d \in Chan : \A n : Among(channels'[d], n) => n.payload # y
    BY <1>2, <2>2, <2>3, <2>4 DEF Replaced, Single
  <2>7. \A d \in Chan : \A n : Among(pending[d], n) => n.payload # y
    BY <1>2, <2>2 DEF Owned, OnePlace, Disjoint
  <2>8. Disjoint(channels', pending')
    BY <2>1, <2>5 DEF Owned, OnePlace, Disjoint
  <2> QED
    BY <2>1, <2>5, <2>6, <2>7, <2>8, WaitingAmong DEF Owned, OnePlace
<1>9. \A u \in Branch : \A P : Live(u, P)' <=> Live(u, P)
  BY <1>5, <1>6 DEF Live, MayBind
<1>10. \A u \in Branch : \A k, x : Claim(u, k, x)' =>
          Claim(u, k, x) \/ (u = b /\ k = L + 1 /\ x = y)
  BY <1>2, <1>3, <1>4, <1>6, <1>9 DEF Claim
<1>11. \A u \in Branch : \A l \in Nat : \A x : Standing(u, l, x)' =>
          \/ Standing(u, l, x) /\ x # y
          \/ u = b /\ l = L + 1 /\ x = y
  <2> SUFFICES ASSUME NEW u \in Branch, NEW l \in Nat, NEW x,
                      Standing(u, l, x)', ~(u = b /\ l = L + 1 /\ x = y)
               PROVE  Standing(u, l, x) /\ x # y
    OBVIOUS
  <2>1. Claim(u, l, x)' => Claim(u, l, x)
    BY <1>10
  <2>2. Standing(u, l, x)
    BY <1>6, <2>1, StandingBefore
  <2>3. ASSUME x = y PROVE FALSE
    <3>1. SentAfter(u, l, m.id)
      BY <1>1, <1>2, <2>2, <2>3 DEF Owned, ClaimsSafe, Safe
    <3>2. Received(m.id)'
      BY <1>3, <1>4 DEF Received
    <3>3. SentAfter(u, l, m.id)'
      BY <1>6, <3>1, SpoiltForGood
    <3> QED
      BY <3>2, <3>3 DEF Standing, Spoilt
  <2> QED
    BY <2>2, <2>3
<1>12. OneHolder'
  BY <1>7 DEF Owned, OneHolder
<1>13. NoneBoth'
  BY <1>7, <1>8 DEF Owned, NoneBoth, Holds
<1>14. LiveOnce' /\ WalkUnsent'
  BY <1>5, <1>9 DEF Owned, LiveOnce, WalkUnsent
<1>15. ASSUME NEW t \in Branch, NEW k \in Nat, NEW x \in Value,
              Standing(t, k, x)'
       PROVE  Safe(t, k, x)'
  <2>1. CASE x = y
    <3>1. t = b /\ k = L + 1
      BY <1>11, <1>15, <2>1
    <3>2. \A u \in Branch : Holds(u, x)' => u = t
      BY <1>7, <2>1, <3>1 DEF Holds
    <3>3. \A d \in Chan : \A n : ~(Waiting(d, n)' /\ n.payload = x)
      BY <1>8, <2>1
    <3>4. \A j \in DOMAIN history' : ~(j > k)
      BY <1>4, <3>1
    <3>5. \A u \in Branch : \A l \in Nat : Standing(u, l, x)' => u = t
      BY <1>11, <2>1, <3>1
    <3> QED
      BY <3>2, <3>3, <3>4, <3>5 DEF Safe
  <2>2. CASE x # y
    <3>1. Safe(t, k, x)
      BY <1>11, <1>15, <2>2 DEF Owned, ClaimsSafe
    <3>2. \A u \in Branch : Holds(u, x)' => Holds(u, x)
      BY <1>7, <2>2 DEF Holds
    <3>3. \A d \in Chan : \A n : Waiting(d, n)' => Waiting(d, n)
      BY <1>8
    <3>4. \A j \in DOMAIN history' : j > k /\ history'[j].kind = "recv"
             /\ history'[j].message.payload = x => j \in DOMAIN history
      BY <1>2, <1>3, <1>4, <2>2
    <3>5. \A u \in Branch : \A l \in Nat :
             Standing(u, l, x)' => Standing(u, l, x)
      BY <1>11, <2>2
    <3> QED
      BY <1>6, <3>1, <3>2, <3>3, <3>4, <3>5, SafeKept
  <2> QED
    BY <2>1, <2>2
<1> QED
  BY <1>8, <1>12, <1>13, <1>14, <1>15 DEF Owned, ClaimsSafe

\* open_chan drops messages.
LEMMA OwnedOpen ==
    ASSUME TypeInv, Owned, NEW b \in Branch, NEW c \in Chan, ChannelOpen(b, c)
    PROVE  Owned'
<1>1. /\ UNCHANGED <<timeline, history>>
      /\ control.mode # "undo" /\ control'.mode # "undo"
  BY RunningType DEF ChannelOpen, Executes
<1>2. /\ \A d \in Chan : channels'[d] = channels[d] \/ channels'[d] = <<>>
      /\ \A d \in Chan : pending'[d] = pending[d] \/ pending'[d] = <<>>
  BY DEF ChannelOpen, TypeInv, TypeOK
<1>3. Lone(<<>>) /\ \A m : ~Among(<<>>, m)
  BY EmptyDomain DEF Lone, Among
<1>4. /\ \A d \in Chan : \A m : Among(channels'[d], m) => Among(channels[d], m)
      /\ \A d \in Chan : \A m : Among(pending'[d], m) => Among(pending[d], m)
      /\ \A d \in Chan : Lone(channels[d]) => Lone(channels'[d])
      /\ \A d \in Chan : Lone(pending[d]) => Lone(pending'[d])
  BY <1>2, <1>3
<1>5. OnePlace'
  BY <1>4 DEF Owned, OnePlace, Single, Disjoint
<1>6. \A d \in Chan : \A m : Waiting(d, m)' => Waiting(d, m)
  BY <1>4, WaitingAmong
<1>7. LogKept /\ \A u : ~Walking(u) /\ ~Walking(u)'
  BY <1>1 DEF LogKept, Walking
<1>8. \A u \in Branch : /\ \A P : Live(u, P)' => Live(u, P)
                        /\ \A k, x : Claim(u, k, x)' => Claim(u, k, x)
  BY <1>1, <1>7, SameClaims
<1>9. \A u \in Branch : \A v \in Var : \A x \in Value :
         Held(u, v, x)' => Held(u, v, x)
  BY <1>1, <1>7 DEF Held
<1>10. WalkUnsent'
  BY <1>1 DEF WalkUnsent
<1> QED
  BY <1>1, <1>5, <1>6, <1>8, <1>9, <1>10, ThinStep

\* A tick moves messages from one queue to another.
LEMMA OwnedTick ==
    ASSUME TypeInv, Owned, NEW b \in Branch, Tick(b)
    PROVE  Owned'
<1>1. /\ UNCHANGED <<timeline, history>>
      /\ control.mode # "undo" /\ control'.mode # "undo"
  BY RunningType DEF Tick, Executes
<1>2. PICK q \in [Chan -> Seq(Message)], r \in [Chan -> Seq(Message)] :
         q = channels /\ r = pending
  BY DEF TypeInv, TypeOK
<1>3. PICK s : s = channels'
  OBVIOUS
<1>4. /\ \A c \in Chan : s[c] = q[c] \o r[c]
      /\ \A c \in Chan : pending'[c] = <<>>
  BY <1>2, <1>3 DEF Tick
<1>5. Single(q) /\ Single(r) /\ Disjoint(q, r)
  BY <1>2 DEF Owned, OnePlace
<1>6. /\ Single(s)
      /\ \A d \in Chan : \A m :
           Among(s[d], m) => Among(q[d], m) \/ Among(r[d], m)
  BY <1>4, <1>5, Published
<1>7. /\ \A d \in Chan : \A m : ~Among(pending'[d], m)
      /\ \A d \in Chan : Lone(pending'[d])
  BY <1>4, EmptyDomain DEF Lone, Among
<1>8. OnePlace'
  BY <1>3, <1>6, <1>7 DEF OnePlace, Single, Disjoint
<1>9. \A d \in Chan : \A m : Waiting(d, m)' => Waiting(d, m)
  BY <1>2, <1>3, <1>6, <1>7, WaitingAmong
<1>10. LogKept /\ \A u : ~Walking(u) /\ ~Walking(u)'
  BY <1>1 DEF LogKept, Walking
<1>11. \A u \in Branch : /\ \A P : Live(u, P)' => Live(u, P)
                         /\ \A k, x : Claim(u, k, x)' => Claim(u, k, x)
  BY <1>1, <1>10, SameClaims
<1>12. \A u \in Branch : \A v \in Var : \A x \in Value :
          Held(u, v, x)' => Held(u, v, x)
  BY <1>1, <1>10 DEF Held
<1>13. WalkUnsent'
  BY <1>1 DEF WalkUnsent
<1> QED
  BY <1>1, <1>8, <1>9, <1>11, <1>12, <1>13, ThinStep

-----------------------------------------------------------------------------
(* Anchors, rewind and reset *)

\* A new anchor claims what its branch holds, so nobody else has a claim on it.
LEMMA OwnedAnchor ==
    ASSUME Base, Owned, NEW b \in Branch, NEW a \in AnchorName, SetAnchor(b, a)
    PROVE  Owned'
<1> DEFINE L == Len(history)
<1>1. PICK P0 \in AnchorPoint :
         P0 = [arena |-> timeline[b].arena, index |-> L,
               commits |-> timeline[b].commits, stale |-> FALSE]
  BY Positions DEF AnchorPoint, Base, TypeInv, TypeOK, Timeline
<1>2. /\ timeline' = [timeline EXCEPT ![b].anchors[a] = P0]
      /\ UNCHANGED <<channels, pending, history>>
      /\ control.mode # "undo" /\ control'.mode # "undo"
  BY <1>1, RunningType DEF SetAnchor, Executes, queueVars
<1>3. /\ \A u \in Branch : timeline'[u].arena = timeline[u].arena
      /\ \A u \in Branch : \A n \in AnchorName :
           \/ timeline'[u].anchors[n] = timeline[u].anchors[n]
           \/ u = b /\ timeline'[u].anchors[n] = P0
  BY <1>2 DEF Base, TypeInv, TypeOK, Timeline
<1>4. LogKept /\ \A u : ~Walking(u) /\ ~Walking(u)'
  BY <1>2 DEF LogKept, Walking
<1>5. \A u \in Branch : \A P : Live(u, P)' => Live(u, P) \/ (u = b /\ P = P0)
  BY <1>3, <1>4 DEF Live
<1>6. /\ P0.index = L /\ L \in Nat /\ DOMAIN history = 1 .. L
      /\ \A v \in Var : P0.arena[v] = timeline[b].arena[v]
  BY <1>1, Positions DEF Base, TypeInv
<1>7. \A u \in Branch : \A v \in Var : \A x : Held(u, v, x)' <=> Held(u, v, x)
  BY <1>3, <1>4 DEF Held
<1>8. \A v \in Var : Held(b, v, P0.arena[v])
  BY <1>4, <1>6 DEF Held
<1>9. \A u \in Branch : \A k, x : Claim(u, k, x)' =>
         Claim(u, k, x) \/ (u = b /\ k = L /\ Holds(b, x))
  <2> SUFFICES ASSUME NEW u \in Branch, NEW k, NEW x, Claim(u, k, x)'
               PROVE  Claim(u, k, x) \/ (u = b /\ k = L /\ Holds(b, x))
    OBVIOUS
  <2>1. CASE \E P : /\ Live(u, P)' /\ P.index = k
                    /\ \E v \in Var : P.arena[v] = x
    <3>1. PICK P : /\ Live(u, P)' /\ P.index = k
                   /\ \E v \in Var : P.arena[v] = x
      BY <2>1
    <3> QED
      BY <1>5, <1>6, <1>8, <3>1 DEF Claim, Holds
  <2>2. CASE /\ k \in DOMAIN history'
             /\ history'[k].kind = "recv" /\ history'[k].branch = u
             /\ history'[k].message.payload = x
             /\ \E P : Live(u, P)' /\ P.index < k
    <3>1. PICK P : Live(u, P)' /\ P.index < k
      BY <2>2
    <3>2. Live(u, P)
      BY <1>2, <1>5, <1>6, <2>2, <3>1
    <3> QED
      BY <1>2, <1>4, <2>2, <3>1, <3>2 DEF Claim
  <2> QED
    BY <2>1, <2>2 DEF Claim
<1>10. \A u \in Branch : \A l \in Nat : \A x : Standing(u, l, x)' =>
          Standing(u, l, x) \/ (u = b /\ l = L /\ Holds(b, x))
  BY <1>4, <1>9, SpoiltForGood DEF Standing
<1>11. \A u \in Branch : \A x : Holds(u, x)' => Holds(u, x)
  BY <1>7 DEF Holds
<1>12. \A c \in Chan : \A m : Waiting(c, m)' => Waiting(c, m)
  BY <1>2 DEF Waiting
<1>13. OneHolder'
  BY <1>7 DEF Owned, OneHolder
<1>14. NoneBoth'
  BY <1>11, <1>12 DEF Owned, NoneBoth
<1>15. OnePlace' /\ WalkUnsent'
  BY <1>2 DEF Owned, OnePlace, WalkUnsent
<1>16. LiveOnce'
  BY <1>5, <1>8 DEF Owned, LiveOnce, OneHolder
<1>17. ASSUME NEW t \in Branch, NEW k \in Nat, NEW x \in Value,
              Standing(t, k, x)'
       PROVE  Safe(t, k, x)'
  <2>1. CASE Standing(t, k, x)
    <3>1. Safe(t, k, x)
      BY <2>1 DEF Owned, ClaimsSafe
    <3>2. \A u \in Branch : \A l \in Nat :
             Standing(u, l, x)' => Standing(u, l, x) \/ u = t
      BY <1>10, <3>1 DEF Safe
    <3> QED
      BY <1>2, <1>4, <1>11, <1>12, <3>1, <3>2, SafeKept
  <2>2. CASE t = b /\ k = L /\ Holds(b, x)
    <3>1. \A u \in Branch : Holds(u, x)' => u = t
      BY <1>11, <2>2 DEF Owned, OneHolder, Holds
    <3>2. \A c \in Chan : \A m : ~(Waiting(c, m)' /\ m.payload = x)
      BY <1>12, <2>2 DEF Owned, NoneBoth
    <3>3. \A j \in DOMAIN history' : ~(j > k)
      BY <1>2, <1>6, <2>2
    <3>4. \A u \in Branch : \A l \in Nat : Standing(u, l, x)' => u = t
      BY <1>10, <2>2 DEF Owned, ClaimsSafe, Safe
    <3> QED
      BY <3>1, <3>2, <3>3, <3>4 DEF Safe
  <2> QED
    BY <1>10, <1>17, <2>1, <2>2
<1> QED
  BY <1>13, <1>14, <1>15, <1>16, <1>17 DEF Owned, ClaimsSafe

\* A rollback to a fresh anchor of t takes the arena and the other anchors of t
\* out of account.
LEMMA WalkStarts ==
    ASSUME TypeInv, Owned, NEW t \in Branch, NEW a \in AnchorName,
           NEW r, control.mode # "undo",
           timeline[t].anchors[a] # NoAnchor, ~timeline[t].anchors[a].stale,
           control' = Undoing(t, timeline[t].anchors[a].index, r),
           r.anchor = timeline[t].anchors[a],
           UNCHANGED <<timeline, channels, pending, history>>
    PROVE  Owned'
<1>1. /\ control'.mode = "undo" /\ control'.branch = t
      /\ control'.at = Len(history)
      /\ control'.resume.anchor = timeline[t].anchors[a]
  BY DEF Undoing
<1>2. DOMAIN history = 1 .. Len(history) /\ Len(history) \in Nat
  BY Positions DEF TypeInv
<1>3. /\ \A u : ~Walking(u)
      /\ \A u : Walking(u)' <=> u = t
  BY <1>1 DEF Walking
<1>4. \A u \in Branch : \A P : Live(u, P)' => Live(u, P)
  <2>1. ASSUME NEW u \in Branch, NEW P, Live(u, P)', u = t
        PROVE  Live(u, P)
    BY <1>1, <1>3, <2>1 DEF Live
  <2>2. ASSUME NEW u \in Branch, NEW P, Live(u, P)', u # t
        PROVE  Live(u, P)
    BY <1>3, <2>2 DEF Live
  <2> QED
    BY <2>1, <2>2
<1>5. \A u \in Branch : \A k, x : Claim(u, k, x)' => Claim(u, k, x)
  BY <1>3, <1>4, ClaimsShrink
<1>6. \A u \in Branch : \A v \in Var : \A x \in Value :
         Held(u, v, x)' => Held(u, v, x)
  BY <1>3 DEF Held
<1>7. WalkUnsent'
  BY <1>1, <1>2 DEF WalkUnsent
<1>8. OnePlace' /\ \A c \in Chan : \A m : Waiting(c, m)' => Waiting(c, m)
  BY DEF Owned, OnePlace, Waiting
<1> QED
  BY <1>4, <1>5, <1>6, <1>7, <1>8, ThinStep

\* rewind_to and reset, whether they find the anchor or not.
LEMMA OwnedRewind ==
    ASSUME OneShot, TypeInv, Owned, NEW b \in Branch, NEW a \in AnchorName,
           Rewind(b, a) \/ \E t \in Branch : AcausalReset(b, t, a)
    PROVE  Owned'
<1>1. /\ UNCHANGED <<timeline, channels, pending, history>>
      /\ control.mode # "undo"
  BY RunningType DEF Rewind, AcausalReset, Executes, queueVars
<1>2. CASE control'.mode # "undo"
  BY <1>1, <1>2, CalmStep
<1>3. \A e \in Errors : Raising(e).mode # "undo"
  BY RunningType
<1>4. ASSUME NEW t \in Branch, NEW r,
             r.anchor = timeline[t].anchors[a],
             Usable(timeline[t].anchors[a]),
             control' = Undoing(t, timeline[t].anchors[a].index, r)
      PROVE  Owned'
  BY <1>1, <1>4, WalkStarts DEF Usable
<1>5. CASE Rewind(b, a)
  <2>1. PICK r : r = [kind |-> "rewind", anchor |-> timeline[b].anchors[a]]
    OBVIOUS
  <2>2. \/ control'.mode # "undo"
        \/ /\ Usable(timeline[b].anchors[a])
           /\ control' = Undoing(b, timeline[b].anchors[a].index, r)
    BY <1>3, <1>5, <2>1 DEF Rewind, Errors
  <2> QED
    BY <1>2, <1>4, <2>1, <2>2
<1>6. ASSUME NEW t \in Branch, AcausalReset(b, t, a)
      PROVE  Owned'
  <2>1. PICK r : r = [kind |-> "reset", anchor |-> timeline[t].anchors[a]]
    OBVIOUS
  <2>2. \/ control'.mode # "undo"
        \/ /\ Usable(timeline[t].anchors[a])
           /\ control' = Undoing(t, timeline[t].anchors[a].index, r)
    BY <1>3, <1>6, <2>1 DEF AcausalReset, Errors
  <2> QED
    BY <1>2, <1>4, <2>1, <2>2
<1> QED
  BY <1>5, <1>6

\* A statement keeps ownership.
LEMMA OwnedStatement ==
    ASSUME OneShot, "send" \notin Stmts, "speculate" \notin Stmts,
           Base, Known, Owned, NEW b \in Branch, Statement(b)
    PROVE  Owned'
<1>1. CASE Slice(b) \/ CommitBegin(b)
  <2>1. /\ control.mode # "undo" /\ control'.mode # "undo"
        /\ UNCHANGED <<channels, pending, history>>
    BY <1>1, RunningType DEF Slice, CommitBegin, Executes, queueVars
  <2>2. \A u \in Branch : /\ timeline'[u].arena = timeline[u].arena
                          /\ timeline'[u].anchors = timeline[u].anchors
    <3>1. CASE Slice(b)
      <4>1. timeline \in [Branch -> Timeline]
        BY DEF Base, TypeInv, TypeOK
      <4> QED
        BY <3>1, <4>1 DEF Slice, Timeline
    <3>2. CASE CommitBegin(b)
      BY <3>2 DEF CommitBegin
    <3> QED
      BY <1>1, <3>1, <3>2
  <2> QED
    BY <2>1, <2>2, CalmStep
<1>2. \A v \in Var : \A t \in Branch \union {NoBranch} : ~Send(b, v, t)
  BY DEF Send, Executes
<1>3. ~SpeculateBegin(b)
  BY DEF SpeculateBegin, Executes
<1>4. TypeInv
  BY DEF Base
<1> QED
  BY <1>1, <1>2, <1>3, <1>4, OwnedAssign, OwnedMoveLocal, OwnedChannelSend,
     OwnedReceive, OwnedOpen, OwnedTick, OwnedAnchor, OwnedRewind
     DEF Statement

-----------------------------------------------------------------------------
(* The walk of a rollback *)

\* One step of the walk leaves owners and anchors alone and makes no claim.
LEMMA WalkOn ==
    ASSUME TypeInv, Undo, NextEvent, timeline' = timeline, history' = history
    PROVE  /\ \A u : Walking(u)' <=> Walking(u)
           /\ \A u, v, x : Held(u, v, x)' <=> Held(u, v, x)
           /\ \A u, P : Live(u, P)' <=> Live(u, P)
           /\ \A u \in Branch : \A k, x : Claim(u, k, x)' => Claim(u, k, x)
<1>1. /\ control'.at = control.at - 1 /\ control.at \in Nat
      /\ control'.branch = control.branch
      /\ control'.resume = control.resume
      /\ control'.mode = "undo" /\ control.mode = "undo"
      /\ DOMAIN history = 1 .. Len(history) /\ Len(history) \in Nat
  BY WalkStep, Positions DEF Undo, TypeInv
<1>2. \A u : Walking(u)' <=> Walking(u)
  BY <1>1 DEF Walking
<1>3. \A u, v, x : Held(u, v, x)' <=> Held(u, v, x)
  BY <1>2 DEF Held
<1>4. \A u, P : Live(u, P)' <=> Live(u, P)
  BY <1>1, <1>2 DEF Live
<1>5. \A k \in DOMAIN history : k <= control'.at => k <= control.at
  BY <1>1
<1>6. \A u \in Branch : \A k, x : Claim(u, k, x)' => Claim(u, k, x)
  BY <1>2, <1>4, <1>5, ClaimsShrink
<1> QED
  BY <1>2, <1>3, <1>4, <1>6

\* The send at the cursor is taken back before the walk passes it.
LEMMA WalkUnsentOn ==
    ASSUME TypeInv, WalkUnsent, Undo, NextEvent, history' = history,
           unsent \subseteq unsent',
           Event.branch = control.branch /\ Event.kind = "send"
              => Event.id \in unsent'
    PROVE  WalkUnsent'
<1>1. /\ control'.at = control.at - 1 /\ control.at \in Nat
      /\ control'.branch = control.branch /\ control.mode = "undo"
      /\ \A i \in DOMAIN history : i \in Nat
  BY WalkStep, Positions DEF Undo, TypeInv
<1>2. ASSUME NEW i \in DOMAIN history, i > control'.at,
             history[i].kind = "send", history[i].branch = control.branch
      PROVE  history[i].id \in unsent'
  <2>1. i = control.at \/ i > control.at
    BY <1>1, <1>2
  <2> QED
    BY <1>1, <1>2, <2>1 DEF WalkUnsent, Event
<1> QED
  BY <1>1, <1>2 DEF WalkUnsent

\* Events of other branches are passed over.
LEMMA OwnedUndoOther ==
    ASSUME TypeInv, Owned, UndoOther
    PROVE  Owned'
<1>1. /\ Undo /\ NextEvent /\ Event.branch # control.branch
      /\ UNCHANGED <<timeline, channels, pending, history, unsent>>
  BY DEF UndoOther, queueVars, ghostVars
<1>2. WalkUnsent'
  BY <1>1, WalkUnsentOn DEF Owned
<1>3. OnePlace' /\ \A c \in Chan : \A m : Waiting(c, m)' => Waiting(c, m)
  BY <1>1 DEF Owned, OnePlace, Waiting
<1> QED
  BY <1>1, <1>2, <1>3, WalkOn, ThinStep

\* A message taken back leaves its queue.
LEMMA OwnedUndoSend ==
    ASSUME TypeInv, Owned, UndoSend, ~faulted'
    PROVE  Owned'
<1>1. /\ Undo /\ NextEvent /\ Event.kind = "send"
      /\ unsent' = unsent \union {Event.id}
      /\ UNCHANGED <<timeline, history>>
      /\ \/ /\ pending' = pending
            /\ \E p \in DOMAIN channels[Event.chan] :
                 channels' = [channels EXCEPT ![Event.chan] =
                                RemoveAt(channels[Event.chan], p)]
         \/ /\ channels' = channels
            /\ \E p \in DOMAIN pending[Event.chan] :
                 pending' = [pending EXCEPT ![Event.chan] =
                               RemoveAt(pending[Event.chan], p)]
  BY DEF UndoSend, RollbackFails
<1>2. PICK c \in Chan : c = Event.chan
  BY <1>1, UndoType, EventType DEF SendEvent
<1>3. WalkUnsent'
  BY <1>1, WalkUnsentOn DEF Owned
<1>4. ASSUME NEW q \in [Chan -> Seq(Message)], NEW p \in DOMAIN q[c], NEW r,
             NEW s, s = RemoveAt(q[c], p), r = [q EXCEPT ![c] = s], Single(q)
      PROVE  /\ Single(r)
             /\ \A d \in Chan : \A m : Among(r[d], m) => Among(q[d], m)
  <2>1. Replaced(q, c, s, r)
    BY <1>4, ReplacedBy
  <2>2. q[c] \in Seq(Message)
    OBVIOUS
  <2>3. (Lone(q[c]) => Lone(s)) /\ \A m : Among(s, m) => Among(q[c], m)
    BY <1>4, <2>2, LoneRemove
  <2> QED
    BY <1>4, <2>1, <2>3, Thinned
<1>5. /\ Single(channels') /\ Single(pending')
      /\ \A d \in Chan : \A m : Among(channels'[d], m) => Among(channels[d], m)
      /\ \A d \in Chan : \A m : Among(pending'[d], m) => Among(pending[d], m)
  <2>1. /\ channels \in [Chan -> Seq(Message)] /\ Single(channels)
        /\ pending \in [Chan -> Seq(Message)] /\ Single(pending)
    BY DEF TypeInv, TypeOK, Owned, OnePlace
  <2>2. ASSUME NEW p \in DOMAIN channels[c], pending' = pending,
               channels' = [channels EXCEPT ![c] = RemoveAt(channels[c], p)]
        PROVE  /\ Single(channels')
               /\ \A d \in Chan : \A m :
                    Among(channels'[d], m) => Among(channels[d], m)
    <3>1. PICK q \in [Chan -> Seq(Message)] : q = channels
      BY <2>1
    <3>2. PICK s : s = RemoveAt(q[c], p)
      OBVIOUS
    <3>3. PICK r : r = channels'
      OBVIOUS
    <3>4. p \in DOMAIN q[c] /\ r = [q EXCEPT ![c] = s] /\ Single(q)
      BY <2>1, <2>2, <3>1, <3>2, <3>3
    <3> QED
      BY <1>4, <3>1, <3>2, <3>3, <3>4
  <2>3. ASSUME NEW p \in DOMAIN pending[c], channels' = channels,
               pending' = [pending EXCEPT ![c] = RemoveAt(pending[c], p)]
        PROVE  /\ Single(pending')
               /\ \A d \in Chan : \A m :
                    Among(pending'[d], m) => Among(pending[d], m)
    <3>1. PICK q \in [Chan -> Seq(Message)] : q = pending
      BY <2>1
    <3>2. PICK s : s = RemoveAt(q[c], p)
      OBVIOUS
    <3>3. PICK r : r = pending'
      OBVIOUS
    <3>4. p \in DOMAIN q[c] /\ r = [q EXCEPT ![c] = s] /\ Single(q)
      BY <2>1, <2>3, <3>1, <3>2, <3>3
    <3> QED
      BY <1>4, <3>1, <3>2, <3>3, <3>4
  <2> QED
    BY <1>1, <1>2, <2>1, <2>2, <2>3
<1>6. OnePlace' /\ \A d \in Chan : \A m : Waiting(d, m)' => Waiting(d, m)
  BY <1>5, WaitingAmong DEF Owned, OnePlace, Disjoint
<1> QED
  BY <1>1, <1>3, <1>6, WalkOn, ThinStep

\* What the walk has passed was sent in vain, so it spoils no claim of the
\* branch that walks.
LEMMA PassedSends ==
    ASSUME Traced, WalkUnsent, control.mode = "undo", NEW k \in Nat,
           TypeInv, k >= control.at
    PROVE  /\ ~Spoilt(control.branch, k)
           /\ \A c \in Chan : \A m :
                Waiting(c, m) => ~SentAfter(control.branch, k, m.id)
<1>1. control.at \in Nat /\ \A i \in DOMAIN history : i \in Nat
  BY RunningType, Positions DEF TypeInv, TypeOK, Control
<1>2. \A id : SentAfter(control.branch, k, id) => id \in unsent
  BY <1>1 DEF SentAfter, WalkUnsent
<1>3. \A id \in unsent : ~Received(id) /\ \A c \in Chan : ~Queued(c, id)
  BY DEF Traced, UnsentGone, UnsentNeverSurfaces
<1> QED
  BY <1>2, <1>3, QueuedWaiting DEF Spoilt

\* The walk of a rewind or a reset goes down to its anchor.
LEMMA WalkAnchor ==
    ASSUME Base, control.mode = "undo"
    PROVE  /\ control.branch \in Branch /\ Walking(control.branch)
           /\ Live(control.branch, control.resume.anchor)
           /\ control.resume.anchor.index = control.start
           /\ control.start \in Nat /\ control.at \in Nat
<1>1. control \in [mode : {"undo"}, branch : Branch, at : Nat, start : Nat,
                   resume : Resume]
  BY DEF Base, TypeInv, TypeOK, Control, Running
<1>2. control.resume.kind # "abort"
  BY DEF Base, NoSpeculation
<1> QED
  BY <1>1, <1>2 DEF Walking, Live, Base, UndoneSoFar

\* A message that goes back to its queue is claimed by its receiver alone, which
\* has given up its arena, and by nobody afterwards.
LEMMA OwnedUndoRecv ==
    ASSUME Base, Owned, UndoRecv
    PROVE  Owned'
<1>0. PICK t \in Branch, at \in Nat : t = control.branch /\ at = control.at
  BY WalkAnchor DEF UndoRecv, Undo
<1>1. /\ Undo /\ NextEvent /\ Event.kind = "recv" /\ Event.branch = t
      /\ UNCHANGED <<timeline, pending, history, unsent>>
      /\ channels' = [channels EXCEPT ![Event.chan] = <<Event.message>> \o @]
      /\ control.mode = "undo" /\ control.start < at
  BY <1>0 DEF UndoRecv, Undo, ghostVars
<1>2. PICK c \in Chan, m \in Message : c = Event.chan /\ m = Event.message
  BY <1>1, UndoType, EventType DEF RecvEvent, Base
<1>3. PICK y \in Value : y = m.payload
  BY DEF Message
<1>4. /\ Walking(t) /\ Live(t, control.resume.anchor)
      /\ control.resume.anchor.index = control.start
      /\ control.start \in Nat
  BY <1>0, <1>1, WalkAnchor
<1>5. /\ at \in DOMAIN history /\ history[at].kind = "recv"
      /\ history[at].branch = t /\ history[at].message.payload = y
      /\ DOMAIN history = 1 .. Len(history) /\ Len(history) \in Nat
  BY <1>0, <1>1, <1>2, <1>3, UndoType, Positions DEF Base, TypeInv, Event
<1>6. Claim(t, at, y)
  BY <1>0, <1>1, <1>4, <1>5 DEF Claim
<1>7. /\ ~Spoilt(t, at)
      /\ \A d \in Chan : \A n : Waiting(d, n) => ~SentAfter(t, at, n.id)
  BY <1>0, <1>1, PassedSends DEF Base, Owned
<1>8. Safe(t, at, y)
  BY <1>6, <1>7 DEF Owned, ClaimsSafe, Standing
<1>9. /\ \A d \in Chan : \A n : Waiting(d, n) => n.payload # y
      /\ \A u \in Branch : ~Holds(u, y)
  BY <1>4, <1>7, <1>8 DEF Safe, Holds, Held
<1>10. /\ OnePlace'
       /\ \A d \in Chan : \A n : Waiting(d, n)' =>
            Waiting(d, n) \/ (d = c /\ n = m)
  <2>1. channels' = [channels EXCEPT ![c] = <<m>> \o @]
    BY <1>1, <1>2
  <2>2. \A d \in Chan : \A n : Waiting(d, n) => n.payload # m.payload
    BY <1>3, <1>9
  <2>3. TypeInv /\ OnePlace /\ pending' = pending
    BY <1>1 DEF Base, Owned
  <2> QED
    BY <2>1, <2>2, <2>3, PushedPlace
<1>11. /\ \A u, v, x : Held(u, v, x)' <=> Held(u, v, x)
       /\ \A u, P : Live(u, P)' <=> Live(u, P)
       /\ \A u \in Branch : \A k, x : Claim(u, k, x)' => Claim(u, k, x)
       /\ Walking(t)'
  BY <1>1, <1>4, WalkOn DEF Base
<1>12. LogKept
  BY <1>1 DEF LogKept
<1>13. \A u \in Branch : \A l \in Nat : \A x :
          Standing(u, l, x)' => Standing(u, l, x)
  BY <1>11, <1>12, StandingBefore
<1>14. \A l \in Nat : Claim(t, l, y)' => l < at
  <2>1. control'.at = at - 1
    BY <1>0, <1>1, WalkStep DEF Base
  <2>2. \A P : Live(t, P)' => P.index = control.start
    BY <1>4, <1>11 DEF Live
  <2>3. control.start < at
    BY <1>1
  <2> QED
    BY <1>4, <1>11, <2>1, <2>2, <2>3 DEF Claim
<1>15. \A u \in Branch : \A l \in Nat : ~Standing(u, l, y)'
  <2> SUFFICES ASSUME NEW u \in Branch, NEW l \in Nat, Standing(u, l, y)'
               PROVE  FALSE
    OBVIOUS
  <2>1. Standing(u, l, y)
    BY <1>13
  <2>2. u = t
    BY <1>8, <2>1 DEF Safe
  <2>3. l < at
    BY <1>14, <2>2 DEF Standing
  <2>4. Safe(u, l, y)
    BY <2>1 DEF Owned, ClaimsSafe
  <2> QED
    BY <1>5, <2>3, <2>4 DEF Safe
<1>16. \A u \in Branch : \A x : Holds(u, x)' => Holds(u, x)
  BY <1>11 DEF Holds
<1>17. OneHolder' /\ LiveOnce'
  BY <1>11 DEF Owned, OneHolder, LiveOnce
<1>18. NoneBoth'
  BY <1>3, <1>9, <1>10, <1>16 DEF Owned, NoneBoth
<1>19. WalkUnsent'
  BY <1>1, WalkUnsentOn DEF Owned, Base
<1>20. ASSUME NEW u \in Branch, NEW k \in Nat, NEW x \in Value,
              Standing(u, k, x)'
       PROVE  Safe(u, k, x)'
  <2>1. x # y /\ Safe(u, k, x)
    BY <1>13, <1>15, <1>20 DEF Owned, ClaimsSafe
  <2>2. \A d \in Chan : \A n :
           Waiting(d, n)' /\ n.payload = x => Waiting(d, n)
    BY <1>3, <1>10, <2>1
  <2> QED
    BY <1>1, <1>12, <1>13, <1>16, <2>1, <2>2, SafeKept
<1> QED
  BY <1>10, <1>17, <1>18, <1>19, <1>20 DEF Owned, ClaimsSafe

\* What a completed rewind or reset makes of the timelines: the branch has the
\* arena of its anchor and no anchor to return to any more.
LEMMA BranchRestored ==
    ASSUME OneShot, Base, FinishRewind \/ FinishReset
    PROVE  /\ \A v \in Var : timeline'[control.branch].arena[v]
                               = control.resume.anchor.arena[v]
           /\ \A a \in AnchorName :
                \/ timeline'[control.branch].anchors[a] = NoAnchor
                \/ /\ timeline'[control.branch].anchors[a].stale
                   /\ timeline[control.branch].anchors[a] # NoAnchor
                   /\ timeline'[control.branch].anchors[a].arena
                        = timeline[control.branch].anchors[a].arena
           /\ \A u \in Branch \ {control.branch} : timeline'[u] = timeline[u]
           /\ UNCHANGED <<channels, pending, history, unsent>>
           /\ control.mode = "undo" /\ control'.mode # "undo"
           /\ control.at <= control.start
<1>1. PICK t \in Branch, p \in AnchorPoint :
        t = control.branch /\ p = control.resume.anchor
  BY UndoneType, AnchorResume DEF FinishRewind, FinishReset, Base
<1>2. timeline \in [Branch -> Timeline] /\ timeline[t] \in Timeline
  BY DEF Base, TypeInv, TypeOK
<1>3. PICK tl \in Timeline : tl = Restored(t, p)
  BY RestoredType DEF Base
<1>4. /\ tl.arena = p.arena
      /\ \A a \in AnchorName :
           \/ tl.anchors[a] = NoAnchor
           \/ /\ tl.anchors[a].stale
              /\ timeline[t].anchors[a] # NoAnchor
              /\ tl.anchors[a].arena = timeline[t].anchors[a].arena
  <2> DEFINE old == timeline[t].anchors
             new == [a \in AnchorName |->
                       IF old[a] = NoAnchor THEN NoAnchor
                       ELSE [old[a] EXCEPT !.stale = OneShot]]
  <2>1. tl.arena = p.arena /\ tl.anchors = new
    BY <1>2, <1>3 DEF Restored, Timeline
  <2>2. \A a \in AnchorName :
           \/ new[a] = NoAnchor
           \/ new[a].stale /\ old[a] # NoAnchor /\ new[a].arena = old[a].arena
    <3> SUFFICES ASSUME NEW a \in AnchorName, old[a] # NoAnchor
                 PROVE  new[a].stale /\ new[a].arena = old[a].arena
      OBVIOUS
    <3>1. new[a] = [old[a] EXCEPT !.stale = OneShot]
      OBVIOUS
    <3>2. old[a] \in AnchorPoint
      BY AnchorType DEF Base
    <3> HIDE DEF old, new
    <3> QED
      BY <3>1, <3>2 DEF AnchorPoint
  <2> QED
    BY <2>1, <2>2
<1>5. \/ timeline' = [timeline EXCEPT ![t] = tl]
      \/ timeline' = [timeline EXCEPT ![t] = [tl EXCEPT !.horizon = FALSE]]
  BY <1>1, <1>3 DEF FinishRewind, FinishReset
<1>6. /\ timeline'[t].arena = tl.arena /\ timeline'[t].anchors = tl.anchors
      /\ \A u \in Branch \ {t} : timeline'[u] = timeline[u]
  BY <1>2, <1>5 DEF Timeline
<1>7. /\ UNCHANGED <<channels, pending, history, unsent>>
      /\ control.mode = "undo" /\ control'.mode # "undo"
      /\ control.at <= control.start
  BY RunningType DEF FinishRewind, FinishReset, Undone, queueVars, ghostVars
<1> QED
  BY <1>1, <1>4, <1>6, <1>7

\* A completed rewind or reset gives its branch what only it could claim.
LEMMA OwnedFinish ==
    ASSUME OneShot, Base, Owned, FinishRewind \/ FinishReset
    PROVE  Owned'
<1>1. PICK t, p, s : /\ t = control.branch /\ p = control.resume.anchor
                     /\ s = control.start
  OBVIOUS
<1>2. /\ \A v \in Var : timeline'[t].arena[v] = p.arena[v]
      /\ \A a \in AnchorName : \/ timeline'[t].anchors[a] = NoAnchor
                               \/ timeline'[t].anchors[a].stale
      /\ \A u \in Branch \ {t} : timeline'[u] = timeline[u]
      /\ UNCHANGED <<channels, pending, history, unsent>>
      /\ control.mode = "undo" /\ control'.mode # "undo"
      /\ control.at <= s
  BY <1>1, BranchRestored
<1>3. /\ t \in Branch /\ s \in Nat /\ Walking(t)
      /\ Live(t, p) /\ p.index = s
  BY <1>1, <1>2, WalkAnchor
<1>4. /\ \A u : Walking(u) <=> u = t
      /\ \A u : ~Walking(u)'
  BY <1>1, <1>2 DEF Walking
<1>5. /\ \A P : ~Live(t, P)'
      /\ \A u \in Branch : \A P : Live(u, P)' => Live(u, P) /\ u # t
  BY <1>2, <1>3, <1>4 DEF Live
<1>6. \A u \in Branch : \A k, x : Claim(u, k, x)' => Claim(u, k, x)
  BY <1>2, <1>4, <1>5, ClaimsShrink
<1>7. \A k, x : ~Claim(t, k, x)'
  BY <1>5 DEF Claim
<1>8. ASSUME NEW x \in Value, NEW v \in Var, p.arena[v] = x
      PROVE  /\ \A u \in Branch : ~Holds(u, x)
             /\ \A c \in Chan : \A m : Waiting(c, m) => m.payload # x
             /\ \A u \in Branch : \A l \in Nat : Standing(u, l, x) => u = t
  <2>1. Claim(t, s, x)
    BY <1>3, <1>8 DEF Claim
  <2>2. /\ ~Spoilt(t, s)
        /\ \A c \in Chan : \A m : Waiting(c, m) => ~SentAfter(t, s, m.id)
    <3>1. control.at \in Nat /\ s >= control.at
      BY <1>1, <1>2, <1>3, WalkAnchor
    <3> QED
      BY <1>1, <1>2, <1>3, <3>1, PassedSends DEF Base, Owned
  <2>3. Safe(t, s, x)
    BY <1>3, <2>1, <2>2 DEF Owned, ClaimsSafe, Standing
  <2> QED
    BY <1>4, <2>2, <2>3 DEF Safe, Holds, Held
<1>9. \A u \in Branch : \A v \in Var : \A x : Held(u, v, x)' =>
         \/ u = t /\ p.arena[v] = x
         \/ u # t /\ Held(u, v, x)
  BY <1>2, <1>4 DEF Held
<1>10. \A c \in Chan : \A m : Waiting(c, m)' => Waiting(c, m)
  BY <1>2 DEF Waiting
<1>11. OneHolder'
  <2> SUFFICES ASSUME NEW u \in Branch, NEW w \in Branch, NEW i \in Var,
                      NEW j \in Var, NEW x \in Value,
                      Held(u, i, x)', Held(w, j, x)'
               PROVE  u = w /\ i = j
    BY DEF OneHolder
  <2>1. CASE u = t /\ w = t
    BY <1>3, <1>9, <2>1 DEF Owned, LiveOnce
  <2>2. CASE u # t /\ w # t
    BY <1>9, <2>2 DEF Owned, OneHolder
  <2>3. CASE u # t /\ w = t
    BY <1>8, <1>9, <2>3 DEF Holds
  <2>4. CASE u = t /\ w # t
    BY <1>8, <1>9, <2>4 DEF Holds
  <2> QED
    BY <2>1, <2>2, <2>3, <2>4
<1>12. NoneBoth'
  <2> SUFFICES ASSUME NEW u \in Branch, NEW x \in Value, Holds(u, x)',
                      NEW c \in Chan, NEW m, Waiting(c, m)'
               PROVE  m.payload # x
    BY DEF NoneBoth
  <2>1. Waiting(c, m)
    BY <1>10
  <2>2. (\E v \in Var : p.arena[v] = x) \/ Holds(u, x)
    BY <1>9 DEF Holds
  <2> QED
    BY <1>8, <2>1, <2>2 DEF Owned, NoneBoth
<1>13. LiveOnce'
  BY <1>5 DEF Owned, LiveOnce
<1>14. OnePlace' /\ WalkUnsent'
  BY <1>2 DEF Owned, OnePlace, WalkUnsent
<1>15. ASSUME NEW u \in Branch, NEW k \in Nat, NEW x \in Value,
              Standing(u, k, x)'
       PROVE  Safe(u, k, x)'
  <2>1. LogKept
    BY <1>2 DEF LogKept
  <2>2. \A w \in Branch : \A l \in Nat :
           Standing(w, l, x)' => Standing(w, l, x)
    BY <1>6, <2>1, StandingBefore
  <2>3. Safe(u, k, x) /\ u # t
    BY <1>7, <1>15, <2>2 DEF Owned, ClaimsSafe, Standing
  <2>4. \A w \in Branch : Holds(w, x)' => Holds(w, x)
    <3>1. \A v \in Var : p.arena[v] # x
      BY <1>8, <1>15, <2>2, <2>3
    <3> QED
      BY <1>9, <3>1 DEF Holds
  <2> QED
    BY <1>2, <1>10, <2>1, <2>2, <2>3, <2>4, SafeKept
<1> QED
  BY <1>11, <1>12, <1>13, <1>14, <1>15 DEF Owned, ClaimsSafe

\* Every step of a rollback that does not fail keeps ownership.
LEMMA OwnedRollback ==
    ASSUME OneShot, Base, NoMoves, Owned, Rollback, ~faulted'
    PROVE  Owned'
<1>1. TypeInv
  BY DEF Base
<1>2. ~FinishAbort
  BY DEF FinishAbort, Undone, Base, NoSpeculation
<1>3. ~UndoMove
  <2>1. Undo => control.at \in DOMAIN history
    BY <1>1, UndoType, Positions DEF TypeInv
  <2> QED
    BY <2>1 DEF UndoMove, NoMoves, Event
<1> QED
  BY <1>1, <1>2, <1>3, OwnedUndoOther, OwnedUndoSend, OwnedUndoRecv,
     OwnedFinish DEF Rollback

-----------------------------------------------------------------------------
(* Values are created by assignments *)

\* Of the statements only an assignment adds a value.
LEMMA KnownStatement ==
    ASSUME "send" \notin Stmts, "speculate" \notin Stmts,
           Base, Known, NEW b \in Branch, Statement(b)
    PROVE  Known'
<1>1. TypeInv /\ timeline \in [Branch -> Timeline] /\ nextValue \in Nat
  BY DEF Base, TypeInv, TypeOK, Value
<1>2. ASSUME NEW v \in Var, Assign(b, v)
      PROVE  Known'
  <2>1. PICK y \in Nat : y = nextValue /\ nextValue' = y + 1
    BY <1>1, <1>2 DEF Assign
  <2>2. Bound(b, v, y)
    BY <1>1, <1>2, <2>1, BoundBy DEF Assign
  <2>3. Seen(y)' /\ \A x : Seen(x) => Seen(x)'
    BY <2>1 DEF Seen, Value
  <2>4. /\ UNCHANGED <<channels, pending, history>>
        /\ control'.mode # "undo"
    BY <1>2, RunningType DEF Assign, Executes, queueVars
  <2>5. (\A u \in Branch, w \in Var : Seen(timeline[u].arena[w]))'
    <3> SUFFICES ASSUME NEW u \in Branch, NEW w \in Var
                 PROVE  Seen(timeline[u].arena[w])'
      OBVIOUS
    <3>1. PICK z : z = timeline'[u].arena[w]
      OBVIOUS
    <3>2. z = y \/ z = timeline[u].arena[w]
      BY <2>2, <3>1 DEF Bound
    <3>3. Seen(z)'
      BY <2>3, <3>2 DEF Known
    <3> QED
      BY <3>1, <3>3 DEF Seen
  <2> QED
    BY <2>2, <2>3, <2>4, <2>5 DEF Known, Bound, Waiting
<1>3. ASSUME nextValue' = nextValue, NEW v \in Var, NEW y, Seen(y),
             MayBind(b, v, y), control'.mode # "undo",
             \A c \in Chan : \A m : Waiting(c, m)' => Seen(m.payload),
             \A j \in DOMAIN history' :
               history'[j].kind = "recv" => Seen(history'[j].message.payload)
      PROVE  Known'
  <2>1. \A x : Seen(x)' <=> Seen(x)
    BY <1>3 DEF Seen
  <2> QED
    BY <1>3, <2>1 DEF Known, MayBind
<1>4. ASSUME NEW v \in Var, NEW w \in Var, MoveLocal(b, w, v)
      PROVE  Known'
  <2>1. PICK y : y = timeline[b].arena[w] /\ Moved(b, w, v, y)
    BY <1>1, <1>4, MovedBy DEF Base
  <2>2. /\ UNCHANGED <<channels, pending, history, nextValue>>
        /\ control'.mode # "undo"
    BY <1>1, <1>4, MovedBy DEF MoveLocal, queueVars, Base
  <2>3. Seen(Consumed) /\ Seen(y)
    BY <2>1, ConstantsAssumption DEF Known, Seen, Value
  <2>4. \A x : Seen(x)' <=> Seen(x)
    BY <2>2 DEF Seen
  <2> QED
    BY <2>1, <2>2, <2>3, <2>4 DEF Known, Moved, Waiting
<1>5. ASSUME NEW v \in Var, NEW c \in Chan, ChannelSend(b, v, c)
      PROVE  Known'
  <2>1. PICK m \in Message : m = [id |-> nextId, sender |-> b,
                                  payload |-> timeline[b].arena[v]]
    BY <1>1, <1>5, ValidIsValue DEF ChannelSend, Message, TypeInv, TypeOK
  <2>2. MayBind(b, v, Consumed) /\ Seen(Consumed) /\ Seen(m.payload)
    BY <1>1, <1>5, <2>1, BoundBy, ConstantsAssumption
       DEF ChannelSend, Bound, MayBind, Known, Seen, Value
  <2>3. nextValue' = nextValue /\ control'.mode # "undo"
    <3>1. "ChannelFault" \in Errors
      BY DEF Errors
    <3> QED
      BY <1>5, <3>1, RunningType DEF ChannelSend, Executes
  <2>4. \A d \in Chan : \A n : Waiting(d, n)' => Waiting(d, n) \/ n = m
    <3>1. \A d \in Chan : /\ \/ channels'[d] = channels[d]
                             \/ channels'[d] = Append(channels[d], m)
                          /\ \/ pending'[d] = pending[d]
                             \/ pending'[d] = Append(pending[d], m)
      BY <1>1, <1>5, <2>1 DEF ChannelSend, TypeInv, TypeOK
    <3>2. ASSUME NEW d \in Chan
          PROVE  /\ \A n : Among(channels'[d], n) =>
                       Among(channels[d], n) \/ n = m
                 /\ \A n : Among(pending'[d], n) =>
                       Among(pending[d], n) \/ n = m
      <4>1. channels[d] \in Seq(Message) /\ pending[d] \in Seq(Message)
        BY <1>1 DEF TypeInv, TypeOK
      <4> QED
        BY <3>1, <4>1, LonePush
    <3> QED
      BY <3>2, WaitingAmong
  <2>5. \A j \in DOMAIN history' : history'[j].kind = "recv" =>
           j \in DOMAIN history /\ history'[j] = history[j]
    <3>1. PICK e \in CausalEvent :
            e.kind = "send" /\ history' = Append(history, e)
      BY <1>1, <1>5 DEF ChannelSend, CausalEvent, SendEvent, TypeInv, TypeOK
    <3> QED
      BY <1>1, <3>1, LogGrows, Positions DEF TypeInv
  <2>6. \A d \in Chan : \A n : Waiting(d, n)' => Seen(n.payload)
    BY <2>2, <2>4 DEF Known
  <2>7. \A j \in DOMAIN history' :
           history'[j].kind = "recv" => Seen(history'[j].message.payload)
    BY <2>5 DEF Known
  <2> QED
    BY <1>3, <2>2, <2>3, <2>6, <2>7
<1>6. ASSUME NEW v \in Var, NEW c \in Chan, ChannelReceive(b, v, c)
      PROVE  Known'
  <2>1. /\ channels[c] \in Seq(Message) /\ channels[c] # <<>>
        /\ \A d \in Chan : \/ channels'[d] = channels[d]
                           \/ d = c /\ channels'[d] = Tail(channels[c])
        /\ pending' = pending /\ nextValue' = nextValue
        /\ control = Running /\ Bind(b, v, Head(channels[c]).payload, timeline)
    BY <1>1, <1>6 DEF ChannelReceive, Executes, TypeInv, TypeOK
  <2>2. PICK m \in Message : m = Head(channels[c]) /\ Waiting(c, m)
    BY <2>1, LonePop, WaitingAmong
  <2>3. /\ MayBind(b, v, m.payload) /\ control'.mode # "undo"
        /\ Seen(m.payload)
    BY <1>1, <2>1, <2>2, MayBindBy DEF Known
  <2>4. \A d \in Chan : \A n : Waiting(d, n)' => Waiting(d, n)
    BY <2>1, LonePop, WaitingAmong
  <2>5. PICK e \in CausalEvent :
          e.message = m /\ history' = Append(history, e)
    BY <1>1, <1>6, <2>2
       DEF ChannelReceive, CausalEvent, RecvEvent, TypeInv, TypeOK
  <2>6. \A j \in DOMAIN history' : \/ history'[j].message = m
                                   \/ /\ j \in DOMAIN history
                                      /\ history'[j] = history[j]
    BY <1>1, <2>5, LogGrows, Positions DEF TypeInv
  <2>7. \A d \in Chan : \A n : Waiting(d, n)' => Seen(n.payload)
    BY <2>4 DEF Known
  <2>8. \A j \in DOMAIN history' :
           history'[j].kind = "recv" => Seen(history'[j].message.payload)
    BY <2>3, <2>6 DEF Known
  <2> QED
    BY <1>3, <2>1, <2>3, <2>7, <2>8
<1>7. CASE (\E c \in Chan : ChannelOpen(b, c)) \/ Tick(b)
  <2>1. /\ UNCHANGED <<timeline, history, nextValue>>
        /\ control'.mode # "undo"
    BY <1>7, RunningType DEF ChannelOpen, Tick, Executes
  <2>2. ASSUME NEW d \in Chan
        PROVE  /\ \A m : Among(channels'[d], m) => Waiting(d, m)
               /\ \A m : Among(pending'[d], m) => Waiting(d, m)
    <3>1. channels[d] \in Seq(Message) /\ pending[d] \in Seq(Message)
      BY <1>1 DEF TypeInv, TypeOK
    <3>2. /\ \/ channels'[d] = channels[d] \/ channels'[d] = <<>>
             \/ channels'[d] = channels[d] \o pending[d]
          /\ pending'[d] = pending[d] \/ pending'[d] = <<>>
      BY <1>1, <1>7 DEF ChannelOpen, Tick, TypeInv, TypeOK
    <3>3. \A m : ~Among(<<>>, m)
      BY EmptyDomain DEF Among
    <3>4. \A m : Among(channels[d] \o pending[d], m) => Waiting(d, m)
      BY <3>1, LoneConcat, WaitingAmong
    <3> QED
      BY <3>2, <3>3, <3>4, WaitingAmong
  <2>3. \A d \in Chan : \A m : Waiting(d, m)' => Waiting(d, m)
    BY <2>2, WaitingAmong
  <2> QED
    BY <2>1, <2>3 DEF Known, Seen
<1>8. ASSUME NEW a \in AnchorName, SetAnchor(b, a)
      PROVE  Known'
  <2>1. /\ \A u \in Branch : timeline'[u].arena = timeline[u].arena
        /\ \A u \in Branch : \A n \in AnchorName :
             \/ timeline'[u].anchors[n] = timeline[u].anchors[n]
             \/ timeline'[u].anchors[n].arena = timeline[b].arena
        /\ UNCHANGED <<channels, pending, history, nextValue>>
        /\ control'.mode # "undo"
    BY <1>1, <1>8, RunningType DEF SetAnchor, Executes, queueVars, Timeline
  <2> QED
    BY <2>1 DEF Known, Seen, Waiting
<1>9. ASSUME NEW a \in AnchorName,
             Rewind(b, a) \/ \E t \in Branch : AcausalReset(b, t, a)
      PROVE  Known'
  <2>1. UNCHANGED <<timeline, channels, pending, history, nextValue>>
    BY <1>9 DEF Rewind, AcausalReset, queueVars
  <2>2. CASE control'.mode # "undo"
    BY <2>1, <2>2 DEF Known, Seen, Waiting
  <2>3. ASSUME NEW t \in Branch, NEW r,
               r.anchor = timeline[t].anchors[a],
               timeline[t].anchors[a] # NoAnchor,
               control' = Undoing(t, timeline[t].anchors[a].index, r)
        PROVE  Known'
    <3>1. control'.resume.anchor = timeline[t].anchors[a]
      BY <2>3 DEF Undoing
    <3> QED
      BY <2>1, <2>3, <3>1 DEF Known, Seen, Waiting
  <2>4. \A e \in Errors : Raising(e).mode # "undo"
    BY RunningType
  <2>5. CASE Rewind(b, a)
    <3>1. PICK r : r = [kind |-> "rewind", anchor |-> timeline[b].anchors[a]]
      OBVIOUS
    <3>2. \/ control'.mode # "undo"
          \/ /\ timeline[b].anchors[a] # NoAnchor
             /\ control' = Undoing(b, timeline[b].anchors[a].index, r)
      BY <2>4, <2>5, <3>1 DEF Rewind, Usable, Errors
    <3> QED
      BY <2>2, <2>3, <3>1, <3>2
  <2>6. ASSUME NEW t \in Branch, AcausalReset(b, t, a)
        PROVE  Known'
    <3>1. PICK r : r = [kind |-> "reset", anchor |-> timeline[t].anchors[a]]
      OBVIOUS
    <3>2. \/ control'.mode # "undo"
          \/ /\ timeline[t].anchors[a] # NoAnchor
             /\ control' = Undoing(t, timeline[t].anchors[a].index, r)
      BY <2>4, <2>6, <3>1 DEF AcausalReset, Usable, Errors
    <3> QED
      BY <2>2, <2>3, <3>1, <3>2
  <2> QED
    BY <1>9, <2>5, <2>6
<1>10. CASE Slice(b) \/ CommitBegin(b)
  <2>1. /\ control'.mode # "undo"
        /\ UNCHANGED <<channels, pending, history, nextValue>>
    BY <1>10, RunningType DEF Slice, CommitBegin, Executes, queueVars
  <2>2. \A u \in Branch : /\ timeline'[u].arena = timeline[u].arena
                          /\ timeline'[u].anchors = timeline[u].anchors
    <3>1. CASE Slice(b)
      BY <1>1, <3>1 DEF Slice, Timeline
    <3>2. CASE CommitBegin(b)
      BY <3>2 DEF CommitBegin
    <3> QED
      BY <1>10, <3>1, <3>2
  <2> QED
    BY <2>1, <2>2 DEF Known, Seen, Waiting
<1>11. /\ \A v \in Var : \A t \in Branch \union {NoBranch} : ~Send(b, v, t)
       /\ ~SpeculateBegin(b)
  BY DEF Send, SpeculateBegin, Executes
<1> QED
  BY <1>2, <1>4, <1>5, <1>6, <1>7, <1>8, <1>9, <1>10, <1>11 DEF Statement

\* A step that takes over what is bound, anchored, waiting or logged.
LEMMA KnownFrame ==
    ASSUME Known, UNCHANGED <<history, nextValue>>,
           \A u \in Branch : \A v \in Var :
              \/ timeline'[u].arena[v] \notin Value
              \/ timeline'[u].arena[v] = timeline[u].arena[v]
              \/ /\ control.mode = "undo"
                 /\ timeline'[u].arena[v] = control.resume.anchor.arena[v],
           \A u \in Branch : \A a \in AnchorName :
              \/ timeline'[u].anchors[a] = NoAnchor
              \/ /\ timeline[u].anchors[a] # NoAnchor
                 /\ timeline'[u].anchors[a].arena
                      = timeline[u].anchors[a].arena,
           control'.mode = "undo" =>
              control.mode = "undo" /\ control'.resume = control.resume,
           \A c \in Chan : \A m : Waiting(c, m)' =>
              \/ Waiting(c, m)
              \/ \E j \in DOMAIN history : /\ history[j].kind = "recv"
                                           /\ history[j].message = m
    PROVE  Known'
<1>1. \A x : Seen(x)' <=> Seen(x)
  BY DEF Seen
<1>2. \A u \in Branch, v \in Var : Seen(timeline'[u].arena[v])
  BY DEF Known, Seen
<1>3. \A u \in Branch, a \in AnchorName : timeline'[u].anchors[a] # NoAnchor =>
         \A v \in Var : Seen(timeline'[u].anchors[a].arena[v])
  BY DEF Known
<1>4. control'.mode = "undo" =>
         \A v \in Var : Seen(control'.resume.anchor.arena[v])
  BY DEF Known
<1>5. \A c \in Chan : \A m : Waiting(c, m)' => Seen(m.payload)
  BY DEF Known
<1>6. \A j \in DOMAIN history' :
         history'[j].kind = "recv" => Seen(history'[j].message.payload)
  BY DEF Known
<1> QED
  BY <1>1, <1>2, <1>3, <1>4, <1>5, <1>6 DEF Known

\* A rollback gives back values that were there before.
LEMMA KnownRollback ==
    ASSUME OneShot, Base, NoMoves, Known, Rollback
    PROVE  Known'
<1>1. TypeInv
  BY DEF Base
<1>2. ~FinishAbort
  BY DEF FinishAbort, Undone, Base, NoSpeculation
<1>3. Undo => control.at \in DOMAIN history
  BY <1>1, UndoType, Positions DEF TypeInv
<1>4. ~UndoMove
  BY <1>3 DEF UndoMove, NoMoves, Event
<1>5. Undo /\ NextEvent =>
         control.mode = "undo" /\ control'.resume = control.resume
  BY <1>1, WalkStep DEF Undo
<1>6. CASE FinishRewind \/ FinishReset
  <2>1. /\ \A u \in Branch : \A v \in Var :
             \/ timeline'[u].arena[v] = timeline[u].arena[v]
             \/ timeline'[u].arena[v] = control.resume.anchor.arena[v]
        /\ \A u \in Branch : \A a \in AnchorName :
             \/ timeline'[u].anchors[a] = NoAnchor
             \/ /\ timeline[u].anchors[a] # NoAnchor
                /\ timeline'[u].anchors[a].arena = timeline[u].anchors[a].arena
        /\ UNCHANGED <<channels, pending, history>>
        /\ control.mode = "undo" /\ control'.mode # "undo"
    BY <1>6, BranchRestored
  <2>2. nextValue' = nextValue
    BY <1>6 DEF FinishRewind, FinishReset
  <2>3. \A c \in Chan : \A m : Waiting(c, m)' => Waiting(c, m)
    BY <2>1 DEF Waiting
  <2> QED
    BY <2>1, <2>2, <2>3, KnownFrame
<1>7. CASE UndoOther \/ UndoSend \/ UndoRecv
  <2>1. /\ UNCHANGED <<timeline, history, nextValue>>
        /\ control'.mode = "undo" =>
             control.mode = "undo" /\ control'.resume = control.resume
    <3>1. /\ "Paradox" \in Errors
          /\ \A e \in Errors : RollbackFails(e) =>
               control'.mode # "undo" /\ timeline' = timeline
      BY RunningType DEF RollbackFails, Errors
    <3> QED
      BY <1>5, <1>7, <3>1 DEF UndoOther, UndoSend, UndoRecv
  <2>2. \A c \in Chan : \A m : Waiting(c, m)' =>
              \/ Waiting(c, m)
              \/ \E j \in DOMAIN history : /\ history[j].kind = "recv"
                                           /\ history[j].message = m
    <3>1. CASE UndoOther
      BY <3>1 DEF UndoOther, queueVars, Waiting
    <3>2. CASE UndoSend
      <4>1. PICK c \in Chan : c = Event.chan
        BY <1>1, <3>2, UndoType, EventType DEF UndoSend, SendEvent
      <4>2. ASSUME NEW d \in Chan
            PROVE  /\ \/ channels'[d] = channels[d]
                      \/ \E p \in DOMAIN channels[d] :
                           channels'[d] = RemoveAt(channels[d], p)
                   /\ \/ pending'[d] = pending[d]
                      \/ \E p \in DOMAIN pending[d] :
                           pending'[d] = RemoveAt(pending[d], p)
        BY <1>1, <3>2, <4>1 DEF UndoSend, RollbackFails, TypeInv, TypeOK
      <4>3. ASSUME NEW d \in Chan
            PROVE  /\ \A n : Among(channels'[d], n) => Among(channels[d], n)
                   /\ \A n : Among(pending'[d], n) => Among(pending[d], n)
        <5>1. channels[d] \in Seq(Message) /\ pending[d] \in Seq(Message)
          BY <1>1 DEF TypeInv, TypeOK
        <5> QED
          BY <4>2, <5>1, LoneRemove
      <4> QED
        BY <4>3, WaitingAmong
    <3>3. CASE UndoRecv
      <4>1. PICK m \in Message, c \in Chan : m = Event.message /\ c = Event.chan
        BY <1>1, <3>3, UndoType, EventType DEF UndoRecv, RecvEvent
      <4>2. \A d \in Chan : /\ pending'[d] = pending[d]
                            /\ \/ channels'[d] = channels[d]
                               \/ channels'[d] = <<m>> \o channels[d]
        BY <1>1, <3>3, <4>1 DEF UndoRecv, TypeInv, TypeOK
      <4>3. ASSUME NEW d \in Chan, NEW n, Waiting(d, n)'
            PROVE  Waiting(d, n) \/ n = m
        <5>1. channels[d] \in Seq(Message)
          BY <1>1 DEF TypeInv, TypeOK
        <5>2. Among(channels'[d], n) => Among(channels[d], n) \/ n = m
          BY <4>2, <5>1, LonePushFront
        <5> QED
          BY <4>2, <4>3, <5>2, WaitingAmong
      <4>4. control.at \in DOMAIN history /\ history[control.at].kind = "recv"
            /\ history[control.at].message = m
        BY <1>3, <3>3, <4>1 DEF UndoRecv, Event
      <4> QED
        BY <4>3, <4>4
    <3> QED
      BY <1>7, <3>1, <3>2, <3>3
  <2> QED
    BY <2>1, <2>2, KnownFrame
<1> QED
  BY <1>2, <1>4, <1>6, <1>7 DEF Rollback

-----------------------------------------------------------------------------
(* The invariant *)

\* Leaving a block, a failing statement and its error create no value and take
\* anchors and consumed bindings away.
LEMMA BlockSteps ==
    ASSUME Base, CommitEnd \/ SpeculateEnd \/ Fail \/ Unwind
    PROVE  /\ UNCHANGED <<channels, pending, history, nextValue>>
           /\ control.mode # "undo" /\ control'.mode # "undo"
           /\ \A u \in Branch : \A v \in Var :
                \/ timeline'[u].arena[v] \notin Value
                \/ timeline'[u].arena[v] = timeline[u].arena[v]
           /\ \A u \in Branch : \A a \in AnchorName :
                \/ timeline'[u].anchors[a] = NoAnchor
                \/ timeline'[u].anchors[a] = timeline[u].anchors[a]
<1>1. TypeOK /\ timeline \in [Branch -> Timeline]
  BY DEF Base, TypeInv, TypeOK
<1>2. blocks # <<>> => Top.kind = "commit" /\ Top.branch \in Branch
  BY <1>1, NoSpeculateBlock, TopType DEF Base
<1>3. ~SpeculateEnd
  BY <1>2 DEF SpeculateEnd, TopBlock, Top
<1>4. CASE Fail \/ Unwind
  <2>1. UNCHANGED <<timeline, channels, pending, history, nextValue>>
    BY <1>2, <1>4 DEF Fail, Unwind, queueVars
  <2>2. control.mode # "undo" /\ control'.mode # "undo"
    <3>1. "Other" \in Errors
      BY DEF Errors
    <3> QED
      BY <1>2, <1>4, <3>1, RunningType DEF Fail, Unwind
  <2> QED
    BY <2>1, <2>2
<1>5. CASE CommitEnd
  <2>1. /\ UNCHANGED <<channels, pending, history, nextValue>>
        /\ control.mode # "undo" /\ control'.mode # "undo"
    BY <1>5, RunningType DEF CommitEnd, TopBlock, queueVars
  <2>2. PICK t \in Branch : t = Top.branch
    BY <1>2, <1>5 DEF CommitEnd, TopBlock
  <2>3. PICK old \in Timeline : old = timeline[t]
    BY <1>1
  <2>4. /\ timeline'[t].anchors = [a \in AnchorName |-> NoAnchor]
        /\ timeline'[t].arena = [v \in Var |-> IF old.arena[v] = Consumed
                                               THEN Absent ELSE old.arena[v]]
        /\ \A u \in Branch \ {t} : timeline'[u] = timeline[u]
    BY <1>1, <1>5, <2>2, <2>3 DEF CommitEnd, Timeline
  <2>5. Absent \notin Value
    BY ConstantsAssumption DEF Value
  <2> QED
    BY <2>1, <2>3, <2>4, <2>5
<1> QED
  BY <1>3, <1>4, <1>5

\* The values that exist were created, in every step.
LEMMA KnownStep ==
    ASSUME OneShot, "send" \notin Stmts, "speculate" \notin Stmts,
           Base, NoMoves, Known, [Next]_vars
    PROVE  Known'
<1>1. CASE CommitEnd \/ SpeculateEnd \/ Fail \/ Unwind
  <2>1. /\ UNCHANGED <<channels, pending, history, nextValue>>
        /\ control.mode # "undo" /\ control'.mode # "undo"
        /\ \A u \in Branch : \A v \in Var :
             \/ timeline'[u].arena[v] \notin Value
             \/ timeline'[u].arena[v] = timeline[u].arena[v]
        /\ \A u \in Branch : \A a \in AnchorName :
             \/ timeline'[u].anchors[a] = NoAnchor
             \/ timeline'[u].anchors[a] = timeline[u].anchors[a]
    BY <1>1, BlockSteps
  <2>2. \A c \in Chan : \A m : Waiting(c, m)' => Waiting(c, m)
    BY <2>1 DEF Waiting
  <2> QED
    BY <2>1, <2>2, KnownFrame
<1>2. CASE UNCHANGED vars
  BY <1>2 DEF vars, queueVars, Known, Seen, Waiting
<1> QED
  BY <1>1, <1>2, KnownStatement, KnownRollback DEF Next

\* No step of a program without send statements logs a move.
LEMMA NoMovesStep ==
    ASSUME "send" \notin Stmts, Base, NoMoves, [Next]_vars
    PROVE  NoMoves'
<1>1. TypeInv /\ DOMAIN history = 1 .. Len(history) /\ Len(history) \in Nat
  BY Positions DEF Base, TypeInv
<1>2. CASE history' = history
  BY <1>2 DEF NoMoves
<1>3. ASSUME NEW e \in CausalEvent, e.kind # "move",
             history' = Append(history, e)
      PROVE  NoMoves'
  BY <1>1, <1>3, LogGrows, Positions DEF NoMoves, TypeInv
<1>4. ASSUME NEW b \in Branch, NEW v \in Var, NEW c \in Chan,
             ChannelSend(b, v, c)
      PROVE  NoMoves'
  <2>1. PICK e \in CausalEvent :
          e.kind = "send" /\ history' = Append(history, e)
    BY <1>1, <1>4 DEF ChannelSend, CausalEvent, SendEvent, TypeInv, TypeOK
  <2> QED
    BY <1>3, <2>1
<1>5. ASSUME NEW b \in Branch, NEW v \in Var, NEW c \in Chan,
             ChannelReceive(b, v, c)
      PROVE  NoMoves'
  <2>1. Head(channels[c]) \in Message
    BY <1>1, <1>5, HeadTailProperties DEF ChannelReceive, TypeInv, TypeOK
  <2>2. PICK e \in CausalEvent :
          e.kind = "recv" /\ history' = Append(history, e)
    BY <1>5, <2>1 DEF ChannelReceive, CausalEvent, RecvEvent
  <2> QED
    BY <1>3, <2>2
<1>6. ~FinishAbort
  BY DEF FinishAbort, Undone, Base, NoSpeculation
<1>7. ASSUME NEW b \in Branch, Statement(b)
      PROVE  NoMoves'
  <2>1. \A v \in Var : \A t \in Branch \union {NoBranch} : ~Send(b, v, t)
    BY DEF Send, Executes
  <2>2. \/ history' = history
        \/ \E v \in Var, c \in Chan :
             ChannelSend(b, v, c) \/ ChannelReceive(b, v, c)
    BY <1>7, <2>1
       DEF Statement, Assign, MoveLocal, ChannelOpen, SetAnchor, Rewind,
           AcausalReset, Slice, Tick, CommitBegin, SpeculateBegin
  <2> QED
    BY <1>2, <1>4, <1>5, <2>2
<1>8. CASE CommitEnd \/ SpeculateEnd \/ Fail \/ Unwind
  BY <1>2, <1>8, BlockSteps
<1>9. CASE Rollback
  <2>1. history' = history
    BY <1>6, <1>9 DEF Rollback, UndoOther, UndoSend, UndoRecv, UndoMove,
                      FinishRewind, FinishReset
  <2> QED
    BY <1>2, <2>1
<1>10. CASE UNCHANGED vars
  BY <1>2, <1>10 DEF vars
<1> QED
  BY <1>7, <1>8, <1>9, <1>10 DEF Next

\* A rollback that has failed stays in the record.
LEMMA FaultStays ==
    ASSUME [Next]_vars, ~faulted', TypeInv
    PROVE  ~faulted
<1>1. ASSUME NEW b \in Branch, Statement(b) PROVE faulted' = faulted
  BY <1>1 DEF Statement, Assign, MoveLocal, Send, ChannelSend, ChannelReceive,
              ChannelOpen, SetAnchor, Rewind, AcausalReset, Slice, Tick,
              CommitBegin, SpeculateBegin, ghostVars
<1>2. CASE CommitEnd \/ SpeculateEnd \/ Fail \/ Unwind
  BY <1>2 DEF CommitEnd, SpeculateEnd, Fail, Unwind, Abort, ghostVars
<1>3. CASE Rollback
  BY <1>3 DEF Rollback, UndoOther, UndoSend, UndoRecv, UndoMove, RollbackFails,
              FinishRewind, FinishReset, FinishAbort, ghostVars
<1>4. CASE UNCHANGED vars
  BY <1>4 DEF vars, ghostVars
<1> QED
  BY <1>1, <1>2, <1>3, <1>4 DEF Next

\* Every step keeps ownership, unless it is a rollback that fails.
LEMMA OwnedStep ==
    ASSUME OneShot, "send" \notin Stmts, "speculate" \notin Stmts,
           Base, NoMoves, Known, Owned, [Next]_vars, ~faulted'
    PROVE  Owned'
<1>1. CASE CommitEnd \/ SpeculateEnd \/ Fail \/ Unwind
  <2>1. /\ UNCHANGED <<channels, pending, history>>
        /\ control.mode # "undo" /\ control'.mode # "undo"
        /\ \A u \in Branch : \A v \in Var : \A x \in Value :
             timeline'[u].arena[v] = x => timeline[u].arena[v] = x
        /\ \A u \in Branch : \A a \in AnchorName :
             \/ timeline'[u].anchors[a] = NoAnchor
             \/ timeline'[u].anchors[a] = timeline[u].anchors[a]
    BY <1>1, BlockSteps
  <2> QED
    BY <2>1, CalmStep
<1>2. CASE UNCHANGED vars
  BY <1>2 DEF vars, queueVars, ghostVars, Owned, OneHolder, NoneBoth, OnePlace,
     LiveOnce, ClaimsSafe, WalkUnsent, Standing, Safe, Spoilt, SentAfter, Claim,
     Live, Holds, Held, Walking, Received, Waiting
<1> QED
  BY <1>1, <1>2, OwnedStatement, OwnedRollback DEF Next

\* In the initial state nothing is bound, stored, sent or logged.
LEMMA InitOwned == Init => NoMoves /\ Known /\ Owned
<1> SUFFICES ASSUME Init PROVE NoMoves /\ Known /\ Owned
  OBVIOUS
<1>1. /\ \A t \in Branch, v \in Var : timeline[t].arena[v] \notin Value
      /\ \A t \in Branch, a \in AnchorName : timeline[t].anchors[a] = NoAnchor
  BY ConstantsAssumption DEF Init, InitTimeline, Value
<1>2. DOMAIN history = {} /\ control.mode # "undo"
  BY EmptyDomain, RunningType DEF Init
<1>3. /\ \A c \in Chan : \A m : ~Among(channels[c], m)
      /\ \A c \in Chan : \A m : ~Among(pending[c], m)
      /\ \A c \in Chan : Lone(channels[c]) /\ Lone(pending[c])
  BY EmptyDomain DEF Init, Among, Lone
<1>4. \A c \in Chan : \A m : ~Waiting(c, m)
  BY <1>3, WaitingAmong
<1>5. \A t \in Branch : \A P : ~Live(t, P)
  BY <1>1, <1>2 DEF Live, Walking
<1>6. NoMoves /\ Known
  BY <1>1, <1>2, <1>4 DEF NoMoves, Known, Seen
<1>7. \A t \in Branch : \A k, x : ~Claim(t, k, x)
  BY <1>2, <1>5 DEF Claim
<1>8. OneHolder /\ NoneBoth
  BY <1>1, <1>4 DEF OneHolder, NoneBoth, Held
<1>9. OnePlace
  BY <1>3 DEF OnePlace, Single, Disjoint
<1>10. LiveOnce /\ ClaimsSafe /\ WalkUnsent
  BY <1>2, <1>5, <1>7 DEF LiveOnce, ClaimsSafe, Standing, WalkUnsent
<1> QED
  BY <1>6, <1>8, <1>9, <1>10 DEF Owned

-----------------------------------------------------------------------------
(* Single ownership *)

\* Two sets of at most one element, one of them empty.
LEMMA AtMostOne ==
    ASSUME NEW S, NEW T, S = {} \/ T = {},
           \A a, b \in S : a = b, \A a, b \in T : a = b
    PROVE  Cardinality(S) + Cardinality(T) <= 1
<1>1. ASSUME NEW R, \A a, b \in R : a = b
      PROVE  Cardinality(R) = IF R = {} THEN 0 ELSE 1
  <2>1. CASE R = {}
    BY <2>1, FS_EmptySet
  <2>2. CASE R # {}
    <3>1. PICK a : a \in R
      BY <2>2
    <3>2. R = {a}
      BY <1>1, <3>1
    <3>3. Cardinality({a}) = 1
      BY FS_Singleton
    <3> QED
      BY <2>2, <3>2, <3>3
  <2> QED
    BY <2>1, <2>2
<1>2. /\ Cardinality(S) = IF S = {} THEN 0 ELSE 1
      /\ Cardinality(T) = IF T = {} THEN 0 ELSE 1
  BY <1>1
<1> QED
  BY <1>2

\* The places of a value in the arenas and in the queues.
LEMMA OwnedOnce ==
    ASSUME TypeInv, OneHolder, NoneBoth, OnePlace
    PROVE  OneOwner
<1> SUFFICES ASSUME control = Running, NEW x \in 1 .. nextValue - 1
             PROVE  Cardinality(InArenas(x)) + Cardinality(InQueues(x)) <= 1
  BY DEF OneOwner
<1>1. x \in Value
  BY DEF Value, TypeInv, TypeOK
<1>2. \A u : ~Walking(u)
  BY RunningType DEF Walking
<1>3. ASSUME NEW e \in InArenas(x)
      PROVE  /\ e[1] \in Branch /\ e[2] \in Var /\ e = <<e[1], e[2]>>
             /\ Held(e[1], e[2], x)
  BY <1>2, <1>3 DEF InArenas, Held
<1>4. \A e, f \in InArenas(x) : e = f
  <2> SUFFICES ASSUME NEW e \in InArenas(x), NEW f \in InArenas(x)
               PROVE  e = f
    OBVIOUS
  <2>1. /\ e[1] \in Branch /\ e[2] \in Var /\ e = <<e[1], e[2]>>
        /\ f[1] \in Branch /\ f[2] \in Var /\ f = <<f[1], f[2]>>
        /\ Held(e[1], e[2], x) /\ Held(f[1], f[2], x)
    BY <1>3
  <2>2. e[1] = f[1] /\ e[2] = f[2]
    BY <1>1, <2>1 DEF OneHolder
  <2> QED
    BY <2>1, <2>2
<1>5. ASSUME NEW e \in InQueues(x)
      PROVE  \E c \in Chan :
                \/ \E p \in DOMAIN channels[c] :
                      e = <<c, "channel", p>> /\ channels[c][p].payload = x
                \/ \E p \in DOMAIN pending[c] :
                      e = <<c, "pending", p>> /\ pending[c][p].payload = x
  BY <1>5 DEF InQueues
<1>6. \A e, f \in InQueues(x) : e = f
  <2> SUFFICES ASSUME NEW e \in InQueues(x), NEW f \in InQueues(x)
               PROVE  e = f
    OBVIOUS
  <2>1. ASSUME NEW q, NEW c \in Chan, NEW d \in Chan, NEW p \in DOMAIN q[c],
               NEW r \in DOMAIN q[d], Single(q),
               q[c][p].payload = x, q[d][r].payload = x
        PROVE  c = d /\ p = r
    <3>1. Among(q[c], q[c][p]) /\ Among(q[d], q[d][r])
      BY DEF Among
    <3>2. c = d
      BY <2>1, <3>1 DEF Single
    <3> QED
      BY <2>1, <3>2 DEF Single, Lone
  <2>2. ASSUME NEW c \in Chan, NEW d \in Chan, NEW p \in DOMAIN channels[c],
               NEW r \in DOMAIN pending[d], channels[c][p].payload = x,
               pending[d][r].payload = x
        PROVE  FALSE
    <3>1. /\ Among(channels[c], channels[c][p])
          /\ Among(pending[d], pending[d][r])
      BY DEF Among
    <3> QED
      BY <2>2, <3>1 DEF OnePlace, Disjoint
  <2>3. Single(channels) /\ Single(pending)
    BY DEF OnePlace
  <2>4. PICK c \in Chan : 
                \/ \E p \in DOMAIN channels[c] :
                      e = <<c, "channel", p>> /\ channels[c][p].payload = x
                \/ \E p \in DOMAIN pending[c] :
                      e = <<c, "pending", p>> /\ pending[c][p].payload = x
    BY <1>5
  <2>5. PICK d \in Chan :
                \/ \E p \in DOMAIN channels[d] :
                      f = <<d, "channel", p>> /\ channels[d][p].payload = x
                \/ \E p \in DOMAIN pending[d] :
                      f = <<d, "pending", p>> /\ pending[d][p].payload = x
    BY <1>5
  <2> QED
    BY <2>1, <2>2, <2>3, <2>4, <2>5
<1>7. InArenas(x) = {} \/ InQueues(x) = {}
  <2> SUFFICES ASSUME NEW e \in InArenas(x), NEW f \in InQueues(x)
               PROVE  FALSE
    OBVIOUS
  <2>1. PICK u \in Branch : Holds(u, x)
    BY <1>3 DEF Holds
  <2>2. PICK c \in Chan : \E m : Waiting(c, m) /\ m.payload = x
    BY <1>5 DEF Waiting
  <2> QED
    BY <1>1, <2>1, <2>2 DEF NoneBoth
<1> QED
  BY <1>4, <1>6, <1>7, AtMostOne

\* A value never has two owners, two bindings of whatever timelines or a binding
\* and a message that waits, in programs that pass values over channels and
\* return to an anchor once, as long as no rollback has failed.
THEOREM SingleOwner ==
    ASSUME OneShot, "send" \notin Stmts, "speculate" \notin Stmts
    PROVE  Spec => []OneOwner
<1> DEFINE Inv == NoMoves /\ Known /\ (~faulted => Owned)
<1>1. Init => Inv
  BY InitOwned
<1>2. Base /\ Inv /\ [Next]_vars => Inv'
  <2> SUFFICES ASSUME Base, Inv, [Next]_vars
               PROVE  Inv'
    OBVIOUS
  <2>1. NoMoves' /\ Known'
    BY NoMovesStep, KnownStep
  <2>2. ~faulted' => Owned'
    BY FaultStays, OwnedStep DEF Base
  <2> QED
    BY <2>1, <2>2
<1>3. Base /\ Inv => OneOwner
  <2>1. faulted => OneOwner
    BY DEF OneOwner
  <2> QED
    BY <2>1, OwnedOnce DEF Base, Owned
<1>4. Spec => []Base
  <2>1. Init => UndoneSoFar
    BY RunningType DEF Init, UndoneSoFar
  <2>2. TypeInv /\ NoSpeculation /\ Traced /\ UndoneSoFar /\ [Next]_vars
          => UndoneSoFar'
    BY UndoneStep
  <2>3. Spec => [](TypeInv /\ NoSpeculation /\ Traced)
    BY Traceability
  <2>4. Spec => []Positioned
    BY PositionsKept
  <2> QED
    BY <2>1, <2>2, <2>3, <2>4, PTL DEF Spec, Base
<1> QED
  BY <1>1, <1>2, <1>3, <1>4, PTL DEF Spec
=============================================================================
