---------------------------- MODULE MCTimedPrograms ----------------------------
(***************************************************************************)
(* The programs of the run, in families: short sequences over a pool of    *)
(* statements that have something to do with each other.                   *)
(***************************************************************************)
EXTENDS TimedProperties

c == "c"
x == "x"
y == "y"
f == "f"
g == "g"
v == "v"
Id(n) == Identifier(n)
Net == NetworkRequest

SingleBlocks(heads, S, n) ==
    {<<h \o t>> : h \in heads, t \in BoundedSeq(S, n)}

-----------------------------------------------------------------------------
(* Moves: what is consumed, decayed, bound again *)

MovePool ==
    {Let(y, Id(x)), Let(x, Integer), Evaluate(FieldAccess(x, v)),
     Evaluate(CloneOp(x)), ChannelSend(x), PrintValue(Id(x)),
     If(Boolean(TRUE), <<Evaluate(Id(x))>>, <<>>, TRUE),
     If(Boolean(FALSE), <<Let(y, Id(x))>>, <<Let(x, StructLit)>>, TRUE),
     If(Boolean(FALSE), <<Let(y, Integer)>>, <<>>, TRUE),
     Match(x, y, <<<<Evaluate(Id(y))>>>>, <<<<>>>>, <<>>, <<<<Let(x, StructLit)>>>>),
     Match(x, y, <<>>, <<<<Evaluate(FieldAccess(y, v))>>>>, <<>>, <<>>),
     Inspect(<<Evaluate(FieldAccess(x, v))>>),
     Inspect(<<Let(y, Id(x))>>),
     Commit(<<Evaluate(Id(x)), Let(y, Integer)>>),
     Select(2, y, <<Evaluate(Id(y))>>, <<<<Let(y, Integer)>>>>)}

Moves == SingleBlocks({<<Let(x, StructLit)>>}, MovePool, 3)

OtherMoves ==
    SingleBlocks({<<Let(x, StructLit)>>, <<Let(x, StructLit), Let(y, Integer)>>,
                  <<Let(x, ArrayLiteral(<<>>))>>},
                 {Loop(4, <<Evaluate(Id(x))>>), Loop(3, <<Break, Let(y, Integer)>>),
                  ChannelSend(x), ChannelSend(y), Evaluate(Id(y)), DebugValue(Id(x)),
                  Let(y, ArrayLiteral(<<Id(x)>>)), Yield(x),
                  Select(2, y, <<>>, <<>>),
                  Select(2, y, <<>>, <<<<Evaluate(FieldAccess(x, v))>>>>),
                  For(y, "Consume", x, <<>>, None, None),
                  For(c, "Consume", x, <<Evaluate(Id(y))>>, None, None),
                  SplitMap(x, "Consume", y, <<>>)}, 2)

-----------------------------------------------------------------------------
(* Routines: modes of a parameter, bodies, contracts, nested calls *)

RoutineBodies ==
    {<<>>, <<Let(y, Id(x))>>, <<Let(y, Id(x)), Yield(y)>>,
     <<Evaluate(FieldAccess(x, v))>>, <<Net>>,
     <<If(Boolean(TRUE), <<Net>>, <<>>, FALSE)>>,
     <<Await(x)>>, <<Commit(<<Net>>)>>}

CallPool ==
    {Let(y, Call(f, <<Id(x)>>)), Let(y, Call(f, <<CloneOp(x)>>)),
     Evaluate(Call(f, <<FieldAccess(x, v)>>)), Evaluate(Call(f, <<>>)),
     Evaluate(Id(x)), Evaluate(FieldAccess(x, v))}

Calls ==
    SingleBlocks({<<RoutineDef(f, <<mode>>, <<x>>, taking, body), Let(x, StructLit)>> :
                     mode \in {"Consume", "Clone", "Decay", "Peek"},
                     taking \in {None, 3, 9}, body \in RoutineBodies},
                 CallPool, 2)

Outer(taking, body) == RoutineDef(g, <<>>, <<>>, taking, body)
NestedCalls ==
    SingleBlocks({<<RoutineDef(f, <<"Consume">>, <<x>>, t1, b1), Outer(t2, b2)>> :
                     t1 \in {None, 1, 2, 4, 8}, t2 \in {None, 2, 4, 8, 12},
                     b1 \in {<<>>, <<Net>>, <<Let(y, Id(x)), Yield(y)>>},
                     b2 \in {<<Let(x, Call(f, <<Integer>>))>>,
                             <<If(Boolean(TRUE), <<Let(x, Call(f, <<Integer>>))>>,
                                  <<Net>>, FALSE)>>,
                             <<Let(x, Call(f, <<Integer>>)),
                               Let(y, Call(f, <<Id(x)>>))>>}},
                 {Let(y, Call(g, <<>>)), Let(y, Call(f, <<Call(g, <<>>)>>))}, 2)

-----------------------------------------------------------------------------
(* Time: loops, slices, pacing, budgets, assertions *)

\* five milliseconds that need no budget
Idle == [i \in 1 .. 5 |-> Commit(<<>>)]
OneMessage == <<Let(y, Integer), ChannelSend(y)>>
TimePool ==
    {Net, DebugValue(Integer), Slice(4), Slice(9),
     Loop(3, <<Net>>), Loop(4, <<Let(y, Integer), Break>>),
     Loop(3, <<If(Boolean(TRUE), <<Break>>, <<>>, FALSE)>>),
     Loop(4, <<Loop(2, <<Break>>)>>),
     LoopTick(OneMessage \o <<Break>>), LoopTick(<<Net, Break>>),
     LoopTick(<<If(Boolean(FALSE), <<>>, <<Break>>, FALSE)>>),
     For(y, "Clone", x, <<Net>>, 7, None),
     For(y, "Clone", x, <<Let(c, Id(y)), Break>>, None, 1),
     For(y, "Consume", x, <<Evaluate(Id(y))>>, None, 9),
     For(y, "Clone", x, <<Net>>, 5, None),
     SplitMap(y, "Consume", x, <<Yield(y)>>),
     SplitMap(y, "Clone", x, <<Let(c, Integer)>>),
     AssertTime(4, <<<<Net>>>>), AssertTime(9, <<<<Let(y, Integer)>>>>),
     Watchdog(4, <<Net>>), Watchdog(99, <<Let(y, Integer)>>), Loop(12, <<Slice(9)>>),
     LoopTick(<<Break, Let(y, Integer)>>), LoopTick(<<Loop(1, Idle), Break>>),
     LoopTick(Idle \o <<Break>>),
     Inspect(<<Slice(9)>>),
     Isolate(12, {"Log"}, 1, <<DebugValue(Integer)>>),
     Isolate(6, {"Fetch"}, None, <<Net>>),
     Isolate(None, {"Entropy"}, None, <<>>),
     Inspect(<<Net>>), Break, Evaluate(CloneOp(x)),
     Select(2, y, <<Net>>, <<>>), Select(2, y, <<>>, <<<<Net>>>>)}

Times ==
    SingleBlocks({<<Let(x, ArrayLiteral(<<Integer, Integer>>))>> \o start :
                     start \in {<<>>, <<Slice(4)>>, <<Slice(9)>>,
                               <<Isolate(6, {"Log"}, 1, <<>>)>>,
                               <<Slice(9), Isolate(4, {}, None, <<>>)>>}},
                 TimePool, 2)

\* Statements before an assertion; an accepted tick loop needs a slice.
Timed ==
    {Net, DebugValue(Integer), PrintValue(Integer), Let(y, BinaryOp(Integer, Integer)),
     Let(y, StructLit), Evaluate(CloneOp(x)), Loop(4, <<Net>>), Loop(3, <<Break, Net>>),
     Loop(3, <<If(Boolean(TRUE), <<Break>>, <<Net>>, FALSE), Net>>),
     If(Boolean(TRUE), <<Net>>, <<Net, Net>>, FALSE),
     LoopTick(<<Net, Break>>), LoopTick(<<Break, Net>>), Inspect(<<Net>>),
     Isolate(99, {"Fetch"}, None, <<Net>>),
     Commit(<<Net>>), Speculate(6, <<Net, Commit(<<>>)>>, <<Net>>), Watchdog(99, <<Net>>),
     Speculate(6, <<AssertTime(4, <<>>)>>, <<Net>>),
     Match(x, y, <<<<Net>>>>, <<>>, <<>>, <<>>), Match(x, y, <<>>, <<>>, <<>>, <<<<Net>>>>),
     Select(2, y, <<Net>>, <<<<Net>>>>), Let(y, Call(f, <<>>)),
     For(y, "Clone", x, <<Net>>, 6, None), SplitMap(y, "Clone", x, <<Net>>)}
Assertions ==
    {<<<<RoutineDef(f, <<>>, <<>>, 8, <<Net>>), Let(x, ArrayLiteral(elements)),
         Slice(40)>> \o t \o <<AssertTime(limit, <<>>)>>>> :
        elements \in {<<>>, <<Integer>>}, t \in BoundedSeq(Timed, 2),
        limit \in {9, 13}}

\* What a failure leaves to the next block.
FailingPool ==
    {Loop(3, <<Collapse>>), Isolate(12, {"Log"}, 1, <<Break>>),
     LoopTick(<<Let(y, Integer), ChannelSend(x), ChannelSend(x)>>),
     SplitMap(y, "Consume", x, <<Collapse>>), Inspect(<<Let(y, Id(x)), Collapse>>),
     If(Boolean(TRUE), <<Break>>, <<Collapse>>, FALSE), Collapse}
AfterFailure ==
    {Break, Loop(3, <<Break>>), Loop(3, <<Let(y, Integer)>>), Slice(3),
     Select(2, y, <<>>, <<<<>>>>), SplitMap(y, "Consume", x, <<Yield(y)>>),
     Capability("Log"), Capability("Files")}
Failures ==
    {<<<<Let(x, ArrayLiteral(<<Integer>>)), s1>>, <<s2, s3>>>> :
        s1 \in FailingPool, s2 \in AfterFailure, s3 \in AfterFailure}

-----------------------------------------------------------------------------
(* Speculation *)

SpeculationBodies ==
    {<<Commit(<<Let(y, Integer)>>)>>, <<Commit(<<Let(y, Id(x))>>)>>,
     <<Commit(<<Let(y, Integer), Evaluate(Id(y))>>)>>,
     <<Net, Commit(<<>>)>>, <<Commit(<<Let(y, Integer)>>), Collapse>>,
     <<Evaluate(Id(x)), Commit(<<Net>>)>>, <<Evaluate(Id(x)), Let(y, Integer)>>,
     <<If(Boolean(TRUE), <<Commit(<<Let(y, Integer)>>)>>, <<>>, FALSE)>>,
     <<Loop(2, <<Collapse>>)>>, <<SpeculationMode(TRUE), Commit(<<Let(y, Id(x))>>)>>,
     <<Speculate(2, <<Commit(<<Let(y, Id(x))>>)>>, <<>>), Commit(<<Let(x, Integer)>>)>>,
     <<Slice(3), Isolate(9, {"Log"}, 1, <<Commit(<<>>)>>)>>}
Speculations ==
    {Speculate(max, body, fallback) :
        max \in {2, 8}, body \in SpeculationBodies,
        fallback \in {<<>>, <<Net>>, <<Let(y, Id(x))>>, <<Collapse>>}}
InLoop(s) == Loop(9, <<s, Break>>)
Speculating ==
    {<<<<Let(x, StructLit), SpeculationMode(full), s>> \o t>> :
        full \in BOOLEAN, s \in Speculations \union {InLoop(s) : s \in Speculations},
        t \in BoundedSeq({Evaluate(Id(x)), Evaluate(Id(y)),
                          Speculate(2, <<Commit(<<Let(x, Integer)>>)>>, <<>>)}, 1)}

\* Speculating on calls and maps: the fallback may find a child's timeline.
Mapped(body) == SplitMap(y, "Clone", x, body)
Stranding ==
    {<<<<RoutineDef(f, <<>>, <<>>, 8, body), Let(x, ArrayLiteral(<<Integer>>)),
         s>> \o t>> :
        body \in {<<Net>>, <<Collapse>>, <<Net, Net>>},
        s \in {Speculate(9, <<inner, Commit(<<>>)>>, <<fallback>>) :
                  inner \in {Evaluate(Call(f, <<>>)), Mapped(<<Collapse>>),
                             Mapped(<<Yield(y)>>)},
                  fallback \in {Net, Evaluate(Call(f, <<>>)), Mapped(<<Yield(y)>>)}},
        t \in BoundedSeq({Evaluate(Call(f, <<>>)), Mapped(<<>>),
                          Let(y, Call(f, <<>>))}, 1)}

-----------------------------------------------------------------------------
(* Promises and values that decay *)

PromisePool ==
    {Let(x, Deferred(2, 4)), Let(x, Deferred(6, 3)), Await(x), Net,
     Evaluate(Id(x)), Evaluate(FieldAccess(x, v)), Let(y, Id(x)), Evaluate(CloneOp(x)),
     Match(x, y, <<<<Evaluate(Id(y))>>>>, <<<<>>>>, <<<<Await(x)>>>>, <<<<Net>>>>),
     AnnotatedLet(x, "D", FALSE, StructLit), AnnotatedLet(x, "Struct", TRUE, StructLit),
     Isolate(3, {}, None, <<Await(x)>>),
     Speculate(9, <<Await(x), Commit(<<Let(y, Id(x))>>)>>, <<>>)}
Promises == SingleBlocks({<<TypeDecl(2)>>}, PromisePool, 3) \union
            SingleBlocks({<<TypeDecl(None)>>}, PromisePool, 2)

\* Handlers that take time, use or rebind what decays, promise, break or fail;
\* then another block.
HandlerBodies ==
    {<<>>, <<Net>>, <<Let(y, Id(x))>>, <<Commit(<<Evaluate(Id(x))>>)>>, <<Collapse>>,
     <<AnnotatedLet(y, "D", TRUE, StructLit)>>, <<Await(y)>>, <<Break>>,
     <<Let(x, Integer), Let(y, Integer)>>}
DecayPool ==
    {Net, Evaluate(CloneOp(x)), AnnotatedLet(y, "D", TRUE, StructLit),
     Let(y, Deferred(2, 9)), Loop(3, <<Commit(<<>>)>>), Inspect(<<Net>>),
     If(Boolean(TRUE), <<Net>>, <<Let(y, Integer)>>, FALSE),
     Speculate(8, <<Net, Commit(<<Let(y, Id(x))>>)>>, <<Net>>),
     Isolate(20, {}, None, <<Net, Evaluate(Id(x))>>)}
Handling ==
    {<<<<TypeDecl(2), DecayHandler(body), AnnotatedLet(x, "D", TRUE, StructLit)>> \o t,
       <<s, Evaluate(Id(x))>>>> :
        body \in HandlerBodies, t \in BoundedSeq(DecayPool, 2),
        s \in {Net, Let(x, Integer)}}

-----------------------------------------------------------------------------
(* Secrets *)

SecretArms ==
    <<<<>>, <<Net>>, <<Let(y, Id(x))>>, <<Let(y, Integer), Net>>,
      <<If(Boolean(TRUE), <<Net>>, <<>>, FALSE)>>,
      <<Select(2, y, <<>>, <<<<Net>>>>)>>, <<ChannelSend(x)>>,
      <<Speculate(1, <<Net, Commit(<<>>)>>, <<Collapse>>)>>,
      <<Speculate(1, <<Collapse>>, <<Let(y, Integer)>>)>>,
      <<Inspect(<<Net>>)>>, <<Isolate(9, {"Fetch"}, None, <<Net>>)>>,
      <<Isolate(None, {"Fetch"}, None, <<Net>>)>>,
      <<AssertTime(3, <<<<Net>>>>)>>, <<Evaluate(CloneOp(x))>>,
      <<Evaluate(FieldAccess(x, v))>>, <<Match(x, y, <<<<Net>>>>, <<>>, <<>>, <<>>)>>,
      <<Commit(<<Net>>)>>, <<Slice(7)>>, <<Break>>>>
\* The program is run with both values of the secret, so that the order of the
\* arms makes no difference.
SecretIf == {If(Id(c), SecretArms[p[1]], SecretArms[p[2]], TRUE) :
                p \in {q \in (DOMAIN SecretArms) \X (DOMAIN SecretArms) : q[1] < q[2]}}
AfterIf ==
    {AssertTime(9, <<<<Net>>>>), Select(3, y, <<Net>>, <<<<>>>>),
     LoopTick(<<Let(y, Integer), Break>>), Let(y, Integer),
     Speculate(3, <<Evaluate(Id(x)), Commit(<<>>)>>, <<Net>>),
     Match(x, y, <<>>, <<>>, <<>>, <<<<Net>>>>)}
Secrets ==
    {<<<<Let(c, Boolean(TRUE)), Let(x, StructLit)>> \o start \o t>> :
        start \in {<<i>> : i \in SecretIf} \union
                  {<<Slice(40), i, LoopTick(<<Break>>)>> : i \in SecretIf} \union
                  {<<Loop(9, <<i, Net>>)>> : i \in SecretIf},
        t \in BoundedSeq(AfterIf, 1)}

MCFamilies ==
    {Moves, OtherMoves, Calls, NestedCalls, Times, Assertions, Failures, Speculating,
     Stranding, Promises, Handling, Secrets}
=============================================================================
