----------------------------- MODULE MCMachine ------------------------------
(***************************************************************************)
(* The programs on which Machine.tla is checked.  A script defines g and   *)
(* f, and calls f from a block with a local variable s; f has a local a, a *)
(* statement under test, and a local b declared behind it.                 *)
(***************************************************************************)
EXTENDS Activation, Statements

e == "exception"

\* f behind the definition of g.
Program(g, f) ==
    <<Def("g", g), Def("f", f), Block(<<Var("s"), Call("f"), Use("s")>>)>>

Testing(t) == <<Var("a"), t, Use("a"), Var("b"), Use("b")>>

(***************************************************************************)
(* Exceptions, without loops.                                              *)
(***************************************************************************)
\* What g may do: return, throw, throw through a finally block.
Throwers == {<<>>, <<Die>>, <<TryFinally(<<Die>>, <<>>)>>,
             <<TryFinally(<<>>, <<>>), Die>>}

SimpleBodies == {<<Use("a")>>, <<Call("g")>>, <<Fail>>, <<Return>>}

\* Statements made of the bodies bs, the handlers hs and the finallys fs.
Tries(bs, hs, fs) ==
    {TryCatch(b, e, h) : b \in bs, h \in hs}
    \cup {TryFinally(b, f) : b \in bs, f \in fs}
    \cup {TryCatchFinally(b, e, h, f) : b \in bs, h \in hs, f \in fs}

Simple == Tries(SimpleBodies, {<<Use(e), Use("a"), Use(e)>>}, {<<Use("a")>>})

\* A try statement in a try body, in a catch block, in a finally block.
NestedTries ==
    LET inner == Tries({<<Call("g")>>, <<Fail>>}, {<<Use(e)>>, <<Die>>}, {<<Use("a")>>})
    IN  Tries({<<t>> : t \in inner}, {<<Use(e)>>}, {<<Use("a")>>})
        \cup Tries({<<t, Call("g")>> : t \in inner}, {<<Use(e)>>}, {<<>>})
        \cup {TryCatch(<<Call("g")>>, e, <<t>>) : t \in inner}
        \cup {TryFinally(<<Call("g")>>, <<t>>) :
                 t \in Tries({<<Use("a")>>}, {<<>>}, {<<Use("a")>>})}

\* A recursion without end, through finally blocks.
Deep == Program(<<TryFinally(<<Call("g")>>, <<>>)>>,
                Testing(TryFinally(<<Call("g")>>, <<Use("a")>>)))

MCTryPrograms ==
    {Program(g, Testing(t)) : g \in Throwers, t \in Simple \cup NestedTries} \cup {Deep}

(***************************************************************************)
(* Loops.                                                                  *)
(***************************************************************************)
Loops ==
    {While(b) : b \in {<<Use("a")>>, <<Var("c"), Use("c"), Use("a")>>, <<Break>>,
                       <<Use("a"), Return>>, <<Var("c"), While(<<Break>>), Use("c")>>}}
    \cup {While(<<t, Use("a")>>) : t \in Simple}
    \cup {TryCatch(<<While(<<Call("g")>>)>>, e, <<Use(e)>>)}

\* iter and for loops, with a continue below a local of their body.
ScopedLoops ==
    LET bodies == {<<Use("c"), Use("a")>>, <<Break>>, <<Var("d"), Continue>>,
                   <<Var("d"), If(<<Var("x"), Continue>>, <<Use("d")>>), Use("c")>>,
                   <<TryCatch(<<Call("g")>>, e, <<Use(e), Use("c")>>), Use("c")>>}
    IN  {Iter("c", b) : b \in bodies} \cup {For("c", b) : b \in bodies}
        \cup {Iter("d", <<For("c", <<Var("x"), Continue>>), Use("d")>>)}

Branches ==
    LET cases == {<<>>, <<Use("a")>>, <<Block(<<Var("c"), Use("c")>>)>>}
    IN  {If(<<Use("a")>>, <<Var("c"), Use("c")>>)}
        \cup {Using(b, <<Use("a")>>, f) : b, f \in cases}
        \cup {DoWhile(<<Using(<<Break>>, <<Use("a")>>, <<Return>>)>>),
              DoWhile(<<Var("c"), Use("c")>>)}

\* As many try statements in one function as handlers in a frame, or one more.
RECURSIVE Nest(_)
Nest(n) == TryFinally(IF n = 1 THEN <<Call("g")>> ELSE <<Nest(n - 1)>>, <<Use("a")>>)

ManyTries ==
    {Nest(MaxHandlers), Nest(MaxHandlers + 1), Block(<<Nest(2), Nest(2)>>),
     TryFinally(<<Call("g")>>, <<TryFinally(<<TryCatch(<<Use("a")>>, e, <<>>)>>, <<>>)>>)}

MCLoopPrograms ==
    {Program(g, Testing(t)) : g \in Throwers, t \in Loops \cup ManyTries}
    \cup {Program(g, Testing(t)) : g \in {<<>>, <<Die>>}, t \in ScopedLoops \cup Branches}
    \cup {<<While(<<Var("c"), Use("c"), Continue>>)>>}

MCTamePrograms == MCTryPrograms \cup MCLoopPrograms

\* What the compiler makes of the programs ps: those it accepts.
Compiled(ps) == {Compile(p) : p \in ps} \ {<<>>}

MCTameImages == Compiled(MCTamePrograms)

\* The call can go on from the view s.  From any other no step is taken, so
\* that a program which leaves more behind at every turn has no certificate
\* rather than an endless one.
GoesOn(u, s) ==
    /\ s.ip \in DOMAIN u[s.f].code
    /\ s.h <= MaxStack
    /\ Executable(u[s.f].code[s.ip], s, {"empty"})
    /\ s.ip \in DOMAIN u[s.f].marks => Meets(u[s.f].marks[s.ip], s)

\* The views the calls of a program can have, and what certifies it by them.
\* Only those found last, new, are gone on from.
RECURSIVE Closure(_, _, _)
Closure(u, views, new) ==
    LET next == UNION {Steps(u[s.f].code[s.ip], s, {"empty"}) : s \in {s \in new : GoesOn(u, s)}}
    IN  IF next \subseteq views THEN views ELSE Closure(u, views \cup next, next \ views)

Certificate(u) ==
    LET entries == {Entry(f) : f \in DOMAIN u}
        views == Closure(u, entries, entries)
        untidy == {s \in views : /\ GoesOn(u, s) /\ Leaves(u[s.f].code[s.ip], s)
                                 /\ ~ Tidy(u[s.f].code[s.ip], s)}
    IN  [views |-> views, answers |-> {"empty"}, untidy |-> {s.f : s \in untidy}]

\* All programs but the one whose recursion leaves more on the stack with
\* every call an exception passes.
Certificates == [u \in Compiled(MCTamePrograms \ {Deep}) |-> Certificate(u)]

AllCertify == \A u \in DOMAIN Certificates : Certifies(Certificates[u], u)

\* What the compiler makes keeps every call in order, as far as the call can
\* see; and run, call, OP_RETURN and propagate_exception, which share one stack
\* and one array of frames among the calls, keep each of them in a view it can
\* have: the inductive invariant of MachineProofs.
CertifiedInOrder ==
    /\ TypeOK
    /\ AllCertify
    /\ status = "running" /\ units \in DOMAIN Certificates => Ordered(Certificates[units])

(***************************************************************************)
(* Programs of which the machine loses track.                              *)
(***************************************************************************)
\* A break out of a scope with a local.
MCBreakPrograms ==
    {Program(<<>>, Testing(t)) :
        t \in {While(<<Var("c"), Break>>), Iter("c", <<Var("d"), Break>>)}}

\* A continue of a while loop below a local of a surrounding loop.
MCWhileContinue ==
    {Program(<<>>, Testing(For("c", <<Var("d"), While(<<Continue>>), Use("d")>>)))}

\* A continue in a function with a local outside of the loop.
MCContinuePrograms == {Program(<<>>, Testing(While(<<Continue>>)))}
MCContinueImages == Compiled(MCContinuePrograms)

\* An exception caught in the function that dies.
MCCatchPrograms ==
    {Program(<<>>, Testing(TryCatch(<<Die>>, e, <<Use("a"), Use(e)>>)))}

\* A failing instruction in a function, and the handler in its caller.
MCFramePrograms ==
    {Program(<<Fail>>, Testing(t)) :
        t \in {TryCatch(<<Call("g")>>, e, <<>>), TryFinally(<<Call("g")>>, <<>>)}}

\* A break, a return, a function within try bodies.
MCHandlerPrograms ==
    {Program(<<>>, Testing(t)) :
        t \in {While(<<TryCatch(<<Break>>, e, <<>>)>>),
               TryCatch(<<TryFinally(<<Return>>, <<>>)>>, e, <<>>),
               TryCatch(<<Def("h", <<>>), Call("h"), Call("h")>>, e, <<>>)}}

\* A local, or a catch, in a finally block; a finally block that throws.
FinallyPrograms ==
    {Program(<<Die>>, Testing(TryFinally(<<Use("a")>>, b))) :
        b \in {<<Var("c"), Use("c")>>, <<TryCatch(<<Call("g")>>, e, <<>>)>>}}
    \cup {Program(<<TryFinally(<<Die>>, <<Die>>)>>, Testing(Call("g"))),
          Program(<<>>, Testing(While(<<While(<<TryCatch(<<Break>>, e, <<>>)>>)>>))),
          Program(<<>>, Testing(Call("a")))}

MCWildPrograms ==
    MCWhileContinue \cup MCBreakPrograms \cup MCContinuePrograms \cup MCCatchPrograms \cup
    MCFramePrograms \cup MCHandlerPrograms \cup FinallyPrograms \cup
    {Program(g, Testing(t)) : g \in {<<Fail>>, <<Var("c"), Die>>, <<ReturnCall("g")>>},
                              t \in Simple}

MCWildImages == Compiled(MCWildPrograms)
=============================================================================
