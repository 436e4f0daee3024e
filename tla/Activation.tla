----------------------------- MODULE Activation ------------------------------
(***************************************************************************)
(* One call of a function, seen on its own: what the instructions do to    *)
(* the part of the stack above its slots, to its handlers and to its ip,   *)
(* when the calls it makes may return any of certain values or throw.      *)
(* Certifies says that the code of a program keeps its calls in order as   *)
(* far as each of them can see.  Whether the machine as a whole is then in *)
(* order, where frames share one stack, are reused with the handlers of    *)
(* their last user and are dropped several at a time, is the question      *)
(* MachineProofs settles.                                                  *)
(***************************************************************************)
EXTENDS Machine

\* A view of a frame: its function and ip, the h values v of its part of the
\* stack, its hc handlers hs, and how many exceptions it has to publish.
View(f, ip, h, v, hc, hs, p) ==
    [f |-> f, ip |-> ip, h |-> h, v |-> v, hc |-> hc, hs |-> hs, p |-> p]

Entry(f) == View(f, 1, 1, [j \in 0 .. 0 |-> f], 0, [k \in 1 .. 0 |-> NoHandler], 0)

TopOf(s) == s.v[s.h - 1]

Goes(s, a) == View(s.f, a, s.h, s.v, s.hc, s.hs, s.p)

Pushes(s, x) ==
    View(s.f, s.ip, s.h + 1, [j \in 0 .. s.h |-> IF j = s.h THEN x ELSE s.v[j]],
         s.hc, s.hs, s.p)

Puts(s, i, x) ==
    View(s.f, s.ip, s.h, [j \in 0 .. s.h - 1 |-> IF j = i THEN x ELSE s.v[j]],
         s.hc, s.hs, s.p)

Pops(s) ==
    View(s.f, s.ip, s.h - 1, [j \in 0 .. s.h - 2 |-> s.v[j]], s.hc, s.hs, s.p)

PushesTry(s, e) ==
    View(s.f, s.ip, s.h, s.v, s.hc + 1,
         [k \in 1 .. s.hc + 1 |-> IF k = s.hc + 1 THEN e ELSE s.hs[k]], s.p)

PopsTry(s) ==
    View(s.f, s.ip, s.h, s.v, s.hc - 1, [k \in 1 .. s.hc - 1 |-> s.hs[k]], s.p)

\* One more, or one less, exception to publish.
Owes(s, n) == View(s.f, s.ip, s.h, s.v, s.hc, s.hs, s.p + n)

\* With an exception on top of its part of the stack, the call goes on in the
\* catch or the finally block of its last handler.
Handles(s) ==
    LET e == s.hs[s.hc]
    IN  IF e.address # 0 THEN Goes(s, e.address)
                         ELSE Owes(Goes(Pushes(s, "true"), e.finally), 1)

\* The instruction c throws: what is left when the exception is on the stack.
\* A call that throws leaves its function and the exception.
Throws == {"CALL", "DIE", "FAIL", "PUBLISH_TRY"}

Thrown(c, s) ==
    LET n == Goes(s, s.ip + 1)
    IN  CASE c.op \in {"CALL", "FAIL"} -> Pushes(n, "exception")
          [] c.op = "DIE" -> n
          [] OTHER -> Owes(PopsTry(n), -1)

\* The instruction c does not throw; A are the values a call may return.
Proceed(c, s, A) ==
    LET n == Goes(s, s.ip + 1)
    IN  CASE c.op \in {"PUSH", "GET_GLOBAL", "CLOSURE"} -> {Pushes(n, c.n)}
          [] c.op = "CONDITION" -> {Pushes(n, x) : x \in {"true", "false"}}
          [] c.op = "POP" -> {Pops(n)}
          [] c.op = "GET_LOCAL" -> {Pushes(n, s.v[c.a])}
          [] c.op = "SET_LOCAL" -> {Puts(n, c.a, TopOf(s))}
          [] c.op \in {"JUMP", "LOOP"} -> {Goes(s, c.a)}
          [] c.op = "JUMP_IF_FALSE" -> {IF IsFalse(TopOf(s)) THEN Goes(s, c.a) ELSE n}
          [] c.op = "SWITCH" -> {Pops(Goes(s, a)) : a \in c.t}
          [] c.op = "INVOKE" -> {Pops(Puts(n, s.h - 2, x)) :
                                   x \in {c.n} \cup (IF c.a = 1 THEN {"false"} ELSE {})}
          [] c.op = "CALL" -> {Puts(n, s.h - 1, x) : x \in A}
          [] c.op = "TRY" -> {PushesTry(n, [address |-> c.a, finally |-> c.b])}
          [] c.op = "POP_TRY" -> {PopsTry(n)}
          [] OTHER -> {}

Steps(c, s, A) ==
    Proceed(c, s, A)
      \cup {Handles(t) : t \in {t \in {Thrown(c, s)} : c.op \in Throws /\ t.hc > 0}}

\* The instruction c may be executed: the call has the values, locals and
\* handlers for it, and returns one of A with no handler left.
Executable(c, s, A) ==
    /\ c.op \in Peeks => s.h > 0
    /\ c.op = "INVOKE" => s.h > 1
    /\ c.op = "GET_LOCAL" => c.a < s.h /\ s.v[c.a] = c.n
    /\ c.op = "SET_LOCAL" => c.a < s.h
    /\ c.op \in {"DIE", "PUBLISH_TRY"} => TopOf(s) = "exception"
    /\ c.op = "TRY" => s.hc < MaxHandlers
    /\ c.op \in {"POP_TRY", "PUBLISH_TRY"} => s.hc > 0
    /\ c.op = "RETURN" => s.hc = 0 /\ TopOf(s) \in A

\* An exception leaves the call by c: tidily, with nothing but the function
\* and the exception in its part of the stack, and with run about to look up
\* the frame.
Leaves(c, s) == c.op \in Throws /\ Thrown(c, s).hc = 0

Tidy(c, s) ==
    c.op \in {"DIE", "PUBLISH_TRY"} /\ Thrown(c, s).h = 2 /\ Thrown(c, s).v[0] = s.f

\* Exceptions may leave the functions of D in disorder, so nobody may catch
\* them.
Contained(c, s, D) ==
    /\ Leaves(c, s) => s.f \in D \/ Tidy(c, s)
    /\ c.op = "CALL" /\ TopOf(s) \in D => s.hc = 0

\* What the compiler expects at the start of a statement is there.
Meets(m, s) ==
    /\ s.p = 0 => s.h = m.locals + m.finals
    /\ s.hc = m.tries + s.p
    /\ s.p > 0 => m.finals > 0

\* The code of the program u keeps its calls in order: cert.views are the views
\* they may have, cert.answers the values they return, cert.untidy the
\* functions that exceptions may leave in disorder.
InOrder(u, cert, s) ==
    LET c == u[s.f].code[s.ip]
    IN  /\ s.ip \in DOMAIN u[s.f].code
        /\ Executable(c, s, cert.answers)
        /\ Contained(c, s, cert.untidy)
        /\ Steps(c, s, cert.answers) \subseteq cert.views
        /\ s.ip \in DOMAIN u[s.f].marks => Meets(u[s.f].marks[s.ip], s)

Certifies(cert, u) ==
    /\ \A f \in DOMAIN u : Entry(f) \in cert.views
    /\ \A s \in cert.views : InOrder(u, cert, s)

\* The program that runs has the certificate that C gives it.
Certified(C) == Certifies(C[units], units)
------------------------------------------------------------------------------
(* The machine, by the calls it runs.                                       *)

\* The part of the stack st from b up to t.
Values(st, b, t) == [j \in 0 .. t - b - 1 |-> st[b + j]]

\* The handlers hs a frame has c of.
Handlers(hs, c) == [k \in 1 .. c |-> hs[k]]

\* The view of the frame r when the stack is st and ends at t.
Seen(r, st, t) ==
    View(r.fn, r.ip, t - r.slots, Values(st, r.slots, t),
         r.handlersCount, Handlers(r.handlers, r.handlersCount), r.pending)

\* The view of the call that runs.
Active == Seen(Running, stack, top)

\* The view of the call of the frame r at its call of d, when the stack is st.
Calling(r, d, st) ==
    View(r.fn, r.ip - 1, d.slots - r.slots + 1,
         [j \in 0 .. d.slots - r.slots |-> IF j = d.slots - r.slots THEN d.fn ELSE st[r.slots + j]],
         r.handlersCount, Handlers(r.handlers, r.handlersCount), r.pending)

\* The frames below frameCount are those of the calls; the others have no
\* handlers to bequeath to the next call.
Counted ==
    /\ frame = frameCount - 1
    /\ \A i \in Frames : /\ frames[i].handlersCount >= 0
                         /\ i >= frameCount => frames[i].handlersCount = 0

\* The parts of the stack lie above each other; and nobody below a call that
\* exceptions may leave in disorder has a handler for them.
Nested(D) ==
    \A i, j \in 0 .. frameCount - 1 : i < j =>
       /\ frames[i].slots <= frames[j].slots
       /\ frames[j].fn \in D => frames[i].fn \in D /\ frames[i].handlersCount = 0

\* Every call below another one waits in a view of the certificate.
Waiting(V) ==
    \A i \in 0 .. frameCount - 2 :
       /\ Calling(frames[i], frames[i + 1], stack) \in V
       /\ units[frames[i].fn].code[frames[i].ip - 1].op = "CALL"

\* The machine is in order, by the certificate d.
Ordered(d) ==
    /\ Counted
    /\ Nested(d.untidy)
    /\ Waiting(d.views)
    /\ frames[0].slots = 0
    /\ Running.slots <= top
    /\ Active \in d.views
==============================================================================
