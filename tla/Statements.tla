----------------------------- MODULE Statements -----------------------------
(***************************************************************************)
(* How the single-pass compiler (compiler.c) turns statements into code    *)
(* for the virtual machine of Machine.tla: scopes and local variables,     *)
(* loops, exceptions, functions.                                           *)
(*                                                                         *)
(* The compiler keeps, per function, the stack of declared locals (a local *)
(* is addressed by its position in it) and, per parser, the flag           *)
(* is_trying and the start and scope depth of the innermost loop.  They    *)
(* are the fields of a context c; each operator returns the context after  *)
(* the code it emits.  An expression is reduced to what the machine sees   *)
(* of it: a value pushed, a local read, a call, an operation that fails.   *)
(*                                                                         *)
(* The field marks is not in the compiler.  It records, at the address of  *)
(* the first instruction of each statement, what the machine should find   *)
(* there: the number of declared locals, of enclosing try bodies and of    *)
(* enclosing finally blocks of the function.                               *)
(***************************************************************************)
EXTENDS Bytecode, SequencesExt

\* A statement: its kind s, a name n, a body b, a handler h, a finally f.
Stmt(s, n, b, h, f) == [s |-> s, n |-> n, b |-> b, h |-> h, f |-> f]
Var(n) == Stmt("var", n, <<>>, <<>>, <<>>)
Use(n) == Stmt("use", n, <<>>, <<>>, <<>>)
Call(n) == Stmt("call", n, <<>>, <<>>, <<>>)
Die == Stmt("die", "", <<>>, <<>>, <<>>)
Fail == Stmt("fail", "", <<>>, <<>>, <<>>)
Return == Stmt("return", "", <<>>, <<>>, <<>>)
ReturnCall(n) == Stmt("return_call", n, <<>>, <<>>, <<>>)
Break == Stmt("break", "", <<>>, <<>>, <<>>)
Continue == Stmt("continue", "", <<>>, <<>>, <<>>)
Block(b) == Stmt("block", "", b, <<>>, <<>>)
If(b, h) == Stmt("if", "", b, h, <<>>)
While(b) == Stmt("while", "", b, <<>>, <<>>)
DoWhile(b) == Stmt("do_while", "", b, <<>>, <<>>)
Iter(n, b) == Stmt("iter", n, b, <<>>, <<>>)
For(n, b) == Stmt("for", n, b, <<>>, <<>>)
Using(b, h, f) == Stmt("using", "", b, h, f)
Def(n, b) == Stmt("def", n, b, <<>>, <<>>)
TryCatch(b, n, h) == Stmt("try_catch", n, b, h, <<>>)
TryFinally(b, f) == Stmt("try_finally", "", b, <<>>, f)
TryCatchFinally(b, n, h, f) == Stmt("try_catch_finally", n, b, h, f)

(***************************************************************************)
(* Emitting and patching.  Addresses count instructions from 1; a jump     *)
(* holds its destination, 0 until it is patched.                           *)
(***************************************************************************)
Here(c) == Len(c.code) + 1

Emit(c, op, a, n) == [c EXCEPT !.code = Append(@, Instr(op, a, 0, n))]

EmitByte(c, op) == Emit(c, op, 0, "")

\* patch_jump: the instruction at address i goes to the next one emitted.
PatchJump(c, i) == [c EXCEPT !.code[i].a = Here(c)]

\* patch_try: the addresses of the catch and of the finally block.
PatchTry(c, i, address, finally) ==
    [c EXCEPT !.code[i].a = address, !.code[i].b = finally]

\* patch_switch: where the cases of a using statement begin.
PatchSwitch(c, i, targets) == [c EXCEPT !.code[i].t = targets]

\* add_local and mark_initialized, in the current scope.
AddLocal(c, n) ==
    [c EXCEPT !.locals = Append(@, [name |-> n, depth |-> c.depth])]

\* resolve_local: the slot of the latest local of that name, -1 if none.
ResolveLocal(c, n) ==
    SelectLastInSeq(c.locals, LAMBDA l : l.name = n) - 1

\* define_variable for the value on top of the stack.
DefineVariable(c, n) ==
    IF c.depth > 0 THEN AddLocal(c, n) ELSE EmitByte(c, "POP")

\* The value of a variable on top of the stack: a local or a global.
NamedVariable(c, n) ==
    IF ResolveLocal(c, n) = -1 THEN Emit(c, "GET_GLOBAL", 0, n)
                               ELSE Emit(c, "GET_LOCAL", ResolveLocal(c, n), n)

BeginScope(c) == [c EXCEPT !.depth = @ + 1]

\* One POP for each of n locals.
EmitPops(c, n) ==
    [c EXCEPT !.code = @ \o [i \in 1 .. n |-> Instr("POP", 0, 0, "")]]

\* The number of locals of scopes deeper than depth.
LocalsAbove(c, depth) ==
    Len(SelectSeq(c.locals, LAMBDA l : l.depth > depth))

\* end_scope: the locals of the scope are popped and forgotten.
EndScope(c) ==
    LET n == LocalsAbove(c, c.depth - 1)
    IN  EmitPops([c EXCEPT !.depth = @ - 1,
                           !.locals = SubSeq(@, 1, Len(@) - n)], n)

\* discard_local: the locals deeper than depth are popped, not forgotten.
DiscardLocal(c, depth) == EmitPops(c, LocalsAbove(c, depth))

\* emit_return and return_statement: one POP_TRY if is_trying, before the value.
PopTryIfTrying(c) == IF c.trying THEN EmitByte(c, "POP_TRY") ELSE c

EmitReturn(c) ==
    EmitByte(Emit(PopTryIfTrying(c), "PUSH", 0, "empty"), "RETURN")

\* end_loop: every break since the start of the loop jumps to here.
EndLoop(c) ==
    [c EXCEPT !.code =
        [i \in DOMAIN @ |-> IF i >= c.loopStart /\ @[i].op = "BREAK_PL"
                            THEN Instr("JUMP", Here(c), 0, "") ELSE @[i]]]

(***************************************************************************)
(* The statements.                                                         *)
(***************************************************************************)
\* What the machine should find at the start of a statement.
Mark(c) ==
    [c EXCEPT !.marks = (Here(c) :> [locals |-> Len(c.locals),
                                     tries |-> c.tries,
                                     finals |-> c.finals]) @@ @]

RECURSIVE Statement(_, _), Statements(_, _)

\* Op(x), with x evaluated first (TLC would evaluate it where Op uses it, deep
\* within the evaluation of what follows).
After(x, Op(_)) == CHOOSE r \in {Op(y) : y \in {x}} : TRUE

\* One statement after the other.
Statements(c, b) ==
    IF b = <<>> THEN c
    ELSE After(Statement(Mark(c), Head(b)), LAMBDA d : Statements(d, Tail(b)))

\* A block of its own scope, the body of most statements.
Scoped(c, b) == After(Statements(BeginScope(c), b), EndScope)

\* The start of a loop.  while_statement saves the scope depth of the
\* surrounding loop and restores it, and never sets the depth of its own.
EnterLoop(c) == [c EXCEPT !.loopStart = Here(c)]

LeaveLoop(c, outer) ==
    [EndLoop(c) EXCEPT !.loopStart = outer.loopStart,
                       !.loopDepth = outer.loopDepth]

\* Faulty: a break goes to the instruction that pops the condition.
WhileStatementBreakPops(c, b) ==
    LET start == EnterLoop(c)
        test == EmitByte(EmitByte(start, "CONDITION"), "JUMP_IF_FALSE")
        body == Scoped(EmitByte(test, "POP"), b)
        back == Emit(body, "LOOP", start.loopStart, "")
    IN  EmitByte(LeaveLoop(PatchJump(back, Len(test.code)), c), "POP")

\* while_statement: the condition is left on the stack by the jump that tests
\* it, and popped on both ways; a break goes behind both.
WhileStatement(c, b) ==
    LET start == EnterLoop(c)
        test == EmitByte(EmitByte(start, "CONDITION"), "JUMP_IF_FALSE")
        body == Scoped(EmitByte(test, "POP"), b)
        back == Emit(body, "LOOP", start.loopStart, "")
    IN  LeaveLoop(EmitByte(PatchJump(back, Len(test.code)), "POP"), c)

\* do_while_statement.
DoWhileStatement(c, b) ==
    LET start == EnterLoop(c)
        body == Scoped(start, b)
        test == EmitByte(EmitByte(body, "CONDITION"), "JUMP_IF_FALSE")
        back == Emit(EmitByte(test, "POP"), "LOOP", start.loopStart, "")
    IN  LeaveLoop(EmitByte(PatchJump(back, Len(test.code)), "POP"), c)

\* The start of an iter or for loop, which do set the scope depth.
EnterScopedLoop(c) == [EnterLoop(c) EXCEPT !.loopDepth = c.depth]

\* iter_statement: the increment stands before the body, and a continue goes
\* to the increment.
IterStatement(c, s) ==
    LET var == AddLocal(Emit(BeginScope(c), "PUSH", 0, s.n), s.n)
        start == EnterScopedLoop(var)
        test == EmitByte(EmitByte(start, "CONDITION"), "JUMP_IF_FALSE")
        jump == EmitByte(EmitByte(test, "POP"), "JUMP")
        next == Emit(EmitByte(NamedVariable(jump, s.n), "POP"), "LOOP", start.loopStart, "")
        into == [PatchJump(next, Len(jump.code)) EXCEPT !.loopStart = Here(jump)]
    IN  After(Scoped(into, s.b),
              LAMBDA d :
                  LET back == Emit(d, "LOOP", d.loopStart, "")
                  IN  EndScope(LeaveLoop(EmitByte(PatchJump(back, Len(test.code)), "POP"), c)))

\* A method call on the iterator, with the key for its argument: @itern, whose
\* answer may be false, and @iter.
InvokeOnIterator(c, n, may) ==
    Emit(NamedVariable(NamedVariable(c, " iterator "), " key "), "INVOKE",
         IF may THEN 1 ELSE 0, n)

\* for_statement, with its hidden variables.
ForStatement(c, s) ==
    LET local(d, n) == AddLocal(Emit(d, "PUSH", 0, n), n)
        start == EnterScopedLoop(
                   local(local(local(BeginScope(c), " iterator "), " key "), s.n))
        key == Emit(InvokeOnIterator(start, " key ", TRUE), "SET_LOCAL",
                    ResolveLocal(start, " key "), " key ")
        test == EmitByte(key, "JUMP_IF_FALSE")
        value == BeginScope(InvokeOnIterator(EmitByte(test, "POP"), s.n, FALSE))
        set == EmitByte(Emit(value, "SET_LOCAL", ResolveLocal(start, s.n), s.n), "POP")
    IN  After(EndScope(Scoped(set, s.b)),
              LAMBDA d :
                  LET back == Emit(d, "LOOP", d.loopStart, "")
                  IN  EndScope(LeaveLoop(EmitByte(PatchJump(back, Len(test.code)), "POP"), c)))

\* if_statement.
IfStatement(c, s) ==
    LET test == EmitByte(EmitByte(c, "CONDITION"), "JUMP_IF_FALSE")
    IN  After(EmitByte(Scoped(EmitByte(test, "POP"), s.b), "JUMP"),
              LAMBDA d : After(Scoped(EmitByte(PatchJump(d, Len(test.code)), "POP"), s.h),
                               LAMBDA u : PatchJump(u, Len(d.code))))

\* using_statement, with two cases and the default one.
UsingStatement(c, s) ==
    LET switch == EmitByte(Emit(c, "PUSH", 0, "list"), "SWITCH")
    IN  After(EmitByte(Statements(switch, s.b), "JUMP"),
              LAMBDA d : After(EmitByte(Statements(d, s.h), "JUMP"),
                               LAMBDA u : PatchSwitch(
                                   PatchJump(PatchJump(Statements(u, s.f), Len(d.code)), Len(u.code)),
                                   Len(switch.code), {Here(switch), Here(d), Here(u)})))

\* continue_statement.
ContinueStatement(c) ==
    Emit(DiscardLocal(c, c.loopDepth), "LOOP", c.loopStart, "")

\* break_statement: no local is discarded.
BreakStatement(c) == EmitByte(c, "BREAK_PL")

\* function, function_body and end_compiler: a function is compiled with
\* locals of its own and the is_trying and loop of the parser.
Function(c, n, depth, b) ==
    After(Statements([c EXCEPT !.code = <<>>, !.marks = <<>>, !.depth = depth,
                               !.locals = <<[name |-> "", depth |-> 0]>>,
                               !.tries = 0, !.finals = 0, !.handlers = 0], b),
          LAMBDA inner :
              [c EXCEPT !.trying = inner.trying, !.error = inner.error,
                        !.units = (n :> [code |-> EmitReturn(inner).code,
                                         marks |-> inner.marks]) @@ inner.units])

\* function_declaration.
DefStatement(c, n, b) ==
    DefineVariable(Emit(Function(c, n, 1, b), "CLOSURE", 0, n), n)

\* The check of try_statement: handler_count counts the try statements of a
\* function and is never decremented.
CountHandler(c) ==
    [c EXCEPT !.handlers = @ + 1, !.error = @ \/ c.handlers = MaxHandlers]

\* The body of a try statement, up to the jump behind its catch block.
TryBody(c, b) ==
    After(Scoped([EmitByte(CountHandler(c), "TRY") EXCEPT !.trying = TRUE, !.tries = @ + 1], b),
          LAMBDA d : [EmitByte(EmitByte(d, "POP_TRY"), "JUMP")
                      EXCEPT !.trying = FALSE, !.tries = @ - 1])

\* Faulty: the position that add_local returns is taken for the slot.
CatchBlockNextSlot(c, n, h) ==
    LET var == AddLocal(BeginScope(c), n)
        set == EmitByte(Emit(var, "SET_LOCAL", Len(var.locals), n), "POP")
    IN  EndScope(Scoped(EmitByte(set, "POP_TRY"), h))

\* Faulty: the catch block runs with its own handler in place.
CatchBlockKeepsHandler(c, n, h) ==
    LET var == AddLocal(BeginScope(c), n)
        set == EmitByte(Emit(var, "SET_LOCAL", Len(c.locals), n), "POP")
    IN  EndScope(Scoped(set, h))

\* The catch block: the exception, on top of the stack, is assigned to the
\* variable of the block and popped, and the handler is popped.
CatchBlock(c, n, h) ==
    LET var == AddLocal(BeginScope(c), n)
        set == EmitByte(Emit(var, "SET_LOCAL", Len(c.locals), n), "POP")
    IN  EndScope(Scoped(EmitByte(set, "POP_TRY"), h))

\* Faulty: the exception is not propagated again.
FinallyBlockSwallows(c, f) ==
    After(Scoped([c EXCEPT !.finals = @ + 1], f),
          LAMBDA d :
              LET jump == EmitByte([d EXCEPT !.finals = @ - 1], "JUMP_IF_FALSE")
              IN  EmitByte(PatchJump(jump, Len(jump.code)), "POP"))

\* Faulty: the Boolean is taken for the exception.
FinallyBlockPublishesFlag(c, f) ==
    After(Scoped([c EXCEPT !.finals = @ + 1], f),
          LAMBDA d :
              LET jump == EmitByte([d EXCEPT !.finals = @ - 1], "JUMP_IF_FALSE")
                  publish == EmitByte(jump, "PUBLISH_TRY")
              IN  EmitByte(PatchJump(publish, Len(jump.code)), "POP"))

\* The finally block, on top of a Boolean: propagate the exception again?
FinallyBlock(c, f) ==
    After(Scoped([c EXCEPT !.finals = @ + 1], f),
          LAMBDA d :
              LET jump == EmitByte([d EXCEPT !.finals = @ - 1], "JUMP_IF_FALSE")
                  publish == EmitByte(EmitByte(jump, "POP"), "PUBLISH_TRY")
              IN  EmitByte(PatchJump(publish, Len(jump.code)), "POP"))

\* try_statement.  A catch or finally block that does not exist has address 0.
TryFinish(c, begins, address, s) ==
    IF s.s = "try_catch" THEN PatchTry(c, begins, address, 0)
    ELSE PatchTry(FinallyBlock(Emit(c, "PUSH", 0, "false"), s.f),
                  begins, address, Here(c) + 1)

TryStatement(c, s) ==
    After(TryBody(c, s.b),
          LAMBDA d :
              IF s.s = "try_finally"
              THEN TryFinish(PatchJump(d, Len(d.code)), Here(c), 0, s)
              ELSE After(CatchBlock(d, s.n, s.h),
                         LAMBDA u : TryFinish(PatchJump(u, Len(d.code)),
                                              Here(c), Here(d), s)))

\* statement and declaration.
Statement(c, s) ==
    CASE s.s = "var" -> DefineVariable(Emit(c, "PUSH", 0, s.n), s.n)
      [] s.s = "use" -> EmitByte(NamedVariable(c, s.n), "POP")
      [] s.s = "call" -> EmitByte(EmitByte(NamedVariable(c, s.n), "CALL"), "POP")
      [] s.s = "die" -> EmitByte(Emit(c, "PUSH", 0, "exception"), "DIE")
      [] s.s = "fail" -> EmitByte(EmitByte(Emit(c, "PUSH", 0, "list"), "FAIL"), "POP")
      [] s.s = "return" -> EmitReturn(c)
      [] s.s = "return_call" ->
            EmitByte(EmitByte(NamedVariable(PopTryIfTrying(c), s.n), "CALL"), "RETURN")
      [] s.s = "block" -> Scoped(c, s.b)
      [] s.s = "if" -> IfStatement(c, s)
      [] s.s = "while" -> WhileStatement(c, s.b)
      [] s.s = "do_while" -> DoWhileStatement(c, s.b)
      [] s.s = "iter" -> IterStatement(c, s)
      [] s.s = "for" -> ForStatement(c, s)
      [] s.s = "using" -> UsingStatement(c, s)
      [] s.s = "break" -> BreakStatement(c)
      [] s.s = "continue" -> ContinueStatement(c)
      [] s.s = "def" -> DefStatement(c, s.n, s.b)
      [] OTHER -> TryStatement(c, s)

\* compile: the code of the script and of every function defined in it; none
\* if there was an error.
Compile(b) ==
    LET compiled == Function([code |-> <<>>, marks |-> <<>>, locals |-> <<>>, depth |-> 0,
                              trying |-> FALSE, loopStart |-> -1, loopDepth |-> 0,
                              handlers |-> 0, error |-> FALSE,
                              tries |-> 0, finals |-> 0, units |-> <<>>],
                             "script", 0, b)
    IN  IF compiled.error THEN <<>> ELSE compiled.units
=============================================================================
