------------------------------- MODULE Calls ---------------------------------
(***************************************************************************)
(* Calls: how vm.c finds what a call runs, and what it does to the stack.  *)
(* call binds the arguments to the parameters, call_native_method runs a   *)
(* function written in C, invoke, invoke_self and invoke_from_class find   *)
(* methods in the tables the class declarations filled, and an error on    *)
(* the way goes to a handler of the calling function or of one below it.   *)
(*                                                                         *)
(* The compiler gives a local variable the number of the slot it expects   *)
(* the variable in, so every call has to leave the stack exactly as it was *)
(* with one value more.  Each frame carries, next to what the code keeps,  *)
(* the variables its function has by the rules of the language.            *)
(*                                                                         *)
(* Every call is the initialiser of a variable, var x = f(a, b), alone or  *)
(* as the only statement of a try.  The classes are a chain: the           *)
(* superclass of c is c - 1, and the first has none.                       *)
(***************************************************************************)
EXTENDS Integers, Sequences

CONSTANTS Worlds,       \* the bodies the classes may have
          Arguments,    \* argument lists
          Functions,    \* the functions outside of classes, by name
          Mains,        \* those that have the name of their module
          Sig,          \* arity and is_variadic of every function and method
          Natives,      \* functions in C: name, number of objects protected, whether
                        \*   they fail
          MaxFrames,    \* FRAMES_MAX
          MaxStack      \* the depth of the stack above which no call is made

VARIABLES body,         \* what each class declares; never changes
          stack,        \* vm->stack up to stack_top
          frames,       \* vm->frames up to frame_count; not in the code are
                        \*   the fields locals and via, the kind of call
          gcProtected,  \* vm->gc_protected
          callPc,       \* "run", "catch" (at the start of a catch block) or "ended"
          tidy          \* not in the code: no error so far left values behind

callVars == <<body, stack, frames, gcProtected, callPc, tidy>>

Classes == DOMAIN body

\* s is a sequence of values: each has a kind.
Kinds == {"nil", "false", "exception", "result", "protected", "value", "instance",
          "class", "closure", "native", "bound", "module", "list"}

OfValues(s) ==
  /\ s \in Seq({s[i] : i \in DOMAIN s})
  /\ \A i \in DOMAIN s : s[i].k \in Kinds

\* Every name that is declared has a signature; the parameter for ... is one
\* of those that arity counts; ctor is the name of no function in C.
ASSUME CallsAssumption ==
  /\ Sig \in [DOMAIN Sig -> [arity : Nat, is_variadic : BOOLEAN]]
  /\ \A f \in DOMAIN Sig : Sig[f].is_variadic => Sig[f].arity > 0
  /\ Worlds \subseteq Seq([methods : SUBSET DOMAIN Sig, fields : SUBSET DOMAIN Sig,
                          statics : SUBSET DOMAIN Sig])
  /\ \A args \in Arguments : OfValues(args)
  /\ Functions \subseteq DOMAIN Sig /\ Mains \subseteq Functions
  /\ \A f \in Natives : f.protects \in Nat /\ f.fails \in BOOLEAN /\ f.name # "ctor"
  /\ MaxFrames \in Nat \ {0} /\ MaxStack \in Nat
------------------------------------------------------------------------------
(* Values, and the tables of the classes *)

Plain(k) == [k |-> k]
NilValue == Plain("nil")
False == Plain("false")
Exception == Plain("exception")
NativeResult == Plain("result")
Protected == Plain("protected")

Instance(c) == [k |-> "instance", c |-> c]
ClassValue(c) == [k |-> "class", c |-> c]
Closure(m) == [k |-> "closure", m |-> m]
Native(n) == [k |-> "native", n |-> n]
Bound(c, m) == [k |-> "bound", c |-> c, m |-> m]
Module(f) == [k |-> "module", m |-> f]
List(s) == [k |-> "list", s |-> s]

\* A function: its name and the class that declares it, or 0.  A constructor
\* has the name of its class in the code; here all are called ctor.
Function(name) == [name |-> name, owner |-> 0]
SameName(m, n) == m.name = n.name /\ (m.name = "ctor" => m.owner = n.owner)

\* method() in compiler.c: private by the first character of the name.
Private == {"_p"}
Static == {"s"}

\* What the body of class c declares: methods, fields and static fields, the
\* fields being functions too.
Own(c, kind) == {[name |-> n, owner |-> c] : n \in body[c][kind]}

\* Faulty: the superclass is copied over what the class declares itself.
TableCopiedLast(kind) ==
  LET T[c \in Classes] ==
        IF c = 1 THEN Own(c, kind)
        ELSE T[c - 1] \cup {m \in Own(c, kind) : \A n \in T[c - 1] : ~ SameName(m, n)}
  IN  T

\* klass->methods and klass->properties: OP_INHERIT copies the tables of the
\* superclass, then OP_METHOD and OP_CLASS_PROPERTY set what the class
\* declares.
Table(kind) ==
  LET T[c \in Classes] ==
        IF c = 1 THEN Own(c, kind)
        ELSE Own(c, kind) \cup {m \in T[c - 1] : \A n \in Own(c, kind) : ~ SameName(m, n)}
  IN  T

\* klass->initializer, which OP_INHERIT does not copy.
Initializer(c) == {m \in Own(c, "methods") : m.name = "ctor"}
------------------------------------------------------------------------------
(* Frames *)

Top == frames[Len(frames)]

\* The value of slot i of the running function, counted from 0.
SlotValue(i) == stack[Top.slots + i + 1]

Keep(s, n) == SubSeq(s, 1, n)
PopN(s, n) == Keep(s, Len(s) - n)

\* The frame of the caller: a call inside of a try has a handler.
Calling(try) == [frames EXCEPT ![Len(frames)].try = try]

\* The call is over, its value is a new variable v of its caller.
Finished(fs, v) ==
  [fs EXCEPT ![Len(fs)].locals = Append(@, v), ![Len(fs)].try = FALSE]

\* do_throw_exception, propagate_exception: the exception is pushed and goes
\* to the highest frame of fs that has a handler; the frames above are
\* dropped, the stack stays as it is.
Throw(fs, st, clean) ==
  LET handling == {i \in 1 .. Len(fs) : fs[i].try}
      k == CHOOSE i \in handling : \A j \in handling : j <= i
  IN  /\ stack' = Append(st, Exception)
      /\ IF handling = {}
         THEN frames' = <<>> /\ callPc' = "ended" /\ UNCHANGED tidy
         ELSE /\ frames' = SubSeq(fs, 1, k)
              /\ callPc' = "catch"
              /\ tidy' = (tidy /\ clean /\ k = Len(fs))

\* The parameters of f for the given arguments, by the rules of the language.
Parameters(f, args) ==
  [i \in 1 .. Sig[f].arity |->
     IF Sig[f].is_variadic /\ i = Sig[f].arity THEN List(SubSeq(args, i, Len(args)))
     ELSE IF i <= Len(args) THEN args[i]
     ELSE NilValue]

\* Faulty: the list takes the place of one argument less.
PackedShort(st, n, sig) ==
  LET start == n - sig.arity
  IN  Append(PopN(st, IF start > 0 THEN start ELSE start + 1),
             List(SubSeq(st, Len(st) - start, Len(st))))

\* The arguments from the last parameter on become a list: it is pushed,
\* filled with the start + 1 values below it, popped with them, and pushed.
Packed(st, n, sig) ==
  LET start == n - sig.arity
  IN  Append(PopN(st, start + 1), List(SubSeq(st, Len(st) - start, Len(st))))

\* call, first half: missing arguments are nil, those for ... a list.
Filled(st, n, sig) ==
  IF ~ sig.is_variadic THEN st \o [i \in 1 .. sig.arity - n |-> NilValue]
  ELSE IF n >= sig.arity - 1 THEN Packed(st, n, sig)
  ELSE st

\* arg_count after it.
Count(n, sig) ==
  IF IF sig.is_variadic THEN n < sig.arity - 1 ELSE n > sig.arity
  THEN n ELSE sig.arity

FrameLeft(fs) == Len(fs) # MaxFrames

\* call, second half: n arguments and the callee's slot under them are on the
\* stack st.
Call(fs, st, m, n, via) ==
  LET sig == Sig[m.name]
      bound == Filled(st, n, sig)
      count == Count(n, sig)
  IN  /\ UNCHANGED gcProtected
      /\ IF count # sig.arity \/ ~ FrameLeft(fs)
         THEN Throw(fs, PopN(bound, count), TRUE)
         ELSE /\ stack' = bound
              /\ frames' = Append(fs,
                   [m |-> m, slots |-> Len(bound) - count - 1, try |-> FALSE,
                    via |-> via,
                    locals |-> <<st[Len(st) - n]>>
                                 \o Parameters(m.name, SubSeq(st, Len(st) - n + 1, Len(st)))])
              /\ UNCHANGED <<callPc, tidy>>

\* call_native_method with GC in the function called.  An error pops as many
\* values as there are arguments, whatever they are, and the callee's slot
\* is set to false once the exception is on its way (RETURN_ERROR); only a
\* function that succeeds gets its protected objects popped, with all that
\* gc_protected counts (CLEAR_GC).
CallNative(fs, st, native, n) ==
  LET protected == gcProtected + native.protects
      slot == Len(st) - n
      called == [st EXCEPT ![slot] = IF native.fails THEN False ELSE NativeResult]
                  \o [i \in 1 .. native.protects |-> Protected]
  IN  IF native.fails
      THEN /\ gcProtected' = protected
           /\ Throw(fs, PopN(called, n), native.protects = 0)
      ELSE /\ stack' = PopN(called, protected + n)
           /\ gcProtected' = 0
           /\ frames' = Finished(fs, NativeResult)
           /\ UNCHANGED <<callPc, tidy>>

\* An error found before the arguments are popped: they stay.
Refuse(fs, st, n) == Throw(fs, st, n = 0) /\ UNCHANGED gcProtected

\* call_value of a class: the slot of the class is taken by the instance.  Of
\* the inherited constructors only that of the superclass itself is looked
\* for.
Construct(fs, st, c, n) ==
  LET made == [st EXCEPT ![Len(st) - n] = Instance(c)]
      inherited == IF c = 1 THEN {} ELSE Initializer(c - 1)
  IN  IF Initializer(c) # {}
      THEN \E m \in Initializer(c) : Call(fs, made, m, n, "new")
      ELSE IF inherited # {}
      THEN \E m \in inherited : Call(fs, made, m, n, "new")
      ELSE IF n # 0
      THEN Refuse(fs, made, n)
      ELSE /\ stack' = made
           /\ frames' = Finished(fs, Instance(c))
           /\ UNCHANGED <<gcProtected, callPc, tidy>>

\* call_value.  A module is called by the function it has of its own name
\* (one that has none is not modelled: the code reads it as a closure).
CallValue(fs, st, v, n, via) ==
  CASE v.k = "bound"   -> Call(fs, [st EXCEPT ![Len(st) - n] = Instance(v.c)], v.m, n, "bound")
    [] v.k = "class"   -> Construct(fs, st, v.c, n)
    [] v.k \in {"closure", "module"} -> Call(fs, st, v.m, n, via)
    [] v.k = "native"  -> CallNative(fs, st, v.n, n)
    [] OTHER           -> Refuse(fs, st, n)
------------------------------------------------------------------------------
(* Method calls: the receiver is under the n arguments on the stack st *)

Receiver(st, n) == st[Len(st) - n]
Named(table, name) == {m \in table : m.name = name}

\* Faulty: private methods can be called by everyone.
InvokeFromClassAny(fs, st, found, n, via) ==
  IF found = {}
  THEN Refuse(fs, st, n)
  ELSE \E m \in found : Call(fs, st, m, n, via)

\* invoke_from_class, with what klass->methods has under the name.
InvokeFromClass(fs, st, found, n, via) ==
  IF found = {} \/ \E m \in found : m.name \in Private
  THEN Refuse(fs, st, n)
  ELSE \E m \in found : Call(fs, st, m, n, via)

\* A field takes the slot of the receiver.
CallField(fs, st, m, n) ==
  Call(fs, [st EXCEPT ![Len(st) - n] = Closure(m)], m, n, "field")

\* invoke: o.name(...).  Of an instance the fields come first; static fields
\* are not inherited.
InvokeMethod(fs, st, name, n) ==
  LET o == Receiver(st, n)
  IN  CASE o.k = "instance" ->
             LET fields == Named(Table("fields")[o.c], name)
             IN  IF fields # {}
                 THEN \E m \in fields : CallField(fs, st, m, n)
                 ELSE InvokeFromClass(fs, st, Named(Table("methods")[o.c], name), n, "invoke")
        [] o.k = "class" ->
             LET methods == Named(Table("methods")[o.c], name)
                 statics == Named(Own(o.c, "statics"), name)
             IN  IF methods = {} /\ statics # {}
                 THEN \E m \in statics : Call(fs, st, m, n, "field")
                 ELSE InvokeFromClass(fs, st, methods, n, "class")
        [] o.k = "module" ->
             IF name \notin Functions \/ name \in Private
             THEN Refuse(fs, st, n)
             ELSE Call(fs, st, Function(name), n, "invoke")
        [] o.k = "list" /\ \E f \in Natives : f.name = name ->
             \E f \in Natives : f.name = name /\ CallNative(fs, st, f, n)
        [] OTHER -> Refuse(fs, st, n)

\* invoke_self: self.name(...).  The methods come first, private ones too.
InvokeSelfMethod(fs, st, name, n) ==
  LET o == Receiver(st, n)
      methods == Named(Table("methods")[o.c], name)
      fields == Named(Table("fields")[o.c], name)
  IN  IF o.k = "instance" /\ methods # {}
      THEN \E m \in methods : Call(fs, st, m, n, "self")
      ELSE IF o.k = "instance" /\ fields # {}
      THEN \E m \in fields : CallField(fs, st, m, n)
      ELSE IF o.k = "class" /\ \E m \in methods : m.name \in Static
      THEN \E m \in methods : Call(fs, st, m, n, "self")
      ELSE Refuse(fs, st, n)
------------------------------------------------------------------------------
(* The instructions *)

\* A program is not followed further once an error has left values behind.
Room == callPc = "run" /\ tidy /\ Len(stack) < MaxStack

\* The values a program calls or calls methods of.
Callees ==
  {Closure(Function(f)) : f \in Functions} \cup {Native(f) : f \in Natives}
    \cup {ClassValue(c) : c \in Classes} \cup {Module(Function(f)) : f \in Mains}
    \cup {NilValue}

Receivers ==
  {Instance(c) : c \in Classes} \cup {ClassValue(c) : c \in Classes}
    \cup {Module(Function(f)) : f \in Mains} \cup {List(<<>>), NilValue}

\* Any name the program may call: of functions, methods, fields or natives.
Names == (DOMAIN Sig \ {"ctor"}) \cup {f.name : f \in Natives}

\* OP_CALL
CallOp(v, args, try) ==
  /\ Room
  /\ CallValue(Calling(try), stack \o <<v>> \o args, v, Len(args), "call")
  /\ UNCHANGED body

\* OP_GET_PROPERTY with bind_method, then OP_CALL: (o.name)(...).  An error of
\* OP_GET_PROPERTY that goes to a handler of another frame is not a matter of
\* calls (see Machine).
CallProperty(c, name, args, try) ==
  LET fields == Named(Table("fields")[c], name)
      methods == Named(Table("methods")[c], name)
      st == Append(stack, Instance(c))
      value == IF fields # {} THEN Closure(CHOOSE m \in fields : TRUE)
               ELSE Bound(c, CHOOSE m \in methods : TRUE)
  IN  /\ Room
      /\ IF name \in Private \/ fields \cup methods = {}
         THEN /\ try \/ \A f \in 1 .. Len(frames) : ~ frames[f].try
              /\ Refuse(Calling(try), st, 0)
         ELSE CallValue(Calling(try), stack \o <<value>> \o args, value, Len(args), "field")
      /\ UNCHANGED body

\* OP_INVOKE
Invoke(o, name, args, try) ==
  /\ Room
  /\ InvokeMethod(Calling(try), stack \o <<o>> \o args, name, Len(args))
  /\ UNCHANGED body

InMethod == Top.m.owner # 0 /\ Top.via # "field"

\* OP_INVOKE_SELF, on the value of self, which is in slot 0.
InvokeSelf(name, args, try) ==
  /\ Room /\ InMethod
  /\ InvokeSelfMethod(Calling(try), stack \o <<SlotValue(0)>> \o args, name, Len(args))
  /\ UNCHANGED body

\* OP_SUPER_INVOKE: parent.name(...), parent being the superclass of the class
\* the method is declared in.
SuperInvoke(name, args, try) ==
  /\ Room /\ InMethod /\ Top.m.owner > 1
  /\ InvokeFromClass(Calling(try), stack \o <<SlotValue(0)>> \o args,
                     Named(Table("methods")[Top.m.owner - 1], name), Len(args), "super")
  /\ UNCHANGED body

\* OP_SUPER_INVOKE_SELF: parent(...)
SuperInvokeSelf(args, try) ==
  /\ Room /\ InMethod /\ Top.m.owner > 1
  /\ InvokeFromClass(Calling(try), stack \o <<SlotValue(0)>> \o args,
                     Initializer(Top.m.owner - 1), Len(args), "super")
  /\ UNCHANGED body

\* The first instructions of a catch block: the exception is stored in the
\* slot of its variable, and popped.
Catch ==
  /\ callPc = "catch"
  /\ stack' = PopN([stack EXCEPT ![Top.slots + Len(Top.locals) + 1] = Exception], 1)
  /\ frames' = Finished(frames, Exception)
  /\ callPc' = "run"
  /\ UNCHANGED <<body, gcProtected, tidy>>

\* OP_POP, the end of the scope of a variable.
EndScope ==
  /\ callPc = "run" /\ Len(Top.locals) > 1 + (IF Len(frames) = 1 THEN 0 ELSE Sig[Top.m.name].arity)
  /\ stack' = PopN(stack, 1)
  /\ frames' = [frames EXCEPT ![Len(frames)].locals = PopN(@, 1)]
  /\ UNCHANGED <<body, gcProtected, callPc, tidy>>

\* OP_RETURN with the value of a variable; a constructor returns self
\* (emit_return).
Return(i) ==
  /\ callPc = "run" /\ Len(frames) > 1 /\ i < Len(Top.locals)
  /\ Top.m.name = "ctor" => i = 0
  /\ stack' = Append(Keep(stack, Top.slots), SlotValue(i))
  /\ frames' = Finished(PopN(frames, 1), Top.locals[i + 1])
  /\ UNCHANGED <<body, gcProtected, callPc, tidy>>

\* OP_RETURN at the end of the script.
ReturnLast ==
  /\ callPc = "run" /\ Len(frames) = 1 /\ Len(Top.locals) = 1
  /\ stack' = PopN(stack, 1) /\ frames' = <<>> /\ callPc' = "ended"
  /\ UNCHANGED <<body, gcProtected, tidy>>

Script == [name |-> "script", owner |-> 0]

CallsInit ==
  /\ body \in Worlds
  /\ stack = <<Closure(Script)>>
  /\ frames = <<[m |-> Script, slots |-> 0, try |-> FALSE, via |-> "call",
                 locals |-> <<Closure(Script)>>]>>
  /\ gcProtected = 0 /\ callPc = "run" /\ tidy = TRUE

CallsNext ==
  \/ \E args \in Arguments, try \in BOOLEAN :
       \/ \E v \in Callees : CallOp(v, args, try)
       \/ \E c \in Classes, name \in Names : CallProperty(c, name, args, try)
       \/ \E o \in Receivers, name \in Names : Invoke(o, name, args, try)
       \/ \E name \in Names : InvokeSelf(name, args, try) \/ SuperInvoke(name, args, try)
       \/ SuperInvokeSelf(args, try)
  \/ Catch \/ EndScope \/ ReturnLast
  \/ \E i \in 0 .. Len(stack) : Return(i)

CallsSpec == CallsInit /\ [][CallsNext]_callVars
------------------------------------------------------------------------------
(* Properties *)

CallsTypeOK ==
  /\ body \in Worlds /\ OfValues(stack)
  /\ Len(frames) <= MaxFrames
  /\ \A i \in 1 .. Len(frames) : frames[i].try \in BOOLEAN /\ OfValues(frames[i].locals)
  /\ gcProtected \in Nat
  /\ callPc \in {"run", "catch", "ended"} /\ tidy \in BOOLEAN
  /\ callPc # "ended" <=> frames # <<>>

\* Where the variables of frame f end on the stack.
EndOf(f) == f.slots + Len(f.locals)

\* The variables of the frames fs are on the stack st, in this order.
Laid(fs, st) ==
  \A i \in 1 .. Len(fs) :
    /\ EndOf(fs[i]) <= Len(st)
    /\ \A j \in 1 .. Len(fs[i].locals) : st[fs[i].slots + j] = fs[i].locals[j]
    /\ fs[i].slots = IF i = 1 THEN 0 ELSE EndOf(fs[i - 1])

\* The running functions have their variables on the stack, one function after
\* the other, each variable at the place the compiler expects and with the
\* value the language gives it: arguments, nil for a missing one, the list for
\* the rest, self, results, caught exceptions.  Between two instructions there
\* is nothing else on the stack, as long as every error that was caught was
\* raised in the function that catches it, before the callee ran, with its
\* arguments popped (call, natives that protect nothing) or without any (the
\* refusals of call_value and invoke).
StackIsFrames ==
  /\ CallsTypeOK /\ Laid(frames, stack)
  /\ tidy /\ callPc = "run" => Len(stack) = EndOf(Top)

\* The class nearest to c, from c upwards, that declares a method.
Nearest(c, name) ==
  LET owners == {d \in 1 .. c : name \in body[d].methods}
  IN  CHOOSE d \in owners : \A e \in owners : e <= d

Self(i) == stack[frames[i].slots + 1]

\* The method that runs is the one nearest to the class of self, although the
\* tables are flat copies made at OP_INHERIT; after parent. it is the one
\* nearest to the superclass of the class whose method says so, whatever the
\* class of self; a constructor is one of the class made, or of its superclass.
RunsNearest ==
  \A i \in 2 .. Len(frames) :
    LET m == frames[i].m
    IN  /\ frames[i].via \in {"invoke", "class", "self", "bound"} /\ m.owner # 0 =>
             m.owner = Nearest(Self(i).c, m.name)
        /\ frames[i].via = "super" =>
             /\ m.owner = Nearest(frames[i - 1].m.owner - 1, m.name)
             /\ Self(i) = Self(i - 1)
        /\ frames[i].via = "new" => Self(i).k = "instance" /\ m.owner \in {Self(i).c, Self(i).c - 1}

\* A private method runs only for a method of the same object: no call from
\* outside, through a bound method, through parent or through the class comes
\* to it.
PrivateInside ==
  \A i \in 2 .. Len(frames) :
    frames[i].m.name \in Private /\ frames[i].m.owner # 0 /\ frames[i].via # "field" =>
      /\ frames[i - 1].m.owner # 0
      /\ Self(i) = Self(i - 1)

\* "the call to CLEAR_GC() will be automatic for native functions": no object
\* stays protected once a native function is over.
ProtectionCleared == callPc = "run" => gcProtected = 0
==============================================================================
