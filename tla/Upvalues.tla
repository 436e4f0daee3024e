------------------------------ MODULE Upvalues ------------------------------
(***************************************************************************)
(* Closures and the variables they capture (vm.c: capture_up_value,        *)
(* close_up_values and the instructions that use them).  A captured local  *)
(* lives on the stack as long as its scope; the up value that closures     *)
(* hold points at its slot.  When the scope or the call ends, the value    *)
(* moves into the up value.  The open up values form a list, in descending *)
(* order of their slots, in which a capture looks for the slot.            *)
(*                                                                         *)
(* What it is all for is stated with three history variables: names, which *)
(* variable each slot holds; val, the value last given to each variable;   *)
(* refs, which variable each up value was captured for.  No action depends *)
(* on them except in choosing the name of a new variable, and in what the  *)
(* compiler knows (PopLocal).                                              *)
(***************************************************************************)
EXTENDS Integers, Sequences

CONSTANTS
    Value,      \* values of variables
    Up,         \* up value objects
    Variable,   \* names for the variables of the history
    MaxStack,   \* bound on the stack (STACK_MAX)
    MaxFrames   \* bound on the calls (FRAMES_MAX)

ASSUME StackAssumption == MaxStack \in Nat /\ MaxFrames \in Nat

VARIABLES
    stack,     \* vm->stack up to stack_top
    frames,    \* the slots of each call frame: the index of its first slot
    open,      \* vm->open_up_values, a list
    location,  \* of each up value: a slot, or Closed (its own field), or
               \*   Unused if it is not allocated
    closed,    \* the field closed of each up value
    names, val, refs

heap == <<open, location, closed>>
history == <<names, val, refs>>
vars == <<stack, frames, heap, history>>

Closed == 0
Unused == -1

Top == Len(stack)
Base == frames[Len(frames)]

\* *up_value->location.
Read(u) == IF location[u] = Closed THEN closed[u] ELSE stack[location[u]]

\* A name that no slot and no closure uses.
NewName(x) ==
    /\ \A i \in 1 .. Len(names) : names[i] # x
    /\ \A r \in refs : r.of # x

Init ==
    /\ \E v \in Value, x \in Variable :
           /\ stack = <<v>>
           /\ names = <<x>>
           /\ val = [y \in Variable |-> v]
    /\ frames = <<1>>
    /\ open = <<>>
    /\ location = [u \in Up |-> Unused]
    /\ closed \in [Up -> Value]
    /\ refs = {}

\* A value is pushed: the compiler may make it a local variable.
Declare(v, x) ==
    /\ Top < MaxStack
    /\ NewName(x)
    /\ stack' = Append(stack, v)
    /\ names' = Append(names, x)
    /\ val' = [val EXCEPT ![x] = v]
    /\ UNCHANGED <<frames, heap, refs>>

\* OP_SET_LOCAL.
SetLocal(i, v) ==
    /\ stack' = [stack EXCEPT ![i] = v]
    /\ val' = [val EXCEPT ![names[i]] = v]
    /\ UNCHANGED <<frames, heap, names, refs>>

\* OP_SET_UP_VALUE, by a closure that captured the variable r.of.
SetUpValue(r, v) ==
    /\ r \in refs
    /\ IF location[r.up] = Closed
       THEN closed' = [closed EXCEPT ![r.up] = v] /\ UNCHANGED stack
       ELSE stack' = [stack EXCEPT ![location[r.up]] = v] /\ UNCHANGED closed
    /\ val' = [val EXCEPT ![r.of] = v]
    /\ UNCHANGED <<frames, open, location, names, refs>>

\* The loop of capture_up_value: p is the first place of the list whose up
\* value is not above the slot i, or the place behind the list.
WalksTo(i, p) ==
    /\ \A k \in 1 .. p - 1 : location[open[k]] > i
    /\ p <= Len(open) => location[open[p]] <= i

\* capture_up_value, for OP_CLOSURE: the slot has an up value already.
CaptureAgain(i, p) ==
    /\ WalksTo(i, p)
    /\ p <= Len(open)
    /\ location[open[p]] = i
    /\ refs' = refs \cup {[up |-> open[p], of |-> names[i]]}
    /\ UNCHANGED <<stack, frames, heap, names, val>>

\* Faulty: the new up value is put at the head of the list.
InsertedFirst(p, u) == <<u>> \o open

\* The list with u inserted at place p.
Inserted(p, u) ==
    [k \in 1 .. Len(open) + 1 |->
        IF k < p THEN open[k] ELSE IF k = p THEN u ELSE open[k - 1]]

\* capture_up_value: a new up value is put into the list.
CaptureNew(i, p, u) ==
    /\ WalksTo(i, p)
    /\ p <= Len(open) => location[open[p]] # i
    /\ location[u] = Unused
    /\ open' = Inserted(p, u)
    /\ location' = [location EXCEPT ![u] = i]
    /\ refs' = refs \cup {[up |-> u, of |-> names[i]]}
    /\ UNCHANGED <<stack, frames, closed, names, val>>

\* Faulty: the value stays on the stack.
CloseUpValuesNoCopy(last, n) ==
    LET closing == {open[k] : k \in 1 .. n}
    IN  /\ \A k \in 1 .. n : location[open[k]] >= last
        /\ n < Len(open) => location[open[n + 1]] < last
        /\ open' = [k \in 1 .. Len(open) - n |-> open[k + n]]
        /\ location' = [u \in Up |-> IF u \in closing THEN Closed ELSE location[u]]
        /\ UNCHANGED closed

\* close_up_values(last): the first n of the list are those at last or above.
CloseUpValues(last, n) ==
    LET closing == {open[k] : k \in 1 .. n}
    IN  /\ \A k \in 1 .. n : location[open[k]] >= last
        /\ n < Len(open) => location[open[n + 1]] < last
        /\ open' = [k \in 1 .. Len(open) - n |-> open[k + n]]
        /\ location' = [u \in Up |-> IF u \in closing THEN Closed ELSE location[u]]
        /\ closed' = [u \in Up |-> IF u \in closing THEN stack[location[u]]
                                                    ELSE closed[u]]

\* OP_POP at the end of the scope of a variable that no closure captures:
\* the compiler has not seen a capture of it (is_captured).
PopLocal ==
    /\ Top > Base
    /\ \A r \in refs : r.of # names[Top]
    /\ stack' = SubSeq(stack, 1, Top - 1)
    /\ names' = SubSeq(names, 1, Top - 1)
    /\ UNCHANGED <<frames, heap, val, refs>>

\* OP_CLOSE_UP_VALUE at the end of the scope of a captured variable.
CloseScope(n) ==
    /\ Top > Base
    /\ CloseUpValues(Top, n)
    /\ stack' = SubSeq(stack, 1, Top - 1)
    /\ names' = SubSeq(names, 1, Top - 1)
    /\ UNCHANGED <<frames, val, refs>>

\* call: the callee, on top of the stack, is in the first slot of the frame.
Call ==
    /\ Len(frames) < MaxFrames
    /\ frames' = Append(frames, Top)
    /\ UNCHANGED <<stack, heap, history>>

\* OP_RETURN: the frame's slots give way to the result.
Return(n, v, x) ==
    /\ Len(frames) > 1
    /\ NewName(x)
    /\ CloseUpValues(Base, n)
    /\ stack' = Append(SubSeq(stack, 1, Base - 1), v)
    /\ names' = Append(SubSeq(names, 1, Base - 1), x)
    /\ val' = [val EXCEPT ![x] = v]
    /\ frames' = SubSeq(frames, 1, Len(frames) - 1)
    /\ UNCHANGED refs

\* The collector frees a closed up value with the closures that hold it.
Forget(u) ==
    /\ location[u] = Closed
    /\ location' = [location EXCEPT ![u] = Unused]
    /\ refs' = {r \in refs : r.up # u}
    /\ UNCHANGED <<stack, frames, open, closed, names, val>>

Next ==
    \/ \E v \in Value, x \in Variable : Declare(v, x)
    \/ \E i \in Base .. Top, v \in Value : SetLocal(i, v)
    \/ \E r \in refs, v \in Value : SetUpValue(r, v)
    \/ \E i \in Base .. Top, p \in 1 .. Len(open) + 1 : CaptureAgain(i, p)
    \/ \E i \in Base .. Top, p \in 1 .. Len(open) + 1, u \in Up : CaptureNew(i, p, u)
    \/ PopLocal
    \/ \E n \in 0 .. Len(open) : CloseScope(n)
    \/ Call
    \/ \E n \in 0 .. Len(open), v \in Value, x \in Variable : Return(n, v, x)
    \/ \E u \in Up : Forget(u)

Spec == Init /\ [][Next]_vars
-----------------------------------------------------------------------------
TypeOK ==
    /\ stack \in Seq(Value)
    /\ names \in Seq(Variable) /\ Len(names) = Len(stack)
    /\ frames \in Seq(Nat \ {0}) /\ Len(frames) > 0
    /\ open \in Seq(Up)
    /\ location \in [Up -> Int]
    /\ closed \in [Up -> Value]
    /\ val \in [Variable -> Value]
    /\ refs \subseteq [up : Up, of : Variable]

\* A variable has one value, whoever assigns and whoever reads it: a closure
\* sees the variable it captured, assigned by the function that declared it
\* or by any closure, before or after its scope ended (OP_GET_UP_VALUE); a
\* function sees its locals as closures assigned them (OP_GET_LOCAL).
SeesVariable ==
    /\ \A r \in refs : location[r.up] # Unused /\ Read(r.up) = val[r.of]
    /\ \A i \in 1 .. Top : stack[i] = val[names[i]]

\* Closures share a variable exactly if they share its up value: a slot has
\* one up value at a time, and an up value never serves two variables.
OneUpValueEach ==
    \A r, s \in refs : (r.up = s.up) <=> (r.of = s.of)

\* The list holds exactly the up values that point into the stack, highest
\* slot first and each slot once, and none points above the top: on this the
\* loops of capture_up_value and close_up_values rely.
OpenListExact ==
    /\ \A j, k \in 1 .. Len(open) : j < k => location[open[j]] > location[open[k]]
    /\ \A u \in Up : location[u] > 0 <=> \E k \in 1 .. Len(open) : open[k] = u
    /\ \A u \in Up : location[u] \in Unused .. Top
(***************************************************************************)
(* The inductive invariant.  An open up value's slot holds the variable it *)
(* was captured for; a closed one holds the value of a variable that no    *)
(* slot holds any more; an open one was captured for some variable; no two *)
(* slots hold the same variable; the frames' first slots ascend.           *)
(***************************************************************************)
RefsPlaced ==
    \A r \in refs :
        /\ location[r.up] # Unused
        /\ location[r.up] > 0 => names[location[r.up]] = r.of
        /\ location[r.up] = Closed =>
               /\ closed[r.up] = val[r.of]
               /\ \A i \in 1 .. Top : names[i] # r.of

OpenUsed == \A u \in Up : location[u] > 0 => \E r \in refs : r.up = u

StackNamed ==
    /\ \A i, j \in 1 .. Top : names[i] = names[j] => i = j
    /\ \A i \in 1 .. Top : stack[i] = val[names[i]]

FramesNested ==
    /\ \A j, k \in 1 .. Len(frames) : j <= k => frames[j] <= frames[k]
    /\ Base <= Top

\* What capture_up_value and close_up_values keep between them: the list of
\* open up values is exact, and every up value is where its variable is.
IInv ==
    /\ TypeOK /\ OpenListExact /\ OneUpValueEach
    /\ RefsPlaced /\ OpenUsed /\ StackNamed /\ FramesNested
=============================================================================
