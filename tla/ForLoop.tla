------------------------------ MODULE ForLoop -------------------------------
(***************************************************************************)
(* for x in iterable { ... }, as for_statement of compiler.c compiles it,  *)
(* with a body that makes closures over x.  The loop declares three locals *)
(* in a scope around all of its turns: the iterator, the key, the value.   *)
(* Each turn assigns the key and the value; the body has a scope of its    *)
(* own, in which the loop declares nothing.                                *)
(***************************************************************************)
EXTENDS Upvalues

VARIABLES
    state,  \* next: the loop is about to ask @itern; body; done
    made    \* the closures over x: their up value and the item of their turn

forVars == <<vars, state, made>>

\* Behind the function's own slot: iterator, key, value (value_slot).
KeySlot == 3
ValueSlot == 4

\* The iterator and two nils have been pushed and declared.
ForInit ==
    /\ \E nil \in Value, x \in [1 .. 4 -> Variable] :
           /\ stack = [i \in 1 .. 4 |-> nil]
           /\ \A i, j \in 1 .. 4 : x[i] = x[j] => i = j
           /\ names = x
           /\ val = [y \in Variable |-> nil]
           /\ closed = [u \in Up |-> nil]
    /\ frames = <<1>>
    /\ open = <<>>
    /\ location = [u \in Up |-> Unused]
    /\ refs = {}
    /\ state = "next"
    /\ made = {}

\* @itern gave a key and @iter an item: both are assigned.
Turn(key, item) ==
    /\ state = "next"
    /\ state' = "body"
    /\ stack' = [stack EXCEPT ![KeySlot] = key, ![ValueSlot] = item]
    /\ val' = [val EXCEPT ![names[KeySlot]] = key, ![names[ValueSlot]] = item]
    /\ UNCHANGED <<frames, heap, names, refs, made>>

\* The body makes a closure over x.
MakeClosure(p, u) ==
    /\ state = "body"
    /\ \/ CaptureAgain(ValueSlot, p) /\ u = open[p]
       \/ CaptureNew(ValueSlot, p, u)
    /\ made' = made \cup {[up |-> u, item |-> stack[ValueSlot]]}
    /\ UNCHANGED state

\* The end of the body's scope, and the jump back.
EndBody ==
    /\ state = "body"
    /\ state' = "next"
    /\ UNCHANGED <<vars, made>>

\* @itern gave a false value: the loop's scope ends, x first.
EndFor(n) ==
    /\ state = "next"
    /\ state' = "done"
    /\ CloseUpValues(2, n)
    /\ stack' = SubSeq(stack, 1, 1)
    /\ names' = SubSeq(names, 1, 1)
    /\ UNCHANGED <<frames, val, refs, made>>

ForNext ==
    \/ \E key, item \in Value : Turn(key, item)
    \/ \E p \in 1 .. Len(open) + 1, u \in Up : MakeClosure(p, u)
    \/ EndBody
    \/ \E n \in 0 .. Len(open) : EndFor(n)

ForSpec == ForInit /\ [][ForNext]_forVars

\* "This ensures we get a fresh variable each iteration so that closures for it
\* don't all see the same one" (compiler.c, for_statement): a closure over x
\* sees the item of the turn in which it was made, as no body assigns x.
FreshEachIteration == \A m \in made : Read(m.up) = m.item
=============================================================================
