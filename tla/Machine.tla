------------------------------ MODULE Machine -------------------------------
(***************************************************************************)
(* The bytecode loop of the virtual machine (run in vm.c) for the          *)
(* instructions that Statements.tla emits: calls and returns, the value    *)
(* stack, exceptions.                                                      *)
(*                                                                         *)
(* Three things of the code shape the model.  The frames are an array that *)
(* outlives the calls: call sets closure, ip and slots of a frame and      *)
(* leaves its handlers as the last user of the frame left them.            *)
(* propagate_exception moves frame_count to the frame with the handler and *)
(* leaves stack_top and the run loop's own variable frame alone; only some *)
(* instructions refresh that variable afterwards.  And a handler catches   *)
(* every exception: OP_TRY looks the class of a catch up in vm->globals,   *)
(* whose only class is Exception.                                          *)
(***************************************************************************)
EXTENDS Bytecode, FiniteSetsExt

CONSTANTS
    Images,       \* the compiled programs that may be run
    Wild,         \* others, known to confuse the machine: only TypeOK is
                  \*   claimed of them
    MaxFrames,    \* FRAMES_MAX
    MaxStack      \* STACK_MAX

ASSUME BoundsAssumption ==
    /\ MaxFrames \in Nat \ {0} /\ MaxHandlers \in Nat \ {0}
    /\ MaxStack \in Nat \ {0}

ASSUME ImagesAssumption == \A u \in Images \cup Wild : WellFormed(u)

VARIABLES
    units,       \* the compiled functions of the program
    frames,      \* vm->frames; the field pending is not in the code: how many
                 \*   finally blocks of the frame have an exception to publish
    frameCount,  \* vm->frame_count
    frame,       \* the local variable frame of run, as an index
    stack,       \* vm->stack
    top,         \* vm->stack_top, as an index
    status       \* running, or how run ended; undefined: the next
                 \*   instruction has no defined outcome

vars == <<units, frames, frameCount, frame, stack, top, status>>

Frames == 0 .. MaxFrames - 1
Slots == 0 .. MaxStack - 1

NoHandler == [address |-> 0, finally |-> 0]

FreshFrame == [fn |-> "script", ip |-> 1, slots |-> 0, handlersCount |-> 0,
               handlers |-> [i \in 1 .. MaxHandlers |-> NoHandler],
               pending |-> 0]

\* interpret: the closure of the script is pushed and called.  The virtual
\* machine is one large block of fresh, hence zero, memory.
Init ==
    /\ units \in Images \cup Wild
    /\ frames = [i \in Frames |-> FreshFrame]
    /\ frameCount = 1
    /\ frame = 0
    /\ stack = [i \in Slots |-> IF i = 0 THEN "script" ELSE "nil"]
    /\ top = 1
    /\ status = "running"

Running == frames[frame]
Code == units[Running.fn].code
Current == Code[Running.ip]

\* The frames after the instruction has been read.
Read == [frames EXCEPT ![frame].ip = @ + 1]

\* The instruction to be executed is one of ops, and stays within the arrays.
Peeks == {"POP", "SET_LOCAL", "JUMP_IF_FALSE", "CALL", "DIE", "FAIL",
          "PUBLISH_TRY", "RETURN", "SWITCH"}

Defined ==
    /\ Running.ip \in DOMAIN Code
    /\ top + 2 <= MaxStack
    /\ Current.op \in Peeks => top > 0
    /\ Current.op = "INVOKE" => top > 1
    /\ Current.op = "TRY" => Running.handlersCount >= 0
    /\ Current.op \in {"DIE", "PUBLISH_TRY"} => stack[top - 1] = "exception"

Executes(op) == status = "running" /\ Defined /\ Current.op = op

Peek == stack[top - 1]

Push(v) == stack' = [stack EXCEPT ![top] = v] /\ top' = top + 1

\* is_false, for the values of the model.
IsFalse(v) == v \in {"false", "nil", "empty"}

(***************************************************************************)
(* propagate_exception: with the frames f, the stack st and its top t, the *)
(* exception goes to the top handler of the highest frame that has one, as *)
(* every handler has a catch or a finally block; n is the value of frame   *)
(* in run afterwards, or Refreshed for the frame with the handler.         *)
(***************************************************************************)
Refreshed == -1

Propagate(f, st, t, n) ==
    LET handling == {i \in 0 .. frameCount - 1 : f[i].handlersCount > 0}
        k == Max(handling)
        handler == f[k].handlers[f[k].handlersCount]
        catches == handler.address # 0
    IN  IF handling = {}
        THEN /\ status' = "error"
             /\ frameCount' = 0
             /\ UNCHANGED <<frames, frame, stack, top>>
        ELSE /\ frameCount' = k + 1
             /\ frame' = IF n = Refreshed THEN k ELSE n
             /\ frames' = [f EXCEPT ![k].ip = IF catches THEN handler.address
                                                         ELSE handler.finally,
                                    ![k].pending = IF catches THEN @ ELSE @ + 1]
             /\ stack' = IF catches THEN st ELSE [st EXCEPT ![t] = "true"]
             /\ top' = IF catches THEN t ELSE t + 1
             /\ UNCHANGED status

\* do_throw_exception: a new exception is pushed and propagated.
ThrowException(n) ==
    Propagate(Read, [stack EXCEPT ![top] = "exception"], top + 1, n)
-----------------------------------------------------------------------------
(***************************************************************************)
(* The instructions.                                                       *)
(***************************************************************************)
Proceeds == frames' = Read /\ UNCHANGED <<units, frameCount, frame, status>>

\* Constants, globals and closures.
PushValue ==
    /\ \/ Executes("PUSH") \/ Executes("GET_GLOBAL") \/ Executes("CLOSURE")
    /\ Push(Current.n)
    /\ Proceeds

\* A loop's condition: either value.
Condition ==
    /\ Executes("CONDITION")
    /\ \E v \in {"true", "false"} : Push(v)
    /\ Proceeds

Pop ==
    /\ Executes("POP")
    /\ top' = top - 1
    /\ Proceeds
    /\ UNCHANGED stack

GetLocal ==
    /\ Executes("GET_LOCAL")
    /\ Push(stack[Running.slots + Current.a])
    /\ Proceeds

SetLocal ==
    /\ Executes("SET_LOCAL")
    /\ stack' = [stack EXCEPT ![Running.slots + Current.a] = Peek]
    /\ Proceeds
    /\ UNCHANGED top

JumpTo(a) ==
    /\ frames' = [frames EXCEPT ![frame].ip = a]
    /\ UNCHANGED <<units, frameCount, frame, stack, top, status>>

Jump ==
    /\ \/ Executes("JUMP") \/ Executes("LOOP")
    /\ JumpTo(Current.a)

JumpIfFalse ==
    /\ Executes("JUMP_IF_FALSE")
    /\ JumpTo(IF IsFalse(Peek) THEN Current.a ELSE Running.ip + 1)

\* OP_SWITCH: to the case the value on top of the stack selects.
Switch ==
    /\ Executes("SWITCH")
    /\ \E a \in Current.t : frames' = [frames EXCEPT ![frame].ip = a]
    /\ top' = top - 1
    /\ UNCHANGED <<units, frameCount, frame, stack, status>>

\* OP_INVOKE of @iter or @itern of a list: the iterator and the key are
\* replaced by the answer, which ends the loop if it is false.
Invoke ==
    /\ Executes("INVOKE")
    /\ \E v \in {Current.n} \cup (IF Current.a = 1 THEN {"false"} ELSE {}) :
          stack' = [stack EXCEPT ![top - 2] = v]
    /\ top' = top - 1
    /\ Proceeds

\* call: the next frame is taken, its handlers stay.  The field pending is
\* the model's and starts afresh.
CallFunction ==
    /\ Executes("CALL")
    /\ Peek \in DOMAIN units
    /\ frameCount < MaxFrames
    /\ frames' = [Read EXCEPT ![frameCount].fn = Peek, ![frameCount].ip = 1,
                              ![frameCount].slots = top - 1,
                              ![frameCount].pending = 0]
    /\ frameCount' = frameCount + 1
    /\ frame' = frameCount
    /\ UNCHANGED <<units, stack, top, status>>

\* call_value of a value that is no function, or call with no frame left.
CallFails ==
    /\ Executes("CALL")
    /\ Peek \notin DOMAIN units \/ frameCount = MaxFrames
    /\ ThrowException(Refreshed)
    /\ UNCHANGED units

\* OP_RETURN.
ReturnValue ==
    /\ Executes("RETURN")
    /\ frameCount' = frameCount - 1
    /\ IF frameCount = 1
       THEN /\ top' = top - 2
            /\ status' = "ok"
            /\ UNCHANGED <<frames, frame, stack>>
       ELSE /\ stack' = [stack EXCEPT ![Running.slots] = Peek]
            /\ top' = Running.slots + 1
            /\ frame' = frameCount - 2
            /\ frames' = Read
            /\ UNCHANGED status
    /\ UNCHANGED units

\* OP_DIE: the exception on top of the stack is propagated.
DieInstr ==
    /\ Executes("DIE")
    /\ Propagate(Read, stack, top, Refreshed)
    /\ UNCHANGED units

\* An instruction that ends in runtime_error, such as an index out of range
\* (list_get_index drops the index and leaves the list): frame is kept.
FailInstr ==
    /\ Executes("FAIL")
    /\ ThrowException(frame)
    /\ UNCHANGED units

\* Faulty: one handler too many.
TryInstrPastEnd ==
    /\ Executes("TRY")
    /\ Running.handlersCount <= MaxHandlers
    /\ frames' = [Read EXCEPT
           ![frame].handlersCount = @ + 1,
           ![frame].handlers = [i \in DOMAIN @ |->
               IF i = Running.handlersCount + 1
               THEN [address |-> Current.a, finally |-> Current.b] ELSE @[i]]]
    /\ UNCHANGED <<units, frameCount, frame, stack, top, status>>

\* OP_TRY and push_exception_handler.
TryInstr ==
    /\ Executes("TRY")
    /\ Running.handlersCount < MaxHandlers
    /\ frames' = [Read EXCEPT
           ![frame].handlersCount = @ + 1,
           ![frame].handlers[Running.handlersCount + 1] =
               [address |-> Current.a, finally |-> Current.b]]
    /\ UNCHANGED <<units, frameCount, frame, stack, top, status>>

\* _runtime_error resets the stack, and run ends at its next instruction.
TooManyHandlers ==
    /\ Executes("TRY")
    /\ Running.handlersCount = MaxHandlers
    /\ top' = 0
    /\ frameCount' = 0
    /\ status' = "error"
    /\ UNCHANGED <<units, frames, frame, stack>>

PopTry ==
    /\ Executes("POP_TRY")
    /\ frames' = [Read EXCEPT ![frame].handlersCount = @ - 1]
    /\ UNCHANGED <<units, frameCount, frame, stack, top, status>>

\* Faulty: the handler whose finally block has run stays.
PublishTryKeepsHandler ==
    /\ Executes("PUBLISH_TRY")
    /\ Propagate([Read EXCEPT ![frame].pending = @ - 1], stack, top, Refreshed)
    /\ UNCHANGED units

\* OP_PUBLISH_TRY, at the end of a finally block.
PublishTry ==
    /\ Executes("PUBLISH_TRY")
    /\ Propagate([Read EXCEPT ![frame].handlersCount = @ - 1,
                              ![frame].pending = @ - 1], stack, top, Refreshed)
    /\ UNCHANGED units

\* Not an instruction: the next one has no defined outcome.
Undefined ==
    /\ status = "running"
    /\ ~ Defined
    /\ status' = "undefined"
    /\ UNCHANGED <<units, frames, frameCount, frame, stack, top>>

Next ==
    \/ PushValue \/ Condition \/ Pop \/ GetLocal \/ SetLocal
    \/ Jump \/ JumpIfFalse \/ Switch \/ Invoke
    \/ CallFunction \/ CallFails \/ ReturnValue
    \/ DieInstr \/ FailInstr
    \/ TryInstr \/ TooManyHandlers \/ PopTry \/ PublishTry
    \/ Undefined

Spec == Init /\ [][Next]_vars

\* run is a loop that executes instruction after instruction.
FairSpec == Spec /\ WF_vars(Next)
-----------------------------------------------------------------------------
TypeOK ==
    /\ frames \in [Frames -> [fn : DOMAIN units, ip : Nat, slots : Slots,
                              handlersCount : Int, pending : Int,
                              handlers : [1 .. MaxHandlers ->
                                          [address : Nat, finally : Nat]]]]
    /\ \A i \in Frames : frames[i].handlersCount <= MaxHandlers
    /\ frameCount \in 0 .. MaxFrames
    /\ frame \in Frames
    /\ DOMAIN stack = Slots
    /\ top \in -1 .. MaxStack
    /\ status \in {"running", "ok", "error", "undefined"}
    /\ status = "running" => frameCount > 0

\* The program is not one of the wild ones.
Claimed == Images \ Wild
Tame == units \in Claimed

\* The statement the machine is about to begin, if it is about to begin one.
Marks == units[Running.fn].marks
AtStatement == status = "running" /\ Tame /\ Running.ip \in DOMAIN Marks
Expected == Marks[Running.ip]

\* A local variable is read from the slot that holds its value (a variable's
\* value is its own name): the compiler's idea of the stack, by which it
\* numbers the slots (compiler.c, add_local), agrees with the stack of run.
LocalsSeen ==
    status = "running" /\ Tame /\ Running.ip \in DOMAIN Code /\ Current.op = "GET_LOCAL"
        => stack[Running.slots + Current.a] = Current.n

\* Between statements a frame's part of the stack holds its declared locals
\* and the Boolean of each finally block it is in, and nothing else, whatever
\* jumps, calls and caught exceptions led there (a finally block entered by an
\* exception runs above it and the values of the statement that threw).
StackBalanced ==
    AtStatement /\ Running.pending = 0 => top - Running.slots = Expected.locals + Expected.finals

\* Between statements a frame has one handler for each try body it is in,
\* and one for each finally block that was entered by an exception; and the
\* compiler's limit on try statements is as strict as the machine's on
\* handlers: no program that compiles ends because OP_TRY finds no room
\* (push_exception_handler).
HandlersBalanced ==
    /\ AtStatement => Running.handlersCount = Expected.tries + Running.pending
    /\ status = "running" /\ Tame /\ Running.ip \in DOMAIN Code /\ Current.op = "TRY"
         => Running.handlersCount < MaxHandlers

\* What an exception has left never runs on.  A frame with an exception to
\* publish runs finally blocks only, not the code behind a try statement that
\* did not catch it; and propagate_exception drops the frames of the functions
\* it passes: the frame that runs is the top one.
NeverRunsOn ==
    /\ AtStatement /\ Running.pending > 0 => Expected.finals > 0
    /\ status = "running" /\ Tame => frame = frameCount - 1

\* The machine never leaves its arrays, and never takes another value for an
\* exception.
AlwaysDefined == status = "undefined" => ~ Tame

\* No function has a jump backwards.
LoopFree == \A f \in DOMAIN units : \A i \in DOMAIN units[f].code : units[f].code[i].op # "LOOP"

\* A program without loops comes to its end, however its exceptions and
\* finally blocks nest: a published exception (OP_PUBLISH_TRY) never finds the
\* handler whose finally block has just run.
Halts == []<>~ (status = "running" /\ Tame /\ LoopFree)
=============================================================================
