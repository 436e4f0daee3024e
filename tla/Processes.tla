----------------------------- MODULE Processes -------------------------------
(***************************************************************************)
(* The module process (libs/process.b over standard/process.c): a program  *)
(* forks children that run a function, waits for them, and shares a value  *)
(* with them in memory that all of them map.                               *)
(*                                                                         *)
(* Only the child writes its number to the Process object, and it writes   *)
(* to its own copy: with the program the number stays -1, which waitpid    *)
(* and kill take for any child and for every process.                      *)
(*                                                                         *)
(* The shared value is a format and the bytes it describes, copied in and  *)
(* out one after the other, and a flag that set tests before it copies.    *)
(* Nothing orders the steps of two processes.                              *)
(***************************************************************************)
EXTENDS Integers, FiniteSets

CONSTANTS Children,     \* the children there may be
          Values,       \* what is shared
          MaxOps,       \* calls on the shared value, per process
          Main, Nothing

\* The program is not one of its children.
ASSUME ProcessesAssumption == Main \notin Children /\ MaxOps \in Nat

Procs == Children \cup {Main}

VARIABLES
    child,        \* state and wait status of every child
    waitPc,           \* the program: "run", in await before its "first" waitpid or in
                  \*   its "loop"
    status,       \* the local variable status of process_wait
    awaited,      \* not in the code: the child await has started, whether it was
                  \*   the only one, whether a waitpid was interrupted
    mem,          \* shared->format and shared->bytes
    locked,       \* shared->locked
    op,           \* what each process is doing with the shared value
    left,         \* the calls left to each process
    frozen,       \* not in the code: mem when the lock was taken, and whether
                  \*   no write was under way then
    disturbed     \* not in the code: two writes, or a read and a write, have
                  \*   overlapped, or a process was killed within a write

procVars == <<child, waitPc, status, awaited>>
sharedVars == <<mem, locked, op, left, frozen, disturbed>>
processVars == <<procVars, sharedVars>>

\* The status waitpid stores: the exit code in the second byte, or the signal.
Exited(code) == code * 256
Killed == 9
ExitOK == Exited(0)
ExitRuntime == Exited(11)

InState(s) == {c \in Children : child[c].state = s}
Alive(x) == IF x = Main THEN TRUE ELSE child[x].state = "running"
Reap(c) == child' = [child EXCEPT ![c].state = "gone"]
------------------------------------------------------------------------------
(* Processes *)

\* start(): process_create forks.  The child runs the function, the program
\* goes on; when fork fails start dies with an exception.
Fork(c) ==
  /\ c \in InState("none")
  /\ child' = [child EXCEPT ![c].state = "running"]

Start(c) ==
  /\ waitPc = "run" /\ op[Main].at = "idle" /\ Fork(c)
  /\ UNCHANGED <<waitPc, status, awaited, sharedVars>>

\* await() starts the process, whether it was started before or not, then
\* waits.
Await(c) ==
  /\ waitPc = "run" /\ op[Main].at = "idle" /\ Fork(c)
  /\ awaited' = [c |-> c, alone |-> InState("running") \cup InState("zombie") = {},
                 interrupted |-> FALSE]
  /\ waitPc' = "first"
  /\ UNCHANGED <<status, sharedVars>>

\* Faulty: the status of the first child is not kept.
WaitFirstForgets(c) ==
  /\ waitPc = "first" /\ c \in InState("zombie") /\ Reap(c)
  /\ waitPc' = "loop"
  /\ UNCHANGED <<status, awaited, sharedVars>>

\* The first waitpid of process_wait, for any child.
WaitFirst(c) ==
  /\ waitPc = "first" /\ c \in InState("zombie") /\ Reap(c)
  /\ status' = child[c].status
  /\ waitPc' = "loop"
  /\ UNCHANGED <<awaited, sharedVars>>

\* A turn of the loop that gets a child, which is never number -1.
WaitLoop(c) ==
  /\ waitPc = "loop" /\ c \in InState("zombie") /\ Reap(c)
  /\ status' = child[c].status
  /\ UNCHANGED <<waitPc, awaited, sharedVars>>

\* Faulty: the error is taken for an interruption, and waitpid tried again.
WaitOverRetries ==
  /\ waitPc = "loop" /\ InState("running") \cup InState("zombie") = {}
  /\ UNCHANGED processVars

\* ECHILD: waitpid returns -1, the loop is left, and as -1 is the number of
\* the process wait returns status.
WaitOver ==
  /\ waitPc = "loop" /\ InState("running") \cup InState("zombie") = {}
  /\ waitPc' = "run"
  /\ UNCHANGED <<child, status, awaited, sharedVars>>

\* EINTR: after the first waitpid the loop follows; in the loop, continue goes
\* to its condition, which -1 # -1 fails.
WaitInterrupted ==
  /\ waitPc \in {"first", "loop"} /\ ~ awaited.interrupted
  /\ waitPc' = IF waitPc = "first" THEN "loop" ELSE "run"
  /\ awaited' = [awaited EXCEPT !.interrupted = TRUE]
  /\ UNCHANGED <<child, status, sharedVars>>

\* is_alive(): waitpid with WNOHANG, which takes any child that has ended.
IsAlive(c) ==
  /\ waitPc = "run" /\ op[Main].at = "idle" /\ c \in InState("zombie") /\ Reap(c)
  /\ UNCHANGED <<waitPc, status, awaited, sharedVars>>

Writing(x) == op[x].at \in {"format", "bytes"}
Reading(x) == op[x].at \in {"read", "rest"}
Idle == [at |-> "idle", value |-> Nothing, got |-> Nothing, locking |-> FALSE]

EndWith(cs, code) ==
  /\ child' = [c \in Children |-> IF c \in cs THEN [state |-> "zombie", status |-> code]
                                  ELSE child[c]]
  /\ op' = [x \in Procs |-> IF x \in cs THEN Idle ELSE op[x]]
  /\ disturbed' = (disturbed \/ \E c \in cs : Writing(c))

\* kill(): kill(-1, SIGKILL) ends every process but the one that calls it,
\* whichever Process it was called on.
Kill ==
  /\ waitPc = "run" /\ op[Main].at = "idle" /\ InState("running") # {}
  /\ EndWith(InState("running"), Killed)
  /\ UNCHANGED <<waitPc, status, awaited, mem, locked, left, frozen>>

\* The function of a child, or one of its listeners, is over or has died.
Exit(c, code) ==
  /\ Alive(c) /\ op[c].at = "idle"
  /\ EndWith({c}, code)
  /\ UNCHANGED <<waitPc, status, awaited, mem, locked, left, frozen>>
------------------------------------------------------------------------------
(* The shared value: one call of a process at a time *)

Active(x) == Alive(x) /\ (x = Main => waitPc = "run")

Begin(x) ==
  /\ Active(x) /\ op[x].at = "idle" /\ left[x] > 0
  /\ left' = [left EXCEPT ![x] = @ - 1]

\* shared_lock stores the flag, whoever has it.
SetLock ==
  /\ locked' = TRUE
  /\ frozen' = IF locked THEN frozen
               ELSE [mem |-> mem, clean |-> \A y \in Procs : ~ Writing(y)]

Lock(x) == Begin(x) /\ SetLock /\ UNCHANGED <<procVars, mem, op, disturbed>>

Unlock(x) ==
  /\ Begin(x) /\ locked' = FALSE
  /\ UNCHANGED <<procVars, mem, op, frozen, disturbed>>

\* set(v)
Set(x, v) ==
  /\ Begin(x)
  /\ op' = [op EXCEPT ![x].at = "test", ![x].value = v]
  /\ UNCHANGED <<procVars, mem, locked, frozen, disturbed>>

\* locked_set(v): lock, set, unlock.
LockedSet(x, v) ==
  /\ Begin(x) /\ SetLock
  /\ op' = [op EXCEPT ![x].at = "test", ![x].value = v, ![x].locking = TRUE]
  /\ UNCHANGED <<procVars, mem, disturbed>>

\* The end of set, and of locked_set around it.
Done(x) == op' = [op EXCEPT ![x] = IF op[x].locking THEN [Idle EXCEPT !.at = "unlock"] ELSE Idle]

\* Faulty: the flag is not tested.
TestAlways(x) ==
  /\ Active(x) /\ op[x].at = "test"
  /\ op' = [op EXCEPT ![x].at = "format"]
  /\ disturbed' = (disturbed \/ \E y \in Procs \ {x} : Writing(y) \/ Reading(y))
  /\ UNCHANGED <<procVars, mem, locked, left, frozen>>

\* process_shared_write: a locked value is left alone, and false returned.
Test(x) ==
  /\ Active(x) /\ op[x].at = "test"
  /\ IF locked
     THEN Done(x) /\ UNCHANGED disturbed
     ELSE /\ op' = [op EXCEPT ![x].at = "format"]
          /\ disturbed' = (disturbed \/ \E y \in Procs \ {x} : Writing(y) \/ Reading(y))
  /\ UNCHANGED <<procVars, mem, locked, left, frozen>>

WriteFormat(x) ==
  /\ Active(x) /\ op[x].at = "format"
  /\ mem' = [mem EXCEPT !.format = op[x].value]
  /\ op' = [op EXCEPT ![x].at = "bytes"]
  /\ UNCHANGED <<procVars, locked, left, frozen, disturbed>>

\* Faulty: bytes that are there already are kept.
WriteBytesOnce(x) ==
  /\ Active(x) /\ op[x].at = "bytes"
  /\ mem' = IF mem.bytes = Nothing THEN [mem EXCEPT !.bytes = op[x].value] ELSE mem
  /\ Done(x)
  /\ UNCHANGED <<procVars, locked, left, frozen, disturbed>>

WriteBytes(x) ==
  /\ Active(x) /\ op[x].at = "bytes"
  /\ mem' = [mem EXCEPT !.bytes = op[x].value]
  /\ Done(x)
  /\ UNCHANGED <<procVars, locked, left, frozen, disturbed>>

LockedSetUnlock(x) ==
  /\ Active(x) /\ op[x].at = "unlock"
  /\ locked' = FALSE
  /\ op' = [op EXCEPT ![x] = Idle]
  /\ UNCHANGED <<procVars, mem, left, frozen, disturbed>>

\* get(), process_shared_read: the bytes are copied first, then the format;
\* the lock is not looked at.
Get(x) ==
  /\ Begin(x) /\ (mem.bytes # Nothing \/ mem.format # Nothing)
  /\ op' = [op EXCEPT ![x].at = "read"]
  /\ disturbed' = (disturbed \/ \E y \in Procs \ {x} : Writing(y))
  /\ UNCHANGED <<procVars, mem, locked, frozen>>

ReadBytes(x) ==
  /\ Active(x) /\ op[x].at = "read"
  /\ op' = [op EXCEPT ![x].at = "rest", ![x].got = mem.bytes]
  /\ UNCHANGED <<procVars, mem, locked, left, frozen, disturbed>>

\* The copied parts are unpacked; they are compared in ReadsWhole.
ReadFormat(x) ==
  /\ Active(x) /\ op[x].at = "rest"
  /\ op' = [op EXCEPT ![x] = Idle]
  /\ UNCHANGED <<procVars, mem, locked, left, frozen, disturbed>>
------------------------------------------------------------------------------
ProcessesInit ==
  /\ child = [c \in Children |-> [state |-> "none", status |-> 0]]
  /\ waitPc = "run" /\ status = 0
  /\ awaited = [c |-> Nothing, alone |-> FALSE, interrupted |-> FALSE]
  /\ mem = [format |-> Nothing, bytes |-> Nothing] /\ locked = FALSE
  /\ op = [x \in Procs |-> Idle]
  /\ left = [x \in Procs |-> MaxOps]
  /\ frozen = [mem |-> mem, clean |-> TRUE] /\ disturbed = FALSE

Calls(x) ==
  \/ Lock(x) \/ Unlock(x) \/ Get(x)
  \/ \E v \in Values : Set(x, v) \/ LockedSet(x, v)

Steps(x) ==
  \/ Test(x) \/ WriteFormat(x) \/ WriteBytes(x) \/ LockedSetUnlock(x)
  \/ ReadBytes(x) \/ ReadFormat(x)

Waiting == WaitOver \/ \E c \in Children : WaitFirst(c) \/ WaitLoop(c)

Exits(c) == \E code \in {ExitOK, ExitRuntime} : Exit(c, code)

ProcessesNext ==
  \/ \E c \in Children : Start(c) \/ Await(c) \/ IsAlive(c) \/ Exits(c)
  \/ Waiting \/ WaitInterrupted \/ Kill
  \/ \E x \in Procs : Calls(x) \/ Steps(x)

ProcessesSpec == ProcessesInit /\ [][ProcessesNext]_processVars

\* The functions of the children end, and what a process has begun goes on.
Fairness ==
  /\ WF_processVars(Waiting)
  /\ \A c \in Children : WF_processVars(Exits(c))
  /\ \A x \in Procs : WF_processVars(Steps(x))

ProcessesFairSpec == ProcessesSpec /\ Fairness
------------------------------------------------------------------------------
(* Properties *)

ProcessesTypeOK ==
  /\ \A c \in Children : /\ child[c].state \in {"none", "running", "zombie", "gone"}
                         /\ child[c].status \in Nat
  /\ waitPc \in {"run", "first", "loop"} /\ status \in Nat
  /\ awaited.c \in Children \cup {Nothing}
  /\ {awaited.alone, awaited.interrupted, locked, frozen.clean, disturbed} \subseteq BOOLEAN
  /\ {mem.format, mem.bytes} \subseteq Values \cup {Nothing}
  /\ \A x \in Procs : op[x].at # "idle" => Alive(x)
  /\ left \in [Procs -> 0 .. MaxOps]

Returns == waitPc = "loop" /\ waitPc' = "run"

\* When await returns, unless a signal interrupted it, no child is running or
\* left behind, of this Process or of another; and if there is no other child,
\* it returns the wait status of the one it has started, although the first
\* waitpid may take it and the last of the loop gets none.  (With others it is
\* the status of whichever was taken last.)
AwaitReturns ==
  [][Returns /\ ~ awaited'.interrupted =>
       /\ InState("running") \cup InState("zombie") = {}
       /\ awaited.alone => status = child[awaited.c].status]_processVars

\* await comes to an end.
AwaitEnds == []<>(waitPc = "run")

\* The state is well formed, and bytes are read with the format they were
\* written with, unless a write overlapped the read or another write, or its
\* process was killed within it.
ReadsWhole ==
  ProcessesTypeOK /\ \A x \in Procs : op[x].at = "rest" /\ ~ disturbed => op[x].got = mem.format

\* Once the lock is taken with no write under way, the value stays as it is
\* until someone unlocks, however many processes call set.
LockKeeps == locked /\ frozen.clean => mem = frozen.mem

\* lock "Locks the SharedValue and disallows updating the value": a locked
\* value does not change.
LockedStable == [][locked /\ locked' => mem' = mem]_processVars
==============================================================================
