------------------------------ MODULE MCProgram ------------------------------
(***************************************************************************)
(* A running program, in one run.  A behaviour is one of the machine on    *)
(* compiled statements (Machine), or one of the heap that holds functions  *)
(* and closures (GC); the variables of the other stay as they are, those   *)
(* of the machine at the end of a program.                                 *)
(***************************************************************************)
EXTENDS MCMachine

CONSTANTS Obj, HeapKinds, Null

VARIABLES part, kind, field, mark, objects, strings, roots, markValue, gray, unswept,
          wanted, heapPc

heapVars == <<kind, field, mark, objects, strings, roots, markValue, gray, unswept,
              wanted, heapPc>>

Heap == INSTANCE GC WITH Kinds <- HeapKinds, pc <- heapPc

Over ==
  /\ units = Compile(<<>>) /\ frames = [i \in Frames |-> FreshFrame]
  /\ frameCount = 0 /\ frame = 0 /\ top = 0 /\ status = "ok"
  /\ stack = [i \in Slots |-> "nil"]

ProgramInit ==
  /\ Heap!Init
  /\ \/ part = "machine" /\ Init
     \/ part = "heap" /\ Over

ProgramNext ==
  /\ \/ part = "machine" /\ Next /\ UNCHANGED heapVars
     \/ part = "heap" /\ Heap!Next /\ UNCHANGED vars
  /\ UNCHANGED part

ProgramSpec ==
  ProgramInit /\ [][ProgramNext]_<<part, vars, heapVars>> /\ WF_vars(Next)
------------------------------------------------------------------------------
\* The care free_object takes of shared functions works: the function of a
\* closure the program can reach is never freed, although a function takes its
\* name along when it is.
FunctionsSurvive == Heap!FunctionsSurvive
==============================================================================
