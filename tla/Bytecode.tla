------------------------------ MODULE Bytecode -------------------------------
(***************************************************************************)
(* What the compiler (Statements) and the virtual machine (Machine) share: *)
(* the instructions, and the limit on exception handlers.  A compiled      *)
(* program is a function from the names of its functions to their code.    *)
(***************************************************************************)
EXTENDS Integers

CONSTANT MaxHandlers   \* MAX_EXCEPTION_HANDLERS

\* An instruction: its opcode, two addresses or slots, a name, and the
\* addresses a switch may go to.
Instr(op, a, b, n) == [op |-> op, a |-> a, b |-> b, n |-> n, t |-> {}]

\* The operands are addresses and slots, and there is a script to begin with.
WellFormed(u) ==
    /\ "script" \in DOMAIN u
    /\ \A f \in DOMAIN u : \A i \in DOMAIN u[f].code :
          LET c == u[f].code[i]
          IN  c.a \in Nat /\ c.b \in Nat /\ c.t \subseteq Nat
==============================================================================
