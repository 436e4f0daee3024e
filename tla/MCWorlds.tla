------------------------------ MODULE MCWorlds -------------------------------
EXTENDS Integers

X == [k |-> "value", v |-> "x"]
Y == [k |-> "value", v |-> "y"]

MCArguments == {<<>>, <<X>>, <<X, Y>>}

MCFunctions == {"f", "v"}
MCMains == {"v"}

\* f(), v(a, ...), the constructors (a), m(...), _p(), static s(a), and a
\* field d that holds a function of one parameter.
MCSig ==
  [f |-> [arity |-> 0, is_variadic |-> FALSE], v |-> [arity |-> 2, is_variadic |-> TRUE],
   ctor |-> [arity |-> 1, is_variadic |-> FALSE], m |-> [arity |-> 1, is_variadic |-> TRUE],
   _p |-> [arity |-> 0, is_variadic |-> FALSE], s |-> [arity |-> 1, is_variadic |-> FALSE],
   d |-> [arity |-> 1, is_variadic |-> FALSE]]

MCCareful ==
  {[name |-> "clone", protects |-> 1, fails |-> FALSE],
   [name |-> "insert", protects |-> 0, fails |-> TRUE]}

MCCareless ==
  {[name |-> "clone", protects |-> 1, fails |-> FALSE],
   [name |-> "zip", protects |-> 1, fails |-> TRUE]}

Declares(methods, fields, statics) ==
  [methods |-> methods, fields |-> fields, statics |-> statics]

\* Three classes: a method overridden and inherited, a private method at the
\* root and below, fields, one of them over a method, a static field, a class
\* with a constructor, one that inherits it and one that does not.
MCWorlds ==
  {<<Declares({"ctor", "m", "_p"}, {}, {"v"}), Declares({"m"}, {"d"}, {}),
     Declares({"_p", "s"}, {"m"}, {})>>}
==============================================================================
