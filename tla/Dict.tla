-------------------------------- MODULE Dict ---------------------------------
(***************************************************************************)
(* The dictionary of src/src/dict.c: an array `names' of the keys in order *)
(* of insertion beside a hash table `items'.  The code keeps the two       *)
(* together by hand, one operation at a time.  items is a map here, which  *)
(* is what Refinement in HashTableProofs shows a b_table to be.            *)
(*                                                                         *)
(* Two dictionaries, because extend, clone and compact relate two, and one *)
(* for loop, whose body may call any operation between two turns.          *)
(***************************************************************************)
EXTENDS Integers, Sequences, FiniteSetsExt

CONSTANTS Key, Value,
          Dicts,        \* the dictionaries of the program
          Nil, False,   \* Blade values
          Falsy,        \* the keys is_false holds of
          None,
          MaxNames      \* bound of the model on names.count

\* is_false holds of nil and false.
ASSUME DictAssumption == {Nil, False} \subseteq Falsy /\ MaxNames \in Nat

VARIABLES names, items,   \* the fields of each b_obj_dict
          extending,      \* the loop of dict.extend in progress
          loop,           \* the for loop in progress
          reply,          \* history: what the for loop visited that just ended
          careless        \* history: a nil key, a repeated key in a literal or
                          \*   an extend by a key already there has been used

dictVars == <<names, items, extending, loop, reply>>
vars == <<dictVars, careless>>

Idle == [into |-> None]
NoLoop == [on |-> None]
NoReply == [op |-> "none"]

Init ==
  /\ names = [d \in Dicts |-> <<>>]
  /\ items = [d \in Dicts |-> <<>>]
  /\ extending = Idle /\ loop = NoLoop /\ reply = NoReply /\ careless = FALSE

\* table_get: a nil key is stored but never found.
Has(table, k) == k # Nil /\ k \in DOMAIN table

\* table_set
Put(table, k, v) == [j \in DOMAIN table \cup {k} |-> IF j = k THEN v ELSE table[j]]

\* table_add_all
AddAll(from, to) ==
  [j \in DOMAIN from \cup DOMAIN to |-> IF j \in DOMAIN from THEN from[j] ELSE to[j]]

Callable == extending = Idle
Fits(d, n) == Len(names[d]) + n <= MaxNames

\* A step of the loop body that takes names away, or none at all.
Shrinks(d) ==
  loop' = IF loop.on = d THEN [loop EXCEPT !.shrunk = TRUE, !.visited = <<>>] ELSE loop

\* dict_add_entry
AddEntry(d, k, v) ==
  /\ Fits(d, 1)
  /\ names' = [names EXCEPT ![d] = Append(@, k)]
  /\ items' = [items EXCEPT ![d] = Put(@, k, v)]

\* dict_set_entry: looks for the key in names, not in items.
SetEntry(d, k, v) ==
  /\ IF k \in Range(names[d])
       THEN UNCHANGED names
       ELSE Fits(d, 1) /\ names' = [names EXCEPT ![d] = Append(@, k)]
  /\ items' = [items EXCEPT ![d] = Put(@, k, v)]

Add(d, k, v) ==
  /\ Callable
  /\ IF Has(items[d], k)
       THEN UNCHANGED <<names, items>>   \* an error is raised
       ELSE AddEntry(d, k, v)
  /\ reply' = NoReply /\ UNCHANGED <<extending, loop>>

Set(d, k, v) ==
  /\ Callable
  /\ IF Has(items[d], k) THEN SetEntry(d, k, v) ELSE AddEntry(d, k, v)
  /\ reply' = NoReply /\ UNCHANGED <<extending, loop>>

\* Faulty: only the table is written.
SetIndexItemsOnly(d, k, v) ==
  /\ Callable
  /\ items' = [items EXCEPT ![d] = Put(@, k, v)]
  /\ reply' = NoReply /\ UNCHANGED <<names, extending, loop>>

\* d[k] = v: OP_SET_INDEX, dict_set_index
SetIndex(d, k, v) ==
  /\ Callable
  /\ SetEntry(d, k, v)
  /\ reply' = NoReply /\ UNCHANGED <<extending, loop>>

\* d = {k1: v1, k2: v2}: OP_DICT adds the entries one after the other.
Literal(d, k1, v1, k2, v2) ==
  /\ Callable /\ loop.on # d /\ MaxNames >= 2
  /\ Nil \notin {k1, k2}        \* "dictionary key must be one of ..."
  /\ names' = [names EXCEPT ![d] = <<k1, k2>>]
  /\ items' = [items EXCEPT ![d] = Put(Put(<<>>, k1, v1), k2, v2)]
  /\ reply' = NoReply /\ UNCHANGED <<extending, loop>>

Clear(d) ==
  /\ Callable
  /\ names' = [names EXCEPT ![d] = <<>>]
  /\ items' = [items EXCEPT ![d] = <<>>]
  /\ Shrinks(d)
  /\ reply' = NoReply /\ UNCHANGED extending

\* e = d.clone()
Clone(d, e) ==
  /\ Callable /\ loop.on # e
  /\ names' = [names EXCEPT ![e] = names[d]]
  /\ items' = [items EXCEPT ![e] = items[d]]
  /\ reply' = NoReply /\ UNCHANGED <<extending, loop>>

\* The elements of ns at the places in kept, in order.
Filtered(ns, kept) ==
  [j \in 1 .. Cardinality(kept) |->
     ns[CHOOSE i \in kept : Cardinality({m \in kept : m <= i}) = j]]

\* e = d.compact(): tmp_value is whatever it was when table_get fails.
Compact(d, e) ==
  /\ Callable /\ loop.on # e
  /\ \E tmp \in [1 .. Len(names[d]) -> Value] :
       LET ns == names[d]
           kept == {i \in DOMAIN ns : tmp[i] # Nil}
           last(k) == Max({i \in kept : ns[i] = k})
       IN  /\ \A i \in DOMAIN ns : Has(items[d], ns[i]) => tmp[i] = items[d][ns[i]]
           /\ names' = [names EXCEPT ![e] = Filtered(ns, kept)]
           /\ items' = [items EXCEPT ![e] =
                          [k \in {ns[i] : i \in kept} |-> tmp[last(k)]]]
  /\ reply' = NoReply /\ UNCHANGED <<extending, loop>>

\* d.extend(e) enters its loop; left is dict_cpy->names.count - i.
Extend(d, e) ==
  /\ Callable
  /\ d # e => Fits(d, Len(names[e]))
  /\ extending' = [into |-> d, from |-> e, left |-> Len(names[e])]
  /\ reply' = NoReply /\ UNCHANGED <<names, items, loop>>

\* One write_value_arr.  When d and e are one object the write also lengthens
\* the array the loop runs over, so left stays; names past MaxNames are not
\* kept by the model.
ExtendName ==
  LET d == extending.into
      e == extending.from
      ns == names[e]
  IN  /\ extending # Idle /\ extending.left > 0
      /\ names' = [names EXCEPT ![d] =
                     IF Fits(d, 1) THEN Append(@, ns[Len(ns) - extending.left + 1]) ELSE @]
      /\ extending' = [extending EXCEPT !.left = IF d = e THEN @ ELSE @ - 1]
      /\ UNCHANGED <<items, loop, reply>>

\* The loop is over: table_add_all, and extend returns.
ExtendItems ==
  LET d == extending.into
      e == extending.from
  IN  /\ extending # Idle /\ extending.left = 0
      /\ items' = [items EXCEPT ![d] = AddAll(items[e], @)]
      /\ extending' = Idle
      /\ UNCHANGED <<names, loop, reply>>

\* Faulty: the name stays behind.
RemoveKeyItemOnly(d, k) ==
  /\ Callable
  /\ IF Has(items[d], k)
       THEN /\ items' = [items EXCEPT ![d] = [j \in DOMAIN @ \ {k} |-> @[j]]]
            /\ Shrinks(d)
       ELSE UNCHANGED <<items, loop>>
  /\ reply' = NoReply /\ UNCHANGED <<names, extending>>

\* The names behind index move one place forward.
RemoveName(ns, index) ==
  [i \in 1 .. Len(ns) - 1 |-> IF i < index THEN ns[i] ELSE ns[i + 1]]

\* Only the first name equal to k goes.
RemoveKey(d, k) ==
  /\ Callable
  /\ IF Has(items[d], k)
       THEN LET index == CHOOSE i \in DOMAIN names[d] :
                           names[d][i] = k /\ \A j \in 1 .. i - 1 : names[d][j] # k
            IN  /\ items' = [items EXCEPT ![d] = [j \in DOMAIN @ \ {k} |-> @[j]]]
                /\ names' = [names EXCEPT ![d] = RemoveName(@, index)]
                /\ Shrinks(d)
       ELSE UNCHANGED <<names, items, loop>>
  /\ reply' = NoReply /\ UNCHANGED extending

\* Faulty: the last name is followed by the first.
IterNWraps(ns, k) ==
  LET hits == {i \in 1 .. Len(ns) - 1 : ns[i] = k}
  IN  CASE ns = <<>> -> False
        [] ns # <<>> /\ hits # {} -> ns[Min(hits) + 1]
        [] ns # <<>> /\ hits = {} -> ns[1]

\* Faulty: the last name is never reached.
IterNShort(ns, k) ==
  LET hits == {i \in 1 .. Len(ns) - 2 : ns[i] = k}
  IN  CASE k = Nil /\ ns = <<>> -> False
        [] k = Nil /\ ns # <<>> -> ns[1]
        [] k # Nil /\ hits # {} -> ns[Min(hits) + 1]
        [] k # Nil /\ hits = {} -> Nil

\* dict.@itern(k)
IterN(ns, k) ==
  LET hits == {i \in 1 .. Len(ns) - 1 : ns[i] = k}
  IN  CASE k = Nil /\ ns = <<>> -> False
        [] k = Nil /\ ns # <<>> -> ns[1]
        [] k # Nil /\ hits # {} -> ns[Min(hits) + 1]
        [] k # Nil /\ hits = {} -> Nil

\* for key, value in d
ForStart(d) ==
  /\ Callable /\ loop = NoLoop
  /\ loop' = [on |-> d, key |-> Nil, visited |-> <<>>, shrunk |-> FALSE]
  /\ reply' = NoReply /\ UNCHANGED <<names, items, extending>>

\* key = d.@itern(key); the loop ends at a false key.  visited is kept while
\* the body has taken no name away.
ForNext ==
  LET key == IterN(names[loop.on], loop.key)
  IN  /\ Callable /\ loop # NoLoop
      /\ IF key \in Falsy
           THEN /\ loop' = NoLoop
                /\ reply' = [op |-> "for", on |-> loop.on, visited |-> loop.visited,
                             shrunk |-> loop.shrunk]
           ELSE /\ loop' = [loop EXCEPT !.key = key,
                                        !.visited = IF loop.shrunk \/ Len(@) > MaxNames
                                                      THEN @ ELSE Append(@, key)]
                /\ reply' = NoReply
      /\ UNCHANGED <<names, items, extending>>

\* The calls after which names may no longer list the keys of items.
Careless(it) == careless' = (careless \/ it)

Next ==
  \/ \E d \in Dicts, k \in Key, v \in Value :
       (Add(d, k, v) \/ Set(d, k, v) \/ SetIndex(d, k, v)) /\ Careless(k = Nil)
  \/ \E d \in Dicts, k1, k2 \in Key, v1, v2 \in Value :
       Literal(d, k1, v1, k2, v2) /\ Careless(k1 = k2)
  \/ \E d, e \in Dicts :
       Extend(d, e) /\ Careless(Range(names[d]) \cap Range(names[e]) # {})
  \/ /\ \/ \E d \in Dicts : Clear(d) \/ ForStart(d)
        \/ \E d, e \in Dicts : Clone(d, e) \/ Compact(d, e)
        \/ \E d \in Dicts, k \in Key : RemoveKey(d, k)
        \/ ExtendName \/ ExtendItems \/ ForNext
     /\ UNCHANGED careless

\* extend is a loop in C.  Strong fairness of ForNext: every run of the loop
\* body comes to its end.
Spec == Init /\ [][Next]_vars
Fairness == WF_dictVars(ExtendName \/ ExtendItems) /\ SF_dictVars(ForNext)
FairSpec == Spec /\ Fairness
------------------------------------------------------------------------------
(* Properties *)

TypeOK ==
  /\ names \in [Dicts -> Seq(Key)]
  /\ \A d \in Dicts : DOMAIN items[d] \subseteq Key /\ Range(items[d]) \subseteq Value
  /\ extending = Idle \/ extending.left \in 0 .. MaxNames

\* Whatever the calls, every key of items is in names: remove always finds the
\* index it deletes (it starts from index = -1 and would shift the array from
\* there), and a for loop or keys() can reach every entry.
ItemsNamed ==
  \A d \in Dicts : DOMAIN items[d] \subseteq Range(names[d])

\* Of a careful program names lists the keys of items, each once, so that the
\* branch of to_list marked "theoretically impossible" is not taken.  length,
\* is_empty, keys, values and to_list all answer from names.
NamesListKeys ==
  extending = Idle /\ ~ careless =>
    \A d \in Dicts : IsInjective(names[d]) /\ Range(names[d]) = DOMAIN items[d]

\* A careful program's for loop over a dictionary without false keys, whose
\* body takes no name away, visits the names in order, those added by its body included.
LoopVisitsAll ==
  reply.op = "for" /\ ~ reply.shrunk /\ ~ careless /\ Range(names[reply.on]) \cap Falsy = {} =>
    reply.visited = names[reply.on]

\* Such a loop ends, even if its body goes on adding keys; and dict.extend by
\* another dictionary returns.  (d.extend(d) does not: it lengthens the array
\* it runs over.)  So there is always a later time at which neither goes on.
LoopEnds ==
  /\ []<>(loop = NoLoop \/ loop.shrunk \/ careless)
  /\ []<>(extending = Idle \/ extending.into = extending.from)
==============================================================================
