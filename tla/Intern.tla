------------------------------- MODULE Intern --------------------------------
(***************************************************************************)
(* The intern table vm->strings: copy_string and take_string look a text   *)
(* up with table_find_string, which has a probing loop of its own, and     *)
(* intern a new string object when it is not found; the collector removes  *)
(* the strings that died.  Strings are compared by address everywhere      *)
(* else, so two objects for one text are two different values.             *)
(*                                                                         *)
(* Key is the set of string objects; those of one text have one hash.      *)
(***************************************************************************)
EXTENDS Table

CONSTANTS Text,
          TextOf,           \* the characters of a string object
          None,
          MaxStrCapacity    \* bound of the model on the table

ASSUME InternAssumption ==
  /\ TextOf \in [Key -> Text] /\ None \notin Key \cup Text
  /\ \A x \in Text : \E s \in Key : TextOf[s] = x
  /\ \A s, t \in Key : TextOf[s] = TextOf[t] => Hash[s] = Hash[t]

VARIABLES strEntries, strCapacity, strCount,   \* vm->strings
          live,      \* the string objects that exist
          asked,    \* the text copy_string is about to allocate, or None
          answer      \* the text asked for last and the object returned

strVars == <<strEntries, strCapacity, strCount, live, asked, answer>>

NoAnswer == [text |-> None, string |-> None]

InternInit ==
  /\ strEntries = NewEntries(0) /\ strCapacity = 0 /\ strCount = 0
  /\ live = {} /\ asked = None /\ answer = NoAnswer

HashOf(x) == Hash[CHOOSE s \in Key : TextOf[s] = x]

\* The entry d steps along the probe for text x.
Probed(x, d) == strEntries[Step(strCapacity, HashOf(x) % strCapacity, d)]

\* The loop of table_find_string returns at its d-th entry: at any empty key,
\* a tombstone included, or at a string with the same characters.
Returns(x, d) ==
  Probed(x, d).key = Empty \/ TextOf[Probed(x, d).key] = x

\* Faulty: the slot after the home slot is not tried.
FindStringHomeOnly(x) ==
  IF strCount = 0 \/ Probed(x, 0).key = Empty THEN None
  ELSE IF TextOf[Probed(x, 0).key] = x THEN Probed(x, 0).key ELSE None

FindString(x) ==
  LET d == CHOOSE d \in 0 .. strCapacity - 1 :
             Returns(x, d) /\ \A e \in 0 .. d - 1 : ~ Returns(x, e)
  IN  IF strCount = 0 \/ Probed(x, d).key = Empty THEN None ELSE Probed(x, d).key

\* The bounds of the model: strCapacity, and objects for a text.
Room(x) ==
  /\ Overloaded(strCount, strCapacity) => GrowCapacity(strCapacity) <= MaxStrCapacity
  /\ \E s \in Key \ live : TextOf[s] = x

\* copy_string and take_string, up to the allocation.
CopyString(x) ==
  /\ asked = None
  /\ IF FindString(x) # None
       THEN answer' = [text |-> x, string |-> FindString(x)] /\ UNCHANGED asked
       ELSE Room(x) /\ asked' = x /\ UNCHANGED answer
  /\ UNCHANGED <<strEntries, strCapacity, strCount, live>>

\* One iteration of adjust_capacity.
Moved(es, new, entry) ==
  IF entry.key = Empty THEN es
  ELSE [es EXCEPT ![FindEntry(es, new, entry.key)] = entry]

\* The array adjust_capacity fills from the first n slots of the old one.
Rehash(new, n) ==
  LET fill[i \in 0 .. n] ==
        IF i = 0 THEN NewEntries(new) ELSE Moved(fill[i - 1], new, strEntries[i - 1])
  IN  fill[n]

Live(n) == Cardinality({s \in 0 .. n - 1 : strEntries[s].key # Empty})

\* Faulty: the string is not entered in the table.
AllocateStringLoose(s) ==
  /\ asked # None /\ TextOf[s] = asked /\ s \notin live
  /\ live' = live \cup {s}
  /\ asked' = None /\ answer' = [text |-> asked, string |-> s]
  /\ UNCHANGED <<strEntries, strCapacity, strCount>>

\* allocate_string: the object, and table_set on vm->strings.
AllocateString(s) ==
  LET grows == Overloaded(strCount, strCapacity)
      new == IF grows THEN GrowCapacity(strCapacity) ELSE strCapacity
      es == IF grows THEN Rehash(new, strCapacity) ELSE strEntries
      n == IF grows THEN Live(strCapacity) ELSE strCount
      slot == FindEntry(es, new, s)
  IN  /\ asked # None /\ TextOf[s] = asked /\ s \notin live
      /\ strEntries' = [es EXCEPT ![slot] = [key |-> s, value |-> Nil]]
      /\ strCapacity' = new
      /\ strCount' = IF es[slot] = Pristine THEN n + 1 ELSE n
      /\ live' = live \cup {s}
      /\ asked' = None /\ answer' = [text |-> asked, string |-> s]

\* collect_garbage, from any allocation: table_remove_whites deletes the
\* strings that are not reached, and sweep frees them.
CollectWhites(dead) ==
  /\ strEntries' = [s \in 0 .. strCapacity - 1 |->
                   IF strEntries[s].key \in dead THEN Tombstone ELSE strEntries[s]]
  /\ live' = live \ dead
  /\ answer' = NoAnswer
  /\ UNCHANGED <<strCapacity, strCount, asked>>

InternNext ==
  \/ \E x \in Text : CopyString(x)
  \/ \E s \in Key : AllocateString(s)
  \/ \E dead \in SUBSET live : CollectWhites(dead)

InternSpec == InternInit /\ [][InternNext]_strVars
------------------------------------------------------------------------------
(* Properties *)

InternTypeOK ==
  /\ strEntries \in [0 .. strCapacity - 1 -> Entry]
  /\ strCount \in 0 .. strCapacity /\ live \subseteq Key
  /\ asked \in Text \cup {None}

\* The table is well formed and holds the strings that exist, and no other: it
\* keeps none alive and none is missed by the collector.  So copy_string
\* answers with one that exists; it has the characters asked for.
HoldsLiveStrings ==
  /\ InternTypeOK /\ {strEntries[s].key : s \in 0 .. strCapacity - 1} \ {Empty} = live
  /\ answer # NoAnswer => answer.string \in live /\ TextOf[answer.string] = answer.text

\* The loop of table_find_string has no bound: every probe meets an empty key
\* or a match.
LookupEnds ==
  strCapacity # 0 => \A x \in Text : \E d \in 0 .. strCapacity - 1 : Returns(x, d)

\* A string is missed by a lookup of its text only if a tombstone lies before
\* it (table_find_string stops there): as long as no string before it has been
\* collected, asking for its text finds it, or another string of that text.
MissedBehindTombstone ==
  \A s \in live : FindString(TextOf[s]) = None =>
    \E d \in 0 .. strCapacity - 1 :
      /\ Probed(TextOf[s], d).key = s
      /\ \E e \in 0 .. d - 1 : Probed(TextOf[s], e) = Tombstone

\* One string object for one text, so that comparing addresses compares
\* strings.
UniqueStrings ==
  \A s, t \in live : TextOf[s] = TextOf[t] => s = t
==============================================================================
