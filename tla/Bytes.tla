-------------------------------- MODULE Bytes --------------------------------
(***************************************************************************)
(* The byte arrays of src/src/bytes.c.  A b_byte_arr has a count and no    *)
(* capacity: the array is as long as the last realloc made it, and what    *)
(* reallocate is told is the count.  contents is a history variable, the   *)
(* bytes that the calls so far should have left.                           *)
(***************************************************************************)
EXTENDS Integers, Sequences

CONSTANTS
  Byte,       \* the numbers from 0 to 255
  Zero,
  Other,      \* an element of a list that is not one of them
  Junk,       \* what realloc leaves in new memory, or lies behind the array
  Given,      \* lists that are passed to bytes and append
  Position,   \* arguments of remove and of an index
  MaxCount,   \* bound on the count
  MaxCounted  \* and on counted, which calls can drive up for ever

ASSUME BytesAssumption ==
  /\ Zero \in Byte /\ Other \notin Byte
  /\ Given \subseteq Seq(Byte \cup {Other})
  /\ Position \subseteq Int

VARIABLES
  array,      \* bytes.bytes, from 0 on,
  size,       \* and how much memory it has
  count,      \* bytes.count
  counted,    \* what vm->bytes_allocated has on account of it
  contents,
  defined     \* no byte before the array has been touched

bytesVars == <<array, size, count, counted, contents, defined>>

\* bytes(list), on calloc's memory: what is not a number becomes 0.
BytesInit ==
  \E l \in Given :
    /\ size = Len(l) /\ count = Len(l) /\ counted = Len(l) /\ defined = TRUE
    /\ contents = [k \in 1 .. Len(l) |-> IF l[k] = Other THEN Zero ELSE l[k]]
    /\ array = [i \in 0 .. Len(l) - 1 |-> contents[i + 1]]

\* GROW_ARRAY to n bytes, which may be fewer than there are.
GrowArray(n) == [i \in 0 .. n - 1 |-> IF i < size THEN array[i] ELSE Junk]

Reallocates(n, filled) ==
  /\ counted + n - count <= MaxCounted
  /\ array' = filled /\ size' = n /\ counted' = counted + n - count

\* append, of a byte.
AppendByte(b) ==
  /\ defined /\ count < MaxCount
  /\ Reallocates(count + 1, [GrowArray(count + 1) EXCEPT ![count] = b])
  /\ count' = count + 1
  /\ contents' = [k \in 1 .. count + 1 |-> IF k <= count THEN contents[k] ELSE b]
  /\ UNCHANGED defined

IsBytes(l) == \A k \in 1 .. Len(l) : l[k] # Other

\* The elements the loop of append has copied: those before the first that is
\* no byte.
Copied(l) == {k \in 1 .. Len(l) : \A m \in 1 .. k : l[m] # Other}

\* GROW_ARRAY and the loop.
Filled(l) ==
  [i \in 0 .. count + Len(l) - 1 |->
     IF i - count + 1 \in Copied(l) THEN l[i - count + 1] ELSE GrowArray(count + Len(l))[i]]

\* Faulty: the count is that of the bytes copied.
AppendListCounts(l) ==
  /\ defined /\ l # <<>> /\ count + Len(l) <= MaxCount
  /\ Reallocates(count + Len(l), Filled(l))
  /\ count' = IF IsBytes(l) THEN count + Len(l) ELSE count + 1
  /\ contents' = IF IsBytes(l) THEN [k \in 1 .. count + Len(l) |->
                                       IF k <= count THEN contents[k] ELSE l[k - count]]
                 ELSE contents
  /\ UNCHANGED defined

\* append, of a list that is not empty.  It fails at an element that is no
\* byte, with the array grown and the elements before that one copied.
AppendList(l) ==
  /\ defined /\ l # <<>> /\ count + Len(l) <= MaxCount
  /\ Reallocates(count + Len(l), Filled(l))
  /\ count' = IF IsBytes(l) THEN count + Len(l) ELSE count
  /\ contents' = IF IsBytes(l) THEN [k \in 1 .. count + Len(l) |->
                                       IF k <= count THEN contents[k] ELSE l[k - count]]
                 ELSE contents
  /\ UNCHANGED defined

\* extend, by n bytes which are those of b.  No bytes by no bytes frees the
\* array, and NULL is taken for a failure.
ExtendBy(n, b) ==
  /\ defined /\ count + n <= MaxCount
  /\ Reallocates(count + n, [i \in 0 .. count + n - 1 |->
                               IF i < count THEN array[i] ELSE b[i - count + 1]])
  /\ count' = count + n
  /\ contents' = [k \in 1 .. count + n |-> IF k <= count THEN contents[k] ELSE b[k - count]]
  /\ UNCHANGED defined

ExtendBytes(l) == IsBytes(l) /\ ExtendBy(Len(l), l)

\* The argument may be the array itself, which has moved.
ExtendItself == ExtendBy(count, [k \in 1 .. count |-> array[k - 1]])

\* pop, which does not look whether there is anything.
PopByte ==
  /\ defined /\ defined' = (count > 0)
  /\ IF count > 0
     THEN count' = count - 1 /\ contents' = [k \in 1 .. count - 1 |-> contents[k]]
     ELSE UNCHANGED <<count, contents>>
  /\ UNCHANGED <<array, size, counted>>

\* remove, whose loop reads one byte more than the count.
RemoveByte(index) ==
  /\ defined /\ index \in 0 .. count - 1
  /\ array' = [i \in 0 .. size - 1 |->
                 IF i < index \/ i >= count THEN array[i]
                 ELSE IF i + 1 < size THEN array[i + 1] ELSE Junk]
  /\ count' = count - 1
  /\ contents' = [k \in 1 .. count - 1 |-> IF k <= index THEN contents[k] ELSE contents[k + 1]]
  /\ UNCHANGED <<size, counted, defined>>

\* bytes[p] = b: a position below 0 passes the test if above -count.
SetByte(p, b) ==
  LET position == IF p < 0 THEN count + p ELSE p
  IN  /\ defined /\ position < count /\ position > - count
      /\ defined' = (position >= 0)
      /\ IF position >= 0
         THEN /\ array' = [array EXCEPT ![position] = b]
              /\ contents' = [contents EXCEPT ![position + 1] = b]
         ELSE UNCHANGED <<array, contents>>
      /\ UNCHANGED <<size, count, counted>>

\* dispose, and the collector: free_byte_arr leaves an array of count 0 alone.
FreeByteArr ==
  /\ defined /\ count > 0
  /\ array' = [i \in 0 .. -1 |-> Junk] /\ size' = 0 /\ counted' = counted - count
  /\ count' = 0 /\ contents' = [k \in 1 .. 0 |-> Junk] /\ UNCHANGED defined

BytesNext ==
  \/ \E b \in Byte : AppendByte(b)
  \/ \E l \in Given : AppendList(l) \/ ExtendBytes(l)
  \/ ExtendItself \/ PopByte \/ FreeByteArr
  \/ \E p \in Position : RemoveByte(p) \/ \E b \in Byte : SetByte(p, b)

BytesSpec == BytesInit /\ [][BytesNext]_bytesVars
------------------------------------------------------------------------------
BytesTypeOK ==
  /\ size \in Nat /\ count \in 0 .. size
  /\ array \in [0 .. size - 1 -> Byte \cup {Junk}]
  /\ contents \in [1 .. count -> Byte]

\* Whatever the calls, failed ones included, the array has room for its count
\* and the bytes below it are those that the calls should have left, never new
\* or stale memory; and bytes_allocated has at least as many on account of it
\* as free_byte_arr takes away, so the sum (a size_t) never drops below 0 and
\* the collector is not set off by every allocation from there on.
HoldsBytes ==
  /\ BytesTypeOK
  /\ \A k \in 1 .. count : contents[k] = array[k - 1]
  /\ counted \in Int /\ counted >= count
==============================================================================
