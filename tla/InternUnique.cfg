CONSTANTS
  t1 = t1  t2 = t2  t3 = t3
  Empty = Empty
  Nil = Nil
  True = True
  None = None
  Text <- MCText
  Key <- MCKey
  TextOf <- MCTextOf
  Hash <- MCHash
  Value = {Nil}
  MaxStrCapacity = 8
SPECIFICATION InternSpec
INVARIANT UniqueStrings
