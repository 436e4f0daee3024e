CONSTANTS
  x = x  y = y  z = z  Nil = Nil  Junk = Junk
  Value <- MCValue
  Rank <- MCRank
  Element = {x, Nil}
  Position <- MCPosition
  Argument <- MCArgument
  MaxCount = 5
  MaxBytes = 9
  Nested = {x, y}
  Lengths = {0, 1, 2, 3, 4}
  Children = {c1, c2}
  Values = {v1, v2}
  MaxOps = 1
  Main = Main
  Nothing = Nothing
SPECIFICATION LibrarySpec
INVARIANTS IInv SortIInv Sorted ReadsWhole 
PROPERTIES ImplementsList  AwaitEnds
CHECK_DEADLOCK FALSE
