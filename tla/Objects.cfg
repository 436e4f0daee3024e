CONSTANTS
  a = a  b = b  x1 = x1  d1 = d1  d2 = d2
  Nil = Nil  False = False  None = None  Null = Null
  Key <- MCKeys
  Value <- MCValue
  Dicts <- MCDicts
  Falsy <- MCFalsy
  MaxNames = 2
  Byte = {x1, Zero}
  Zero = Zero  Other = Other  Junk = Junk
  Given <- MCGiven
  Position <- MCPosition
  MaxCount = 4
  MaxCounted = 6
  f1 = f1  f2 = f2
  File = {f1, f2}
  Mode <- MCMode
  Path = {p, q}
  Source = {p}
  Node = {n1, n2, n3, n4}
  Data = {d}
  Hole = Hole
  Size = {1}
  MaxThings = 3
  MaxSize = 2
  MaxBuffer = 1
SPECIFICATION ObjectsSpec
INVARIANTS ItemsNamed NamesListKeys LoopVisitsAll HoldsBytes  ReadsPath
PROPERTIES  KeepsContents
CHECK_DEADLOCK FALSE
