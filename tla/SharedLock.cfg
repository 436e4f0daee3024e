CONSTANTS
  Children = {c1, c2}
  Values = {v1, v2}
  MaxOps = 1
  Main = Main
  Nothing = Nothing
SPECIFICATION ProcessesFairSpec
PROPERTY LockedStable
CHECK_DEADLOCK FALSE
