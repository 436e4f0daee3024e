CONSTANTS
  o1 = o1  o2 = o2  o3 = o3
  Null = Null
  Obj <- MCObj
  Kinds <- MCDictKinds
SPECIFICATION Spec
INVARIANT EntriesSurvive
CHECK_DEADLOCK FALSE
