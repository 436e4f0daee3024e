CONSTANTS
  o1 = o1  o2 = o2  o3 = o3
  Null = Null
  Obj <- MCObj
  Kinds <- MCPlainKinds
  t1 = t1  t2 = t2  t3 = t3  t4 = t4
  Text <- MCText
  Key <- MCString
  TextOf <- MCTextOf
  Hash <- MCStringHash
  Value = {Nil}
  Empty = Empty
  Nil = Nil
  True = True
  None = None
  MaxStrCapacity = 8
SPECIFICATION HeapSpec
INVARIANTS IInv ReachableSurvive GarbageFreed
INVARIANTS HoldsLiveStrings LookupEnds MissedBehindTombstone
PROPERTY CollectionEnds
CHECK_DEADLOCK FALSE
