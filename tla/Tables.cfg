CONSTANTS
  k1 = k1  k2 = k2  k3 = k3  k4 = k4
  Empty = Empty
  Nil = Nil
  True = True
  Absent = Absent
  Key <- MCKey
  Value <- MCValue
  Hash <- MCHash
  MaxCapacity = 8
  Worlds <- MCWorlds
  Arguments <- MCArguments
  Functions <- MCFunctions
  Mains <- MCMains
  Sig <- MCSig
  Natives <- MCCareful
  MaxFrames = 3
  MaxStack = 4
SPECIFICATION TablesSpec
INVARIANTS IInv ProbeEnds  RunsNearest 
PROPERTIES ImplementsMap GrowthEnds
CHECK_DEADLOCK FALSE
