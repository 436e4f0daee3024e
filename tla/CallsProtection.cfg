CONSTANTS
  Worlds <- MCWorlds
  Arguments <- MCArguments
  Functions <- MCFunctions
  Mains <- MCMains
  Sig <- MCSig
  Natives <- MCCareless
  MaxFrames = 3
  MaxStack = 4
SPECIFICATION CallsSpec
INVARIANT ProtectionCleared
CHECK_DEADLOCK FALSE
