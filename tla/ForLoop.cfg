CONSTANTS
    nil = nil
    item1 = item1
    item2 = item2
    u1 = u1
    u2 = u2
    x1 = x1
    x2 = x2
    x3 = x3
    x4 = x4
    Value <- MCValue
    Up <- MCUp
    Variable <- MCVariable
    MaxStack = 4
    MaxFrames = 1
SPECIFICATION ForSpec
INVARIANT FreshEachIteration
CHECK_DEADLOCK FALSE
