CONSTANTS
    v1 = v1
    v2 = v2
    u1 = u1
    u2 = u2
    u3 = u3
    x1 = x1
    x2 = x2
    x3 = x3
    x4 = x4
    x5 = x5
    Value <- MCValue
    Up <- MCUp
    Variable <- MCVariable
    MaxStack = 4
    MaxFrames = 2
SPECIFICATION Spec
SYMMETRY Symmetry
INVARIANTS IInv SeesVariable
