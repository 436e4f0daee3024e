CONSTANTS
    Images <- MCTameImages
    Wild <- MCWildImages
    MaxFrames = 5
    MaxHandlers = 3
    MaxStack = 16
    HeapKinds = {"string", "function", "closure"}
    Obj = {o1, o2, o3}
    Null = Null
SPECIFICATION ProgramSpec
INVARIANTS CertifiedInOrder LocalsSeen  HandlersBalanced NeverRunsOn AlwaysDefined
INVARIANTS FunctionsSurvive
PROPERTIES Halts
CHECK_DEADLOCK FALSE
