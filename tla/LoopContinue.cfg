CONSTANTS
    Images <- MCContinueImages
    Wild = {}
    MaxFrames = 5
    MaxHandlers = 3
    MaxStack = 16
SPECIFICATION Spec
INVARIANTS LocalsSeen
CHECK_DEADLOCK FALSE
