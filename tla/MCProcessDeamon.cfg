SPECIFICATION Spec
CONSTANTS
    DeamonCount = 1
    MaxTask = 5
    MaxBlock = 6
    MaxMade = 5
CHECK_DEADLOCK FALSE
INVARIANTS
    DeamonSeesExit
