SPECIFICATION FairSpec
CONSTANTS
    DeamonCount = 1
    MaxTask = 5
    MaxBlock = 6
    MaxMade = 4
CHECK_DEADLOCK FALSE
PROPERTIES
    ParentReaps
