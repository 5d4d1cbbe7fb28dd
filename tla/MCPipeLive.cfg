SPECIFICATION FairSpec
CONSTANTS
    Task = {t1, t2}
    First = t1
    MaxFd = 2
    Obj = {o1, o2, o3}
    NoObj = NoObj
    Size = 1
    Wrap = 2
    Byte = {0}
    MaxIO = 1
CHECK_DEADLOCK FALSE
PROPERTIES
    CallsReturn
