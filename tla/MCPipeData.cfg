SPECIFICATION Spec
CONSTANTS
    Task = {t1, t2}
    First = t1
    MaxFd = 2
    Obj = {o1, o2}
    NoObj = NoObj
    Size = 2
    Wrap = 4
    Byte = {0, 1}
    MaxIO = 3
CHECK_DEADLOCK FALSE
SYMMETRY MCSymmetry
INVARIANTS
    TypeOK
PROPERTIES
    ImplementsChannel
