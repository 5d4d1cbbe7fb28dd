SPECIFICATION Spec
CONSTANTS
    InitTask = init
    IdleTask = idle
    d1 = d1
    u1 = u1
    u2 = u2
    Task = {init, idle, d1, u1, u2}
    Deamons <- MCDeamons
    WaitList = {w1}
    Sleeping = Sleeping
    NoDetach = NoDetach
    Quantum = 3
    Durations = {0, 1}
    Horizon = 3
SYMMETRY MCSymmetry
INVARIANTS
    TypeOK
    QueueInv
    SleepersSorted
PROPERTIES
    WakesAreExact
    ImplementsTasking
