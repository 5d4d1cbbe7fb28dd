SPECIFICATION FairSpec
CONSTANTS
    InitTask = init
    IdleTask = idle
    d1 = d1
    u1 = u1
    u2 = u2
    Task = {init, idle, d1, u1}
    Deamons <- MCDeamons
    WaitList = {w1}
    Sleeping = Sleeping
    NoDetach = NoDetach
    Quantum = 2
    Durations = {0, 1, 2}
    Horizon = 4
PROPERTIES
    ReadyRuns
    SleepersWake
