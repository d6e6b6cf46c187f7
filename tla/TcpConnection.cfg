SPECIFICATION FairSpec
CONSTANTS
    Fds = {f1, f2}
    Listen = listen
    None = none
    Sizes = {0, 1, 2}
    MaxWrite = 4
    MaxConns = 2
    MaxCalls = 3
    MaxAccepts = 3
INVARIANTS TypeOK NoDangling RemovedOnce OutputArmed
PROPERTY HalfCloseCompletes
