SPECIFICATION Spec
CONSTANTS
    Fds = {f1, f2}
    Listen = listen
    None = none
    Sizes = {1}
    MaxWrite = 3
    MaxConns = 2
    MaxCalls = 1
    MaxAccepts = 1
INVARIANT NeverAborts
