SPECIFICATION FairSpec
CONSTANTS
    Clients = {c1, c2}
    Loop = loop
    Nobody = nobody
    Calls = {k1, k2}
    DueTimerPosts = TRUE
INVARIANTS TypeOK InOrder NoLostWakeup
PROPERTIES RefinesExecutor CallbackRuns LoopEnds
CHECK_DEADLOCK FALSE
