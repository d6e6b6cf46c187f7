SPECIFICATION IoFairSpec
CONSTANTS
    p = p
    k = k
    Scheds = {s1}
    Boot = boot
    None = none
    Cos = {a, b, c}
    Posts <- PostsToSelf
    DueSleeps = TRUE
    MaxTasks = 3
    Listen = listen
    Pipes = {p}
    Socks = {k}
    Dir <- Directions
INVARIANTS IoTypeOK NoStuckQueue ResumesOwned IoArmed NotSpurious
PROPERTIES TaskBegins Resumed
