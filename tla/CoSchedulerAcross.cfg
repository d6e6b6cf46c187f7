SPECIFICATION FairSpec
CONSTANTS
    s1 = s1
    s2 = s2
    Scheds = {s1, s2}
    Boot = boot
    None = none
    Cos = {a, b, c}
    Posts <- PostsAcross
    DueSleeps = FALSE
    MaxTasks = 3
PROPERTY TaskBegins
CHECK_DEADLOCK FALSE
