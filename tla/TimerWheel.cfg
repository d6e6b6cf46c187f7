SPECIFICATION FairSpec
CONSTANTS
    Ids = {t1, t2, t3}
    None = none
    EveryMs = 2
    NSlots = 3
    Afters = {0, 5, 7}
    MaxLag = 4
    MaxNow = 7
INVARIANTS TypeOK Placement FiresInItsSlot 
PROPERTIES ImplementsQueue Fires
