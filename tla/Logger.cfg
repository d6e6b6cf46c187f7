SPECIFICATION FairSpec
CONSTANTS
    Writers = {w1, w2}
    Flusher = flusher
    Owner = owner
    Nobody = nobody
    Sizes = {2, 3}
    BlockSize = 4
    BlockNum = 1
    MaxLogs = 4
INVARIANTS TypeOK FileInOrder NothingLost FlushedAtExit
PROPERTY ReachesFile
