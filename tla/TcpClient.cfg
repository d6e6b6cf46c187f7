SPECIFICATION FairSpec
CONSTANTS
    FirstDelay = 1
    MaxDelay = 60
INVARIANTS TypeOK OneConnection
PROPERTY Settles
