SPECIFICATION Spec
CONSTANTS
    InitCapa = 4
    Uses <- OutputOnly
    MaxBytes = 12
INVARIANT Intact
