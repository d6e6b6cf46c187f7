SPECIFICATION Spec
CONSTANTS
    InitCapa = 4
    Uses <- AllUses
    MaxBytes = 12
INVARIANTS TypeOK InBounds InputIntact
