SPECIFICATION HttpSpec
CONSTANTS
    Messages <- MCMessages
    Extra <- MCExtra
    Bound <- MCBound
    Bodies <- MCBodies
INVARIANT Accepted
