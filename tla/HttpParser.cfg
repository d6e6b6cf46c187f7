SPECIFICATION Spec
CONSTANTS
    Messages <- MCMessages
    Extra <- MCExtra
INVARIANTS TypeOK CompletedExactly Understood
