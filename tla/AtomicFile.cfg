SPECIFICATION Spec
CONSTANTS
    Contents = {v1, v2, v3}
    Torn = Torn
    None = None
INVARIANT
    OnlyAttempted
PROPERTY
    ImplementsRegister
