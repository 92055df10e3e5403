SPECIFICATION Spec
CONSTANTS
    None = None
INVARIANTS TypeOK ActedAsShown OncePerIntent
PROPERTIES TypingKept
CHECK_DEADLOCK FALSE
