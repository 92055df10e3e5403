SPECIFICATION Spec
CONSTANTS
    Users = {a, b}
    None = None
    Slots = {1}
    MaxEvents = 1
    MaxFailures = 1
    MaxSteps = 3
    MaxMoves = 2
INVARIANTS TypeOK PasswordForItsOwner MenusAgree
PROPERTIES OutageKeepsSession Settles
CHECK_DEADLOCK FALSE
