SPECIFICATION Spec
CONSTANTS
    None = None
    Kinds = {"forward"}
    Openings = {"new"}
    Forms = {"blank", "billed"}
    Slots = {1, 2}
    MaxTries = 1
    MaxKeys = 3
    MaxPrice = 2
    MaxForgets = 1
INVARIANT PressingAgainIsSafe
CHECK_DEADLOCK FALSE
