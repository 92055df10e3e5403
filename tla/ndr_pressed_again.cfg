SPECIFICATION Spec
CONSTANTS
    None = None
    Starts <- TwiceAttempted
    Jobs = {"ndr", "out"}
    Loads = {1}
    MaxMoves = 0
    MaxDialogs = 1
INVARIANT CounterNeverJumpsByTwo
CHECK_DEADLOCK FALSE
