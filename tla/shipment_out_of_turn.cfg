SPECIFICATION Spec
CONSTANTS
    Types = {"FORWARD"}
    Flows = {FALSE}
    Freight <- SmallFreight
    RtoCharge = 5
    CodFee = 2
    Charge = 1
    Reasons <- OutOfTurnReasons
    Ops <- OutOfTurnOps
    AttemptBound = 3
    ChargeBound = 0
INVARIANT HoldsOutOfTurn
CHECK_DEADLOCK FALSE
