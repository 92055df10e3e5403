SPECIFICATION Spec
CONSTANTS
    Types = {"FORWARD", "REVERSE"}
    Flows = {FALSE, TRUE}
    Freight <- SmallFreight
    RtoCharge = 5
    CodFee = 2
    Charge = 1
    Reasons <- JourneyReasons
    Ops <- JourneyOps
    AttemptBound = 4
    ChargeBound = 1
CONSTRAINT WeighedAlone
INVARIANTS TypeOK BillSettled ReturnFreightOnce AttemptLimit OnTheWayHasOtp RefundedNeverMoved
PROPERTIES ClaimNeverDebits TerminalStays ResumeToStage KeepsContract
CHECK_DEADLOCK FALSE
