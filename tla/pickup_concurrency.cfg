SPECIFICATION FairSpec
CONSTANTS
    Shipments = {1, 2}
    Purs = {p1, p2}
    Requests = {r1, r2}
    NoPur = NoPur
    NoRequest = NoRequest
INVARIANTS TypeOK BoxesMatch AssignedOnOpenPur
PROPERTIES CancelledStays PurEndsOnce RequestsEnd
CHECK_DEADLOCK FALSE
