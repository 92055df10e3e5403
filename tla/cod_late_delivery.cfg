SPECIFICATION Spec
CONSTANTS
    Shipments = {1, 2}
    Requests = {r1, r2}
    NoRow = NoRow
    NoRequest = NoRequest
    Cash = 2
    Debit = 1
    MaxDeficit = 1
    LateDeliveries = TRUE
INVARIANT PaidOnce
CHECK_DEADLOCK FALSE
