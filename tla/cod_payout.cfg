SPECIFICATION FairSpec
CONSTANTS
    Shipments = {1, 2}
    Requests = {r1, r2}
    NoRow = NoRow
    NoRequest = NoRequest
    Cash = 2
    Debit = 1
    MaxDeficit = 1
    LateDeliveries = FALSE
INVARIANTS TypeOK PaidOnce RemittedIsPaid
PROPERTIES RequestsEnd
CHECK_DEADLOCK FALSE
