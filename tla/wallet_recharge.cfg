SPECIFICATION Spec
CONSTANTS
    Users = {u1, u2}
    Admins = {u1, u2}
    Txns = {t1, t2}
    Utrs = {b1, b2}
    Requests = {r1, r2}
    Amounts = {1}
    Floor = 1
    Mix = {"confirm", "approve", "reject", "verify", "offline"}
    MaxLedger = 2
    MaxRows = 1
    NoTxn = NoTxn
    NoUtr = NoUtr
    NoUser = NoUser
    NoRequest = NoRequest
INVARIANTS TypeOK PassbookAddsUp CreditedExactlyWhenCompleted MakerChecker
PROPERTY DecisionIsFinal
CHECK_DEADLOCK FALSE
