SPECIFICATION FairSpec
CONSTANTS
    Users = {u1}
    Admins = {u1}
    Txns = {t1}
    Utrs = {b1}
    Requests = {r1, r2}
    Amounts = {1, 2}
    Floor = 2
    Mix = {"offline", "spend", "post", "abort"}
    MaxLedger = 3
    MaxRows = 2
    NoTxn = NoTxn
    NoUtr = NoUtr
    NoUser = NoUser
    NoRequest = NoRequest
INVARIANT FinlockHonoured
PROPERTY RequestsEnd
CHECK_DEADLOCK FALSE
