SPECIFICATION Spec
CONSTANTS
    Tabs = {t1, t2}
    Users = {u1, u2}
    Views = {"list"}
    Requests = {r1, r2}
    Anon = Anon
    NoRequest = NoRequest
    MaxEntries = 1
    MaxChanges = 2
SYMMETRY Symmetry
INVARIANTS TypeOK FreshEntries
PROPERTY NeverStepsBack
CHECK_DEADLOCK FALSE
