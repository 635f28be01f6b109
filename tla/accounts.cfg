SPECIFICATION Spec
CONSTANTS
    Thread = {t1, t2}
    User = {u1, u2}
    Token = {k1, k2, k3}
    Threshold = 2
    MaxRequests = 6
    MaxOverlap = 5
    None = None
SYMMETRY Symmetric
INVARIANTS
    LockedAfterFailures
    SessionsEndWithTheirEra
CHECK_DEADLOCK FALSE
