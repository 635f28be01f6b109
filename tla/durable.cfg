SPECIFICATION Spec
CONSTANTS
    Thread = {t1, t2}
    Key = {k1, k2}
    Op <- GrowOp
    Entity <- MCEntity
    NoEntity = NoEntity
    NoBase = NoBase
    Raises = Raises
    Projection <- MCProjection
    InitProjection <- MCInitProjection
    Delta <- MCDelta
    Handler <- MCHandler
    Apply <- MCApply
    Spawns <- MCSpawns
    StoreMayFail = TRUE
    MaxSnapshots = 1
SYMMETRY Symmetric
INVARIANTS
    LedgerReplays
    
    CachesAreCurrent
    ReplayVerifies
    SnapshotsMatchBoundary
PROPERTY
    ImplementsLedger
