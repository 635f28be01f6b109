SPECIFICATION FairSpec
CONSTANTS
    Thread = {t1, t2}
    Key = {k1}
    Op <- SpawnOp
    Entity <- MCEntity
    NoEntity = NoEntity
    NoBase = NoBase
    Raises = Raises
    Projection <- MCProjection
    InitProjection <- MCInitProjection
    Delta <- MCDelta
    Handler <- MCHandler
    Apply <- MCApply
    Spawns <- MCSpawns
    StoreMayFail = TRUE
    MaxSnapshots = 1
PROPERTY
    EveryRequestEnds
