SPECIFICATION Spec
CONSTANTS
    Client = {c1}
    Worker = {w1, w2}
    k1 = k1
    k2 = k2
    Key = {k1, k2}
    Sent <- MCSent
    Command <- MCCommand
    Entity <- MCEntity
    Seed = {s1}
    Run = {r1}
    Scenario <- MCScenario
    Projection <- MCProjection
    InitProjection <- MCInitProjection
    Delta <- MCDelta
    Raises = Raises
    None = None
    Canonical = Canonical
    Handle <- MCHandle
    Apply <- MCApply
    Spawns <- MCSpawns
    InitEntities <- MCInitEntities
    MaxSnapshots = 1
    MaxTrials = 1
SYMMETRY Workers
INVARIANT GoodsAreConserved
