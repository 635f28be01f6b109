SPECIFICATION Spec
CONSTANTS
    Thread = {t1, t2}
    Persona = {p1, p2}
    Fact = {f1, f2}
    Preserved = {f1}
    BulkState = {f2}
    MaxStep = 1
    MaxHistory = 3
    MaxOverlap = 2
    MaxAfter = 1
    MaxPools = 2
    None = None
SYMMETRY Symmetric
INVARIANTS
    MemoryIsNotBehind
    StoredHistoryFits
PROPERTIES
    RowsAdvance
    FactsSurvive
