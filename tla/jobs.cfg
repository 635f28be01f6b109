SPECIFICATION Spec
CONSTANTS
    Thread = {t1, t2}
    Job = {j1}
    MaxAttempts = 2
    Trials = 2
    NoRecord = NoRecord
    NoResult = NoResult
    Database = TRUE
    StoreMayFail = TRUE
SYMMETRY Symmetric
INVARIANTS
    OneRunPerJob
    CompletedIsComplete
    StoredIsCurrent
    AnsweredStands
    RunningIsServed
