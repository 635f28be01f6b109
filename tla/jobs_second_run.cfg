SPECIFICATION Spec
CONSTANTS
    Thread = {t1, t2}
    Job = {j1}
    MaxAttempts = 2
    Trials = 1
    NoRecord = NoRecord
    NoResult = NoResult
    Database = FALSE
    StoreMayFail = FALSE
INVARIANT
    NoSecondRun
