CONSTANTS
    Process = {c, h}
    Handlers = {h}
    Key = {k, l}
    Value = {v}
    Password = {x}
    NoPassword = none
    NoJob = NoJob
    Nothing = Nothing
    NoWorker = NoWorker
    Faults = TRUE
    MaxUuid = 2
    MaxRuns = 3
SPECIFICATION SystemFairSpec
INVARIANT OneAtATime
PROPERTIES ImplementsStore WorkEnds
CHECK_DEADLOCK FALSE
