CONSTANTS
    Process = {c, h}
    Handlers = {h}
    Key = {k}
    Value = {v}
    Password = {x, y}
    NoPassword = none
    NoJob = NoJob
    Nothing = Nothing
    Faults = TRUE
    MaxUuid = 3
    MaxRuns = 4
SPECIFICATION Spec
INVARIANT UuidPinsPassword
PROPERTY CommitsStay
CHECK_DEADLOCK FALSE
