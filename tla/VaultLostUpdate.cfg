CONSTANTS
    Process = {c, h, i}
    Handlers = {h, i}
    Key = {k, l}
    Value = {v}
    Password = {x}
    NoPassword = none
    NoJob = NoJob
    Nothing = Nothing
    Faults = FALSE
    MaxUuid = 1
    MaxRuns = 3
SPECIFICATION Spec
INVARIANT EditsLand
CHECK_DEADLOCK FALSE
