CONSTANTS
    Process = {c}
    Handlers = {}
    Key = {k, l}
    Value = {v, w}
    Password = {x}
    NoPassword = none
    NoJob = NoJob
    Nothing = Nothing
    Faults = TRUE
    MaxUuid = 3
    MaxRuns = 4
SPECIFICATION Spec
INVARIANTS TypeOK FileIsWhole EditsLand ReportedIsInHistory HistoryIsWhole
CHECK_DEADLOCK FALSE
