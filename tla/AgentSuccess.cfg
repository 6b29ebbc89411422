CONSTANTS
    Client = {c, d}
    Key = {k}
    Password = {x, y}
    NoPassword = none
    First = {x}
    NoKey = NoKey
    MaxUuid = 2
    MaxTypos = 1
    MaxLosses = 1
SPECIFICATION Spec
INVARIANT SuccessIsReported
CHECK_DEADLOCK FALSE
