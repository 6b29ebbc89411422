CONSTANTS
    Key = {k}
    Setting = {s}
    Password = {x, y}
    NoPassword = none
    NotGiven = NotGiven
    NoCommand = NoCommand
    MaxUuid = 2
    MaxSlips = 1
SPECIFICATION FairSpec
INVARIANTS TypeOK  RightPasswordsOpen
PROPERTY CommandsEnd
CHECK_DEADLOCK FALSE
