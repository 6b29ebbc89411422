CONSTANTS
    Process = {p, q}
    NoFile = NoFile
    Size = {1, 2}
    Cut = {2, 6}
    MaxSaves = 3
SPECIFICATION Spec
INVARIANTS TypeOK DamageIsNoticed SealedMeansSaved
PROPERTIES ForeignIsKept StepsOfVault
CHECK_DEADLOCK FALSE
