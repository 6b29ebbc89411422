CONSTANTS
    Process = {p, q, r}
    NoFile = NoFile
    Crashes = TRUE
    MaxStarts = 5
SPECIFICATION FairSpec
INVARIANTS TypeOK SocketIsMine SocketOutlivesOnlyCrash
PROPERTIES ImplementsLife StartsAndStopsEnd StartLeadsToAgent
CHECK_DEADLOCK FALSE
