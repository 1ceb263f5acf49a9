\* Windows builds: the resize restart and its retries, with fairness.
SPECIFICATION FairSpec
CONSTANTS
    Windows = TRUE
    MaxCommands = 2
    MaxUpdates = 0
    MaxTimeouts = 0
    MaxFailures = 1
    MaxResizes = 1
PROPERTIES
    ImplementsStream
    FailureHandled
    HostServed
    ResetEnds
CHECK_DEADLOCK FALSE
