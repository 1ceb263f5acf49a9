\* Builds without the window resize machinery: three clicks of the host against
\* an update, a failure and a late acknowledgement.
SPECIFICATION Spec
CONSTANTS
    Windows = FALSE
    MaxCommands = 3
    MaxUpdates = 1
    MaxTimeouts = 1
    MaxFailures = 1
    MaxResizes = 0
INVARIANTS
    GraphBehindEnabled
    StopWins
    RecoveryFlag
    FinalizeSparesLaterStart
PROPERTIES
    AckedStartIsLive
    SupersededRecoveryStaysClosed
CHECK_DEADLOCK FALSE
