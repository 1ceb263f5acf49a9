\* Two producers, an urgent stop at any moment, the teardown after it.
SPECIFICATION FairSpec
CONSTANTS
    Cursors = {c1}
    MaxRestarts = 1
    MaxFrames = 2
    MaxDeaths = 1
INVARIANTS
    NoProcessLeft
    CursorFresh
PROPERTIES
    QuietAfterStop
    CursorsEnd
    EofReported
CHECK_DEADLOCK FALSE
