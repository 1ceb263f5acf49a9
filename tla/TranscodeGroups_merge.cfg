\* Merging and draining with two viewers, and fair tasks.
SPECIFICATION FairSpec
CONSTANTS
    Clients = {c1, c2}
    Handlers = {h1}
    Slots = 3
    MaxCalls = 2
    MaxSessions = 2
    MaxChanges = 0
    MaxStops = 0
    None = None
PROPERTIES
    NobodyLeftDraining
    UnusedEncoderStops
CHECK_DEADLOCK FALSE
