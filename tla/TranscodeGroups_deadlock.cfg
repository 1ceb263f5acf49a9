\* The order of the two locks of the groups.
SPECIFICATION Spec
CONSTANTS
    Clients = {c1}
    Handlers = {h1}
    Slots = 2
    MaxCalls = 1
    MaxSessions = 1
    MaxChanges = 1
    MaxStops = 0
    None = None
INVARIANTS
    NoCircularWait
CHECK_DEADLOCK FALSE
