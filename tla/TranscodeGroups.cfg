\* Two handlers against Stop, Start, recovery, reconfiguration and maintenance.
SPECIFICATION Spec
CONSTANTS
    Clients = {c1}
    Handlers = {h1, h2}
    Slots = 2
    MaxCalls = 2
    MaxSessions = 2
    MaxChanges = 1
    MaxStops = 1
    None = None
SYMMETRY Symmetry
INVARIANTS
    NoLeakedEncoder
    StoppedStreamIsEmpty
    PrimaryServes
CHECK_DEADLOCK FALSE
