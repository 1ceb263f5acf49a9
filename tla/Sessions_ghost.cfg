\* A client whose last disconnect handler has returned is still assigned.
CONSTANTS
    Clients = {c1, c2}
    MaxSockets = 2
    MaxOffers = 1
    MaxResets = 0
    Limits = {2}
    None = None
SPECIFICATION Spec
CHECK_DEADLOCK FALSE
INVARIANTS
    DisconnectCleansUp
