\* Two viewers, overlapping offers and reconnects, a changing limit, a token change; or two
\* connections of the mux that may share a ufrag and an address, queues of two packets.
CONSTANTS
    Clients = {c1, c2}
    MaxSockets = 2
    MaxOffers = 2
    MaxResets = 1
    Limits = {1, 2}
    None = None
    Conns = {m1, m2}
    Addrs = {a1, a2}
    Ufrags = {u1, u2}
    Sizes = {1, 2}
    MaxPackets = 2
    MaxBytes = 3
    MaxReceived = 4
SPECIFICATION MCSpec
SYMMETRY Symmetry
CHECK_DEADLOCK FALSE
INVARIANTS
    RevocationComplete
    NobodyStuck
    EverythingReleased
    PeerNeedsSocket
    AddressTableExact
    ClosedLeavesNothing
    RequestsReachTheirPeer
    NoLostWakeup
PROPERTIES
    ViewerLimit
