\* Two viewers, three slots, two handlers at once, every way a profile moves.
CONSTANTS
    v1 = v1
    v2 = v2
    Clients = {v1, v2}
    Slots = 3
    DeviceGroups = 2
    SourceWidth = 1280
    SourceHeight = 720
    Policy = "auto"
    HostCodecs = {"vp9"}
    Supported <- MCSupported
    Settings <- MCSettings
    Probes <- MCProbes
    Windows <- MCWindows
    MaxHandlers = 2
    MaxEvents = 3
    MaxLowered = 1
    None = None
SPECIFICATION Spec
PROPERTIES
    ClimbsBack
CHECK_DEADLOCK FALSE
