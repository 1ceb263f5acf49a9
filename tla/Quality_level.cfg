\* A viewer with a fast path, H.264 only and a host above the bit rate of level 3.1.
CONSTANTS
    v1 = v1
    v2 = v2
    Clients = {v1, v2}
    Slots = 3
    DeviceGroups = 2
    SourceWidth = 1920
    SourceHeight = 1080
    Policy = "auto"
    HostCodecs = {"vp9"}
    Supported <- LevelSupported
    Settings <- LevelSettings
    Probes <- LevelProbes
    Windows <- MCWindows
    MaxHandlers = 1
    MaxEvents = 3
    MaxLowered = 1
    None = None
SPECIFICATION Spec
PROPERTIES
    ClimbStaysEncodable
CHECK_DEADLOCK FALSE
