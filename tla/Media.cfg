\* The encoder, a viewer's queue, the audio input, the audio pacing,
\* the capture of a window and the monitor of its size.
CONSTANTS
    None = None
    Settings = {"s1", "s2"}
    Capacity = 1
    Ids = 3
    TimingLimit = 2
    BacklogFrames = 2
    MaxRevision = 2
    Limit = 2
    MaxSamples = 4
    Inputs = {"i1", "i2"}
    Off = "off"
    MaxAudioRevision = 3
    BacklogCapacity = 3
    LiveEdgeFrames = 1
    QueueCapacity = 2
    MaxGap = 2
    MaxFrames = 6
    Sizes = {"small", "large"}
    TitleBar = "title bar"
    Format = "large"
    MaxChanges = 2
    Windows = {1, 2}
    Dimensions = {"small", "large"}
    MaxMonitored = 4
    MaxEvents = 2
SPECIFICATION MCSpec
INVARIANTS
    SettingsInForce
    TimingExact
    FailureMeansBroken
    TimeKept
    MinimizedNotShown
PROPERTIES
    HostIsHeard
    KeepsLiveEdge
    SettingsHeard
    EndsReported
    FollowsWindow
CHECK_DEADLOCK FALSE
