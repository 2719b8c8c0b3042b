SPECIFICATION HouseSpec
CONSTANTS
    Sensor = {s1}
    Self = gw
    HALF = 4
    CHANNEL_MAX = 1
    GwChannels = {1}
    STORAGE_MAX_RETRIES = 2
    MaxReadings = 3
    MaxOwn = 0
    SLOTS = 1
    PENDING_CMD_TRIES = 2
    RX_QUEUE = 2
    DATA_QUEUE_SIZE = 1
    NvsFaults = FALSE
    Strangers = FALSE
    InfluxFaults = FALSE
    MaxRestarts = 0
    NoOrder = NoOrder
    NoReading = NoReading
    NoReply = NoReply
    NoDevice = NoDevice
    NoItem = NoItem
    Junk = Junk
    Order <- MCReboot
    OnAir <- MCNone
INVARIANTS
    HouseTypeOK
    NoFalseReplay
    LandsOnce
PROPERTIES
    FeedPromise
    UnansweredIsSaved
    SavedUntilNewer
CHECK_DEADLOCK FALSE
