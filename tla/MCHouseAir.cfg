SPECIFICATION HouseSpec
CONSTANTS
    Sensor = {s1}
    Self = gw
    HALF = 3
    CHANNEL_MAX = 2
    GwChannels = {1, 2}
    STORAGE_MAX_RETRIES = 1
    MaxReadings = 2
    MaxOwn = 1
    SLOTS = 1
    PENDING_CMD_TRIES = 2
    RX_QUEUE = 1
    DATA_QUEUE_SIZE = 1
    NvsFaults = FALSE
    Strangers = TRUE
    InfluxFaults = TRUE
    MaxRestarts = 1
    NoOrder = NoOrder
    NoReading = NoReading
    NoReply = NoReply
    NoDevice = NoDevice
    NoItem = NoItem
    Junk = Junk
    Order <- MCNone
    OnAir <- MCNone
INVARIANTS
    NoFalseReplay
PROPERTIES
    FeedPromise
CHECK_DEADLOCK FALSE
