SPECIFICATION SensorFairSpec
CONSTANTS
    Sensor = {s1}
    HALF = 4
    CHANNEL_MAX = 2
    STORAGE_MAX_RETRIES = 2
    MaxReadings = 3
    NvsFaults = TRUE
    NoOrder = NoOrder
    NoReading = NoReading
    NoReply = NoReply
    Order <- MCOrder
INVARIANTS
    SensorTypeOK
    SlotReadable
PROPERTIES
    SeqRises
    WakeEnds
    WakeRunsDown
CHECK_DEADLOCK FALSE
