SPECIFICATION GatewayFairSpec
CONSTANTS
    Sensor = {s1, s2}
    Self = gw
    HALF = 3
    MaxReadings = 1
    MaxOwn = 1
    GwChannels = {1, 2}
    SLOTS = 2
    PENDING_CMD_TRIES = 2
    RX_QUEUE = 1
    DATA_QUEUE_SIZE = 1
    NoOrder = NoOrder
    NoReading = NoReading
    NoDevice = NoDevice
    NoItem = NoItem
    Junk = Junk
    Order <- MCOrder
    OnAir <- MCOnAir
INVARIANTS
    GatewayTypeOK
    OneSlotPerBox
    HandedAtMost
PROPERTIES
    ReceiverNeverStuck
    CourierPromise
CHECK_DEADLOCK FALSE
