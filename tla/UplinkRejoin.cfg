SPECIFICATION UplinkSpec
CONSTANTS
    DATA_QUEUE_SIZE = 2
    MaxReadings = 3
    MaxOrders = 1
    MaxCuts = 1
INVARIANT EveryReconnect
