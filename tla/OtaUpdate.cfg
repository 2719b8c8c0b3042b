SPECIFICATION OtaFairSpec
CONSTANTS
    Image = {factory, v2, v3, forged}
    Signed = {factory, v2, v3}
    Factory = factory
    SIZE = 2
    MAX_TOTAL = 3
INVARIANTS
    OtaTypeOK
    BootsWholeSigned
PROPERTIES
    FirmwarePromise
    UpdateEnds
CHECK_DEADLOCK FALSE
