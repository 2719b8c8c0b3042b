SPECIFICATION DeviceCertSpec
CONSTANTS
    Chunks = 3
    Cap = 4
    FlashFaults = 2
    LinkTrouble = 2
INVARIANTS DeviceCertTypeOK WholeCertificate RoleHasIdentity
PROPERTIES OkMeansStored TransferHeals
