SPECIFICATION ProvisionSpec
CONSTANTS
    House = {1, 2}
    Id = {"00A1", "00B2", "0001"}
    Self = "00B2"
    Placeholder = "0001"
    Phone = {"app"}
    NvsFaults = TRUE
    NoId = NoId
    NoPhone = NoPhone
    NoPayload = NoPayload
    Form <- MCForm
    Payload <- MCPayload
INVARIANTS
    ProvisionTypeOK
    RoleIsOneSave
    ReportedIsSound
    NoBlobForgotten
PROPERTIES
    SuccessIsForGood
CHECK_DEADLOCK FALSE
