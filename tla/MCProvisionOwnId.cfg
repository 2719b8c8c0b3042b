SPECIFICATION ProvisionSpec
CONSTANTS
    House = {1, 2}
    Id = {"00A1", "00B2", "0001"}
    Self = "0001"
    Placeholder = "0001"
    Phone = {"app"}
    NvsFaults = FALSE
    NoId = NoId
    NoPhone = NoPhone
    NoPayload = NoPayload
    Form <- MCForm
    Payload <- MCPayload
PROPERTIES
    SuccessIsForGood
CHECK_DEADLOCK FALSE
