SPECIFICATION DriverSpec
CONSTANTS
    Query <- MCQuery
    Response <- MCResponse
    NoMessage = NoMessage
    Garbled = Garbled
    Token = {k1}
    MaxRuns = 2
    MaxBatches = 1
    Faults = {"interrupt"}
    NewlineReplies = FALSE
    MaxBuffer = 4
INVARIANTS NothingGarbledReturned
