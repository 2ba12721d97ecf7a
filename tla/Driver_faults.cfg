SPECIFICATION DriverSpec
CONSTANTS
    Query <- MCQuery
    Response <- MCResponse
    NoMessage = NoMessage
    Garbled = Garbled
    Token = {k1}
    MaxRuns = 2
    MaxBatches = 2
    Faults = {"drop", "cut", "interrupt", "close"}
    NewlineReplies = TRUE
    MaxBuffer = 4
INVARIANTS DriverTypeOK AtMostOnce OnceInv
