SPECIFICATION FairDriverSpec
CONSTANTS
    Query <- MCQuery
    Response <- MCResponse
    NoMessage = NoMessage
    Garbled = Garbled
    Token = {k1}
    MaxRuns = 1
    MaxBatches = 1
    Faults = {"drop"}
    NewlineReplies = FALSE
    MaxBuffer = 4
PROPERTIES QueryIsAnswered
