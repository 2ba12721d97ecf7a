SPECIFICATION FairDriverSpec
CONSTANTS
    Query <- MCQuery
    Response <- MCResponse
    NoMessage = NoMessage
    Garbled = Garbled
    Token = {k1, k2}
    MaxRuns = 2
    MaxBatches = 3
    Faults = {"drop"}
    NewlineReplies = TRUE
    MaxBuffer = 6
INVARIANTS ResultIsWholeAnswer NoClientError AtRestBetweenRuns LengthIsTrue CallInv
PROPERTIES RunEnds ImplementsService
