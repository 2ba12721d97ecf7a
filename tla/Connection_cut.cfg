SPECIFICATION BoundedSpec
CONSTANTS
    Query = {q1, q2}
    Response = {r1}
    NoMessage = NoMessage
    Garbled = Garbled
    Faults = {"drop", "cut"}
    NewlineReplies = TRUE
    MaxBuffer = 6
INVARIANTS ConnectedIsAccepted
