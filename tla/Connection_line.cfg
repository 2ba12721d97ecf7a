SPECIFICATION BoundedSpec
CONSTANTS
    Query = {q1, q2}
    Response = {r1}
    NoMessage = NoMessage
    Garbled = Garbled
    Faults = {"drop", "close"}
    NewlineReplies = FALSE
    MaxBuffer = 6
PROPERTIES AcceptedIsConnected
