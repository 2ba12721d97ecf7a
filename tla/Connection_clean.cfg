SPECIFICATION FairSpec
CONSTANTS
    Query = {q1, q2}
    Response = {r1}
    NoMessage = NoMessage
    Garbled = Garbled
    Faults = {"drop", "interrupt"}
    NewlineReplies = TRUE
    MaxBuffer = 6
INVARIANTS TypeOK IInv ConnectedIsAccepted
PROPERTIES ThrowMeansDisconnected ConnectEnds
