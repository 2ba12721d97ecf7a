SPECIFICATION ProgramsSpec
CONSTANTS
    NoConn = NoConn
    Conns = {c1, c2}
    Words = {"w"}
    DefaultDbs = {"d1", "d2"}
    BareClasses = {}
    MaxHeld = 2
    Conn = c1
    Names = {"a"}
    SIZE_MAX = 65535
CHECK_DEADLOCK FALSE
INVARIANTS ObjectKeepsValue
