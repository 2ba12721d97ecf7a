SPECIFICATION ProgramsSpec
CONSTANTS
    NoConn = NoConn
    Conns = {c1, c2}
    Words = {"w"}
    DefaultDbs = {"d1", "d2"}
    BareClasses = {"Database", "Function"}
    MaxHeld = 3
    Conn = c1
    Names = {"a", "b"}
    SIZE_MAX = 65535
CHECK_DEADLOCK FALSE
INVARIANTS ProgramTypeOK MisfitsHaveCause OwnDatabase
INVARIANTS ReplTypeOK QueriesFit DatabaseMeant NumbersMeant
PROPERTIES EndOfInputEnds
