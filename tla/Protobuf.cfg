SPECIFICATION ProtobufSpec
CONSTANTS
    NULL = NULL
    Objects = {o1, o2}
    Roots = {"VersionDummy", "Query_AssocPair", "Query", "Frame", "Backtrace", "Response",
             "Datum_AssocPair", "Datum", "Term_AssocPair", "Term"}
    MaxSteps = 3
    W32 = 16
    W64 = 24
    RecursionLimit = 3
    WrittenNumbers <- Boundaries
    Field = {f1, f2}
    Element = {e1, e2, e3, e4}
    kMinRepeatedFieldAllocationSize = 2
    NumberList = {l1, l2}
    Numbers = {1, 2}
    Sent <- SentNumbers
    FieldNumbers = {1, 16, 2048}
    MinAllocation = 2
    MaxCalls = 3
    Threads = {t1, t2, t3}
    MainThread = t1
    Closure = {c1, c2, c3}
    MaxDepth = 3
    ScopedPtr = {p1, p2}
    ScopedArray = {a1, a2}
    Single = {s1, s2}
    Several = {n1, n2}
    Null = Null
SYMMETRY Alike
INVARIANTS UnsetIsDefault SizeIsLength ReadsWhatWasWritten CutIsNoticed
    RepeatedTypeOK OneOwner NothingLeaks KeptAreClear
    ListsAreAsMeant MetadataReady SomeoneMoves DeletedOnce LivesAsLongAsOwned
    OneOwnerEach
PROPERTIES ImplementsValues OrderIsKept
CHECK_DEADLOCK FALSE
