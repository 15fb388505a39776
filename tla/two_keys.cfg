SPECIFICATION Spec
CONSTANTS
    Keys = {k1, k2}
    Fields = {1}
    Values = {v1}
    Threads = {t1, t2}
    Args <- TwoKeyArgs
    Faults = {"crash"}
    MaxVersion = 2
    MaxIndex = 2
    MaxCount = 2
    MaxNow = 2
    NoMeta = NoMeta
    NoKey = NoKey
    NoVal = NoVal
    SignBit = 2
SYMMETRY Sym
INVARIANTS
    TypeOK
    VersionMapExact
    LiveRecordsKept
PROPERTIES
    NoResurrection
    GarbageStays
    CompactReclaims
