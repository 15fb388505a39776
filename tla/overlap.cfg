SPECIFICATION RaceSpec
CONSTANTS
    Keys = {k1}
    Fields = {1}
    Values = {v1}
    Threads = {t1, t2}
    Args <- VersionArgs
    Faults = {"overlap", "crash", "writeError", "bootCompaction"}
    MaxVersion = 3
    MaxIndex = 2
    MaxCount = 1
    MaxNow = 2
    NoMeta = NoMeta
    NoKey = NoKey
    NoVal = NoVal
    SignBit = 2
INVARIANTS
    FreshVersion
    RestartHeals
PROPERTIES
    CommandsEnd
