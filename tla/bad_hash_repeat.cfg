SPECIFICATION Spec
CONSTANTS
    Keys = {k1}
    Fields = {1}
    Values = {v1}
    Threads = {t1}
    Args <- HashRepeat
    Faults = {}
    MaxVersion = 3
    MaxIndex = 2
    MaxCount = 2
    MaxNow = 3
    NoMeta = NoMeta
    NoKey = NoKey
    NoVal = NoVal
    SignBit = 2
SYMMETRY Sym
INVARIANTS
    RepliesMatch
