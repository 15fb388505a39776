SPECIFICATION Spec
CONSTANTS
    Keys = {k1}
    Fields = {1, 2}
    Values = {v1, v2}
    Threads = {t1}
    Args <- MixedArgs
    Faults = {}
    MaxVersion = 2
    MaxIndex = 2
    MaxCount = 2
    MaxNow = 2
    NoMeta = NoMeta
    NoKey = NoKey
    NoVal = NoVal
    SignBit = 2
INVARIANTS
    HashReadsAgree
    SetReadsAgree
    ZSetReadsAgree
    ListReadsAgree
    RepliesMatch
PROPERTIES
    DeletionsJustified
    ImplementsRedis
