SPECIFICATION Spec
CONSTANTS
    Keys = {k1, k2}
    Fields = {1, 2}
    Values = {v1}
    Threads = {t1}
    Args <- OneBatchArgs
    Faults = {"crash", "writeError"}
    MaxVersion = 2
    MaxIndex = 2
    MaxCount = 2
    MaxNow = 2
    NoMeta = NoMeta
    NoKey = NoKey
    NoVal = NoVal
    SignBit = 8
    Base = 4
    LenBytes = 1
    WordBytes = 2
    RawKeys <- PrefixKeys
SYMMETRY Sym
INVARIANTS
    HashReadsAgree
    ZSetReadsAgree
    ListReadsAgree
    ScansExact
    FilterReadsOwner
    MetaReadsBack
