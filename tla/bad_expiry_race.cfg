SPECIFICATION Spec
CONSTANTS
    Keys = {k1}
    Fields = {1}
    Values = {v1}
    Threads = {t1, t2}
    Args <- ReadSet
    Faults = {"overlap"}
    MaxVersion = 3
    MaxIndex = 2
    MaxCount = 2
    MaxNow = 3
    NoMeta = NoMeta
    NoKey = NoKey
    NoVal = NoVal
    SignBit = 2
SYMMETRY Sym
PROPERTIES
    DeletionsJustified
