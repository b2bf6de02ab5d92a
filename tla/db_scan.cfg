SPECIFICATION ScanSpec
CONSTANTS
    p1 = p1
    p2 = p2
    a = a
    b = b
    c = c
    a1 = a1
    b1 = b1
    b2 = b2
    c1 = c1
    Procs = {p1, p2}
    Keys = {a, b, c}
    Vals = {a1, b1, b2, c1}
    Blank = Blank
    NHash = 1
    Hash <- MCHash
    KeyLen <- MCKeyLen
    DatLen <- MCDatLen
    Data <- MCData
    PtrMax = 20
    Ops <- MCOps
    MaxCalls <- MCCalls
    Preload <- MCPreload
INVARIANT ScanComplete
