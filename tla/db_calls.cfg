SPECIFICATION Spec
CONSTANTS
    p1 = p1
    p2 = p2
    a = a
    b = b
    c = c
    a1 = a1
    a2 = a2
    b1 = b1
    c1 = c1
    Procs = {p1, p2}
    Keys = {a, b, c}
    Vals = {a1, a2, b1, c1}
    Blank = Blank
    NHash = 2
    Hash <- MCHash
    KeyLen <- MCKeyLen
    DatLen <- MCDatLen
    Data <- MCData
    PtrMax = 6
    Ops <- MCAllOps
    MaxCalls <- MCTwoCalls
    Preload <- MCPreload
INVARIANTS TypeOK ChainExclusive FreeExclusive AppendExclusive FilesSound ScanSound
PROPERTIES ImplementsKVStore EveryCallEnds
