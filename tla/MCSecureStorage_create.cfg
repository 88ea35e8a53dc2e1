SPECIFICATION Spec
CONSTANTS
    Pcr = {10, 11}
    Measurement = {m1, m2}
    NoPcr = NoPcr
    PcrExtend = 10
    PcrSeal = {10, 11}
    BlobDevice = TRUE
    CryptDevice = TRUE
    InitialHandles = {"free"}
    Environments <- OnlyCreateFails
    Pass = {p1, p2}
    NoPass = NoPass
INVARIANTS SealReturnsBlob
