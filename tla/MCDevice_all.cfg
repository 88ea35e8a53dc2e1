SPECIFICATION UsedDevice
CONSTANTS
    Pcr = {10}
    Measurement = {m1, m2}
    NoPcr = NoPcr
    PcrExtend = 10
    PcrSeal = {10}
    BlobDevice = TRUE
    CryptDevice = TRUE
    InitialHandles = {"free"}
    Environments <- MCEnvironments
    Pass = {p1, p2}
    NoPass = NoPass
    Tries = 1
    Args <- MCArgs
    FaultSets <- MCFaultSets
    NoMeta = NoMeta
    Cases <- MCCases
    Parts <- MCParts
    FirstNodes = {"disk", "partition"}
INVARIANTS StorageOnlyForSignedRootfs
PROPERTIES KeepsSecureStorage TpmOnlyAfterVerification StorageGetsReady
