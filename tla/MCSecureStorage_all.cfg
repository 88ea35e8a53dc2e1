SPECIFICATION UsedSpec
CONSTANTS
    Pcr = {10, 11}
    Measurement = {m1, m2}
    NoPcr = NoPcr
    PcrExtend = 10
    PcrSeal = {10, 11}
    BlobDevice = TRUE
    CryptDevice = TRUE
    InitialHandles = {"free", "foreign"}
    Environments <- MixedEnvironments
    Pass = {p1, p2}
    NoPass = NoPass
INVARIANTS BlobFitsVolume OpenOnlyIfTrusted DataRecoverable TrustedBootMounts NeverHalfDone
PROPERTIES DataSurvives KeepsLifecycle EventuallyReady
