SPECIFICATION FairSpec
CONSTANTS
    Devices <- SomeDevices
    Kind <- SomeKinds
    LongNames = {"cut-off"}
    DigitNames = {"mmcblk0"}
    Layouts <- SomeLayouts
    RootfsGuid <- Rootfs
    StorageGuid <- Storage
    MinEntrySize = 2
    Word = 64
    Tries = 1
    FaultSets <- MixedFaults
INVARIANTS TypeOK FoundIsFirst StorageBesideRootfs MissingIsAbsent
PROPERTIES SearchEnds
CHECK_DEADLOCK FALSE
