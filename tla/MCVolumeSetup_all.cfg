SPECIFICATION FairSpec
CONSTANTS
    FaultSets <- AnyFaults
    Key = Key
    Zero = Zero
    NoKey = NoKey
    KeySize = 32
    SizeMod = 65536
    PipeBuf = 4096
INVARIANTS FormattedWithKey OneToolAtATime ToolsInSequence MountedIsComplete KeyBuffersCleared
PROPERTIES SetupEnds
CHECK_DEADLOCK FALSE
