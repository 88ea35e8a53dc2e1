SPECIFICATION Spec
CONSTANTS
    Argvs <- SomeArgvs
    DeviceNodes <- Nodes2
    PcrCount = 40
    Registers = {0, 1, 2, 3, 4, 5, 6, 7, 8, 9, 10, 11, 12, 13, 14, 15, 16, 17, 18, 19, 20, 21, 22, 23}
    SelectBytes = 4
    Bits32 = 64
INVARIANTS TypeOK ExtendsAsGiven PolicyIsAsked PrintsAsAsked
CHECK_DEADLOCK FALSE
