SPECIFICATION FairSpec
CONSTANTS
    MetaSize = 7
    SigLen = 1
    TableMax = 16
    PayloadMax = 2
    Word = 16
    Partitions <- SomePartitions
    Signed <- SomeSigned
    KeyDescs <- TwoKeys
    KeyFiles <- SomeKeyFiles
    Keyrings <- SomeKeyrings
    KeyOf <- SomeKeyOf
    Numeral <- SomeNumerals
    Beginning <- SomeBeginnings
    FaultSets <- MixedFaults
INVARIANTS TypeOK AcceptedIsSigned MappedAsSigned EnrolledKeysFit OptionsFitBuffer ReadsTail
PROPERTIES LoadEnds
CHECK_DEADLOCK FALSE
